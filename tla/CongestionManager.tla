--------------------------- MODULE CongestionManager ---------------------------
(***************************************************************************)
(* ObCongestionManager: the table of congestion entries of one cluster.    *)
(*                                                                         *)
(* A partition of the table is protected by a mutex that nobody waits for. *)
(* Who fails to lock it leaves its request in the partition's todo list,   *)
(* or, for a lookup, a continuation that tries again later; who gets it    *)
(* runs the todo list first.  Each event thread keeps entries it has found *)
(* in a cache of its own, which it reads without the mutex.  Entries, the  *)
(* control configuration and the zone states are reference counted.        *)
(*                                                                         *)
(* One partition is modelled.  What a thread still has to do inside the    *)
(* call it is in is its agenda, a sequence of tasks; a task owns the       *)
(* references the code's locals and parameters hold.  What the entry does  *)
(* when its state or configuration changes is module CongestionEntry.      *)
(***************************************************************************)
EXTENDS Integers, Sequences, FiniteSets

CONSTANTS
    Threads,        \* the event threads
    Refreshers,     \* the threads that report server states
    Servers,        \* the servers of the cluster
    BaseServers,    \* those the first round of the refresh reports
    NoThread,
    States,         \* the server states reported after the first round
    Disabling,      \* the configurations that turn congestion control off
    MaxEntries,     \* bound on the entries in memory
    MaxVersion,     \* bound on the versions of the configuration and the zone
    MaxUpdates,     \* bound on the server state updates
    MaxCancels      \* bound on the lookups a transaction gives up

ASSUME ManagerAssumption ==
    /\ IsFiniteSet(Threads) /\ IsFiniteSet(Servers)
    /\ Refreshers \subseteq Threads /\ NoThread \notin Threads
    /\ BaseServers \subseteq Servers
    /\ Disabling \subseteq 1 .. MaxVersion
    /\ MaxEntries \in Nat /\ MaxVersion \in Nat \ {0}
    /\ MaxUpdates \in Nat /\ MaxCancels \in Nat

EntryIds == 1 .. MaxEntries
NoEntry  == 0
Kinds    == {"config", "zone"}   \* what update_congestion_config, update_zone replace
Versions == 1 .. MaxVersion      \* each update makes a new object

VARIABLES
    bucket_mutex,          \* the holder of the partition's mutex
    rw_lock,               \* the writer inside rw_lock_
    todo,                  \* todo_lists_[partition], oldest first
    agenda,                \* what each thread still has to do in its call
    table,                 \* the partition: the entry of each server
    cache,                 \* each thread's congestion map
    txn,                   \* each thread's transaction
    heap,                  \* the entries and the reference counts
    global,                \* the versions config_ and zones_ point to
    is_congestion_enabled,
    is_base_servers_added,
    is_inited,
    issued,                \* the state last reported for each server
    updates, cancels       \* how much of MaxUpdates, MaxCancels is used

vars == <<bucket_mutex, rw_lock, todo, agenda, table, cache, txn, heap, global,
          is_congestion_enabled, is_base_servers_added, is_inited, issued, updates, cancels>>

-----------------------------------------------------------------------------
(***************************************************************************)
(* Reference counts.                                                       *)
(***************************************************************************)
Unused == [live |-> FALSE, state |-> "DELETED", setting |-> [k \in Kinds |-> 0],
           ref |-> 0, deleted |-> FALSE]

IncRef(h, e) == [h EXCEPT !.entry[e].ref = @ + 1]

GetSetting(h, k, v) == [h EXCEPT !.refs[k][v] = @ + 1]
PutSetting(h, k, v) == [h EXCEPT !.refs[k][v] = @ - 1]

\* The last reference frees the entry, which drops its own references.
DecRef(h, e) ==
    IF h.entry[e].ref = 1
    THEN LET s == h.entry[e].setting
             g == PutSetting(PutSetting(h, "config", s["config"]), "zone", s["zone"])
         IN  [g EXCEPT !.entry[e] = Unused]
    ELSE [h EXCEPT !.entry[e].ref = @ - 1]

\* An entry that can be allocated, within MaxEntries.
HasSpare(h) == \E e \in EntryIds : ~h.entry[e].live
Spare(h) == CHOOSE e \in EntryIds : ~h.entry[e].live

\* add_new_server up to add_record: an entry with the current settings.
NewEntry(h, e, st) ==
    LET g == GetSetting(GetSetting(h, "config", global["config"]), "zone", global["zone"])
    IN  [g EXCEPT !.entry[e] = [live |-> TRUE, state |-> st, setting |-> global,
                                ref |-> 0, deleted |-> FALSE]]

-----------------------------------------------------------------------------
Run               == [op |-> "run_todo_list"]
Unlock            == [op |-> "unlock"]
RemoveAll         == [op |-> "remove_all"]
Revalidate(s, st) == [op |-> "revalidate_server", server |-> s, state |-> st]
Add(s, e)         == [op |-> "add_record", server |-> s, entry |-> e]
Insert(s, e)      == [op |-> "insert_entry", server |-> s, entry |-> e]
Lookup(s)         == [op |-> "lookup_entry", server |-> s]
Retire(e)         == [op |-> "set_entry_deleted_state", entry |-> e]
Drop(e)           == [op |-> "dec_ref", entry |-> e]
Bucket(k, v)      == [op |-> "revalidate_bucket", kind |-> k, version |-> v]
Put(k, v)         == [op |-> "put", kind |-> k, version |-> v]
EndUpdate(k, v)   == [op |-> "end_update", kind |-> k, version |-> v]

NoTxn         == [at |-> "none"]
Waiting(s, v) == [at |-> "waiting", server |-> s, version |-> v]
Holding(e)    == [at |-> "holding", entry |-> e]

Init ==
    /\ bucket_mutex = NoThread
    /\ rw_lock = NoThread
    /\ todo = <<>>
    /\ agenda = [t \in Threads |-> <<>>]
    /\ table = [s \in Servers |-> NoEntry]
    /\ cache = [t \in Threads |-> [s \in Servers |-> NoEntry]]
    /\ txn = [t \in Threads |-> NoTxn]
    /\ heap = [entry |-> [e \in EntryIds |-> Unused],
               refs |-> [k \in Kinds |-> [v \in Versions |-> IF v = 1 THEN 1 ELSE 0]]]
    /\ global = [k \in Kinds |-> 1]
    /\ is_congestion_enabled = TRUE
    /\ is_base_servers_added = FALSE
    /\ is_inited = TRUE
    /\ issued = [s \in Servers |-> "DELETED"]
    /\ updates = 0 /\ cancels = 0

Idle(t) == agenda[t] = <<>>
Begin(t, tasks) == agenda' = [agenda EXCEPT ![t] = tasks]

\* Seeded faults: the newest request is run first; a request is lost.
LockOrStack(t, request, rest) ==
    \/ /\ bucket_mutex = NoThread
       /\ bucket_mutex' = t
       /\ Begin(t, <<Run, request, Unlock>> \o rest)
       /\ UNCHANGED todo
    \/ /\ bucket_mutex # NoThread
       /\ todo' = <<request>> \o todo
       /\ Begin(t, rest)
       /\ UNCHANGED bucket_mutex

LockOrLose(t, request, rest) ==
    /\ bucket_mutex' = IF bucket_mutex = NoThread THEN t ELSE bucket_mutex
    /\ Begin(t, IF bucket_mutex = NoThread THEN <<Run, request, Unlock>> \o rest ELSE rest)
    /\ UNCHANGED todo

\* MUTEX_TRY_LOCK with the request to leave behind if it fails.
LockOrQueue(t, request, rest) ==
    \/ /\ bucket_mutex = NoThread
       /\ bucket_mutex' = t
       /\ Begin(t, <<Run, request, Unlock>> \o rest)
       /\ UNCHANGED todo
    \/ /\ bucket_mutex # NoThread
       /\ todo' = Append(todo, request)
       /\ Begin(t, rest)
       /\ UNCHANGED bucket_mutex

-----------------------------------------------------------------------------
(***************************************************************************)
(* What other parts of the proxy call.                                     *)
(***************************************************************************)
\* update_server in the first round of the refresh: the entry is made, and
\* queued without trying the lock.
AddBaseServer(t, s) ==
    LET e == Spare(heap)
    IN  /\ is_inited /\ ~is_base_servers_added /\ Idle(t) /\ t \in Refreshers
        /\ s \in BaseServers /\ issued[s] = "DELETED" /\ rw_lock = NoThread /\ HasSpare(heap)
        /\ heap' = IncRef(NewEntry(heap, e, "ACTIVE"), e)
        /\ todo' = Append(todo, Add(s, e))
        /\ issued' = [issued EXCEPT ![s] = "ACTIVE"]
        /\ UNCHANGED <<bucket_mutex, rw_lock, agenda, table, cache, txn, global,
                       is_congestion_enabled, is_base_servers_added, is_inited, updates, cancels>>

SetBaseServersAdded ==
    /\ is_inited /\ ~is_base_servers_added
    /\ \A s \in BaseServers : issued[s] # "DELETED"
    /\ is_base_servers_added' = TRUE
    /\ UNCHANGED <<bucket_mutex, rw_lock, todo, agenda, table, cache, txn, heap, global,
                   is_congestion_enabled, is_inited, issued, updates, cancels>>

\* update_server: revalidate_server, now or from the todo list.
UpdateServer(t, s, st) ==
    /\ is_inited /\ is_base_servers_added /\ Idle(t) /\ t \in Refreshers
    /\ updates < MaxUpdates /\ st # issued[s]
    /\ updates' = updates + 1
    /\ issued' = [issued EXCEPT ![s] = st]
    /\ LockOrQueue(t, Revalidate(s, st), <<>>)
    /\ UNCHANGED <<rw_lock, table, cache, txn, heap, global, is_congestion_enabled,
                   is_base_servers_added, is_inited, cancels>>

\* update_congestion_config, update_zone: inside rw_lock_, the pointer is
\* replaced and the partition revalidated, now or from the todo list.  The
\* first round of the refresh sets the zones before it adds the servers.
UpdateSetting(t, k) ==
    LET v == global[k] + 1
        h == GetSetting(GetSetting(PutSetting(heap, k, global[k]), k, v), k, v)
    IN  /\ is_inited /\ Idle(t) /\ rw_lock = NoThread
        /\ v \in Versions
        /\ global' = [global EXCEPT ![k] = v]
        /\ \/ /\ is_base_servers_added \/ k = "config"
              /\ rw_lock' = t
              /\ heap' = GetSetting(h, k, v)
              /\ LockOrQueue(t, Bucket(k, v), <<EndUpdate(k, v)>>)
           \/ /\ ~is_base_servers_added /\ k = "zone"
              /\ \A s \in Servers : issued[s] = "DELETED"
              /\ heap' = PutSetting(h, k, v)
              /\ UNCHANGED <<rw_lock, bucket_mutex, todo, agenda>>
        /\ UNCHANGED <<table, cache, txn, is_congestion_enabled, is_base_servers_added, is_inited,
                       issued, updates, cancels>>

\* get_congest_entry when the configuration says there is no control.
LookupDisabled(t) ==
    /\ is_inited /\ is_base_servers_added /\ is_congestion_enabled
    /\ Idle(t) /\ txn[t] = NoTxn /\ rw_lock = NoThread
    /\ global["config"] \in Disabling
    /\ is_congestion_enabled' = FALSE
    /\ UNCHANGED <<bucket_mutex, rw_lock, todo, agenda, table, cache, txn, heap, global,
                   is_base_servers_added, is_inited, issued, updates, cancels>>

CanLookup(t) ==
    /\ is_inited /\ is_base_servers_added /\ is_congestion_enabled
    /\ Idle(t) /\ txn[t] = NoTxn /\ rw_lock = NoThread
    /\ global["config"] \notin Disabling

CacheHit(t, s) == cache[t][s] # NoEntry /\ ~heap.entry[cache[t][s]].deleted

LookupInCache(t, s) ==
    /\ CanLookup(t) /\ CacheHit(t, s)
    /\ heap' = IncRef(heap, cache[t][s])
    /\ txn' = [txn EXCEPT ![t] = Holding(cache[t][s])]
    /\ UNCHANGED <<bucket_mutex, rw_lock, todo, agenda, table, cache, global,
                   is_congestion_enabled, is_base_servers_added, is_inited, issued, updates, cancels>>

LookupInTable(t, s) ==
    LET v == global["config"]
    IN  /\ CanLookup(t) /\ ~CacheHit(t, s)
        /\ heap' = GetSetting(heap, "config", v)
        /\ \/ /\ bucket_mutex = NoThread
              /\ bucket_mutex' = t
              /\ Begin(t, <<Run, Lookup(s), Unlock, Put("config", v)>>)
              /\ UNCHANGED txn
           \/ /\ bucket_mutex # NoThread
              /\ txn' = [txn EXCEPT ![t] = Waiting(s, v)]
              /\ UNCHANGED <<bucket_mutex, agenda>>
        /\ UNCHANGED <<rw_lock, todo, table, cache, global, is_congestion_enabled,
                       is_base_servers_added, is_inited, issued, updates, cancels>>

\* ObCongestionManagerCont::get_congest_entry; if the mutex is taken it is
\* scheduled again.
RetryLookup(t) ==
    /\ txn[t].at = "waiting" /\ Idle(t)
    /\ bucket_mutex = NoThread
    /\ bucket_mutex' = t
    /\ Begin(t, <<Run, Lookup(txn[t].server), Put("config", txn[t].version), Unlock>>)
    /\ txn' = [txn EXCEPT ![t] = NoTxn]
    /\ UNCHANGED <<rw_lock, todo, table, cache, heap, global, is_congestion_enabled,
                   is_base_servers_added, is_inited, issued, updates, cancels>>

\* The transaction is over before the answer: the continuation goes.
CancelLookup(t) ==
    /\ txn[t].at = "waiting" /\ Idle(t)
    /\ cancels < MaxCancels
    /\ cancels' = cancels + 1
    /\ txn' = [txn EXCEPT ![t] = NoTxn]
    /\ UNCHANGED <<bucket_mutex, rw_lock, todo, agenda, table, cache, heap, global,
                   is_congestion_enabled, is_base_servers_added, is_inited, issued, updates>>

\* reset_congestion_entry or ObTransState::destroy.
ReleaseEntry(t) ==
    /\ txn[t].at = "holding" /\ Idle(t)
    /\ heap' = DecRef(heap, txn[t].entry)
    /\ txn' = [txn EXCEPT ![t] = NoTxn]
    /\ UNCHANGED <<bucket_mutex, rw_lock, todo, agenda, table, cache, global,
                   is_congestion_enabled, is_base_servers_added, is_inited, issued, updates, cancels>>

\* Seeded fault: the entry leaves the cache and keeps its reference.
CleanCacheLeaks(t, s) ==
    /\ Idle(t)
    /\ cache[t][s] # NoEntry /\ heap.entry[cache[t][s]].deleted
    /\ cache' = [cache EXCEPT ![t][s] = NoEntry]
    /\ UNCHANGED <<bucket_mutex, rw_lock, todo, agenda, table, txn, heap, global,
                   is_congestion_enabled, is_base_servers_added, is_inited, issued, updates, cancels>>

\* clean_hash_map, for one server.
CleanCache(t, s) ==
    /\ Idle(t)
    /\ cache[t][s] # NoEntry /\ heap.entry[cache[t][s]].deleted
    /\ heap' = DecRef(heap, cache[t][s])
    /\ cache' = [cache EXCEPT ![t][s] = NoEntry]
    /\ UNCHANGED <<bucket_mutex, rw_lock, todo, agenda, table, txn, global,
                   is_congestion_enabled, is_base_servers_added, is_inited, issued, updates, cancels>>

\* show proxycongestion.
ShowCongestion(t) ==
    /\ is_inited /\ Idle(t) /\ bucket_mutex = NoThread /\ todo # <<>>
    /\ bucket_mutex' = t
    /\ Begin(t, <<Run, Unlock>>)
    /\ UNCHANGED <<rw_lock, todo, table, cache, txn, heap, global, is_congestion_enabled,
                   is_base_servers_added, is_inited, issued, updates, cancels>>

\* destroy, when nobody uses the cluster any more.
Destroy(t) ==
    /\ is_inited /\ updates = MaxUpdates
    /\ \A u \in Threads : Idle(u) /\ txn[u].at # "waiting"
    /\ bucket_mutex' = t
    /\ is_inited' = FALSE /\ is_base_servers_added' = FALSE /\ is_congestion_enabled' = TRUE
    /\ Begin(t, <<Run, RemoveAll, Unlock, Put("config", global["config"]), Put("zone", global["zone"])>>)
    /\ UNCHANGED <<rw_lock, todo, table, cache, txn, heap, global, issued, updates, cancels>>

-----------------------------------------------------------------------------
(***************************************************************************)
(* The tasks of a thread.                                                  *)
(***************************************************************************)
At(t, op) == agenda[t] # <<>> /\ Head(agenda[t]).op = op
Continue(t, tasks) == agenda' = [agenda EXCEPT ![t] = tasks \o Tail(@)]

unsharedVars == <<global, is_congestion_enabled, is_base_servers_added, is_inited, issued, updates, cancels>>

RunTodoList(t) ==
    /\ At(t, "run_todo_list")
    /\ Continue(t, todo)
    /\ todo' = <<>>
    /\ UNCHANGED <<bucket_mutex, rw_lock, table, cache, txn, heap, unsharedVars>>

\* Seeded fault: an early return with the mutex held.
ReleaseBucketNever(t) ==
    /\ At(t, "unlock")
    /\ Continue(t, <<>>)
    /\ UNCHANGED <<bucket_mutex, rw_lock, todo, table, cache, txn, heap, unsharedVars>>

ReleaseBucket(t) ==
    /\ At(t, "unlock")
    /\ Continue(t, <<>>)
    /\ bucket_mutex' = NoThread
    /\ UNCHANGED <<rw_lock, todo, table, cache, txn, heap, unsharedVars>>

\* A known server gets the new state.
SetServerState(t) ==
    LET s == Head(agenda[t]).server
        e == table[s]
    IN  /\ At(t, "revalidate_server")
        /\ e # NoEntry /\ Head(agenda[t]).state # "DELETED"
        /\ heap' = [heap EXCEPT !.entry[e].state = Head(agenda[t]).state]
        /\ Continue(t, <<>>)
        /\ UNCHANGED <<bucket_mutex, rw_lock, todo, table, cache, txn, unsharedVars>>

\* Seeded fault: the removed entry is not marked deleted.
RemoveServerSilently(t) ==
    LET s == Head(agenda[t]).server
        e == table[s]
    IN  /\ At(t, "revalidate_server")
        /\ e # NoEntry /\ Head(agenda[t]).state = "DELETED"
        /\ table' = [table EXCEPT ![s] = NoEntry]
        /\ Continue(t, <<Drop(e)>>)
        /\ UNCHANGED <<bucket_mutex, rw_lock, todo, cache, txn, heap, unsharedVars>>

\* A known server is gone.
RemoveServer(t) ==
    LET s == Head(agenda[t]).server
        e == table[s]
    IN  /\ At(t, "revalidate_server")
        /\ e # NoEntry /\ Head(agenda[t]).state = "DELETED"
        /\ heap' = [heap EXCEPT !.entry[e].state = "DELETED"]
        /\ table' = [table EXCEPT ![s] = NoEntry]
        /\ Continue(t, <<Retire(e), Drop(e)>>)
        /\ UNCHANGED <<bucket_mutex, rw_lock, todo, cache, txn, unsharedVars>>

\* add_new_server for one that is not in the table.  It reads the settings
\* under rw_lock_, and add_record runs the todo list once more.
AddNewServer(t) ==
    LET task == Head(agenda[t])
        e    == Spare(heap)
        h    == NewEntry(heap, e, task.state)
    IN  /\ At(t, "revalidate_server")
        /\ table[task.server] = NoEntry /\ task.state # "DELETED"
        /\ rw_lock = NoThread /\ HasSpare(heap)
        /\ heap' = GetSetting(GetSetting(h, "config", global["config"]), "zone", global["zone"])
        /\ Continue(t, <<Run, Insert(task.server, e), Put("zone", global["zone"]),
                         Put("config", global["config"])>>)
        /\ UNCHANGED <<bucket_mutex, rw_lock, todo, table, cache, txn, unsharedVars>>

\* "need not add deleted server"
SkipDeletedServer(t) ==
    /\ At(t, "revalidate_server")
    /\ table[Head(agenda[t]).server] = NoEntry /\ Head(agenda[t]).state = "DELETED"
    /\ Continue(t, <<>>)
    /\ UNCHANGED <<bucket_mutex, rw_lock, todo, table, cache, txn, heap, unsharedVars>>

\* insert_entry returns the entry it replaced, which is retired.  A queued
\* record brings its reference along.
InsertEntry(t) ==
    LET task == Head(agenda[t])
        old  == table[task.server]
    IN  /\ At(t, "add_record") \/ At(t, "insert_entry")
        /\ heap' = IF task.op = "add_record" THEN heap ELSE IncRef(heap, task.entry)
        /\ table' = [table EXCEPT ![task.server] = task.entry]
        /\ Continue(t, IF old = NoEntry THEN <<>> ELSE <<Retire(old), Drop(old)>>)
        /\ UNCHANGED <<bucket_mutex, rw_lock, todo, cache, txn, unsharedVars>>

SetEntryDeletedState(t) ==
    /\ At(t, "set_entry_deleted_state")
    /\ heap' = [heap EXCEPT !.entry[Head(agenda[t]).entry].deleted = TRUE]
    /\ Continue(t, <<>>)
    /\ UNCHANGED <<bucket_mutex, rw_lock, todo, table, cache, txn, unsharedVars>>

DropEntry(t) ==
    /\ At(t, "dec_ref")
    /\ heap' = DecRef(heap, Head(agenda[t]).entry)
    /\ Continue(t, <<>>)
    /\ UNCHANGED <<bucket_mutex, rw_lock, todo, table, cache, txn, unsharedVars>>

\* remove_entry and what follows, for every entry of the partition.
RemoveAllEntries(t) ==
    /\ At(t, "remove_all")
    /\ \/ \E s \in Servers :
             /\ table[s] # NoEntry
             /\ table' = [table EXCEPT ![s] = NoEntry]
             /\ agenda' = [agenda EXCEPT ![t] = <<Retire(table[s]), Drop(table[s])>> \o @]
       \/ /\ \A s \in Servers : table[s] = NoEntry
          /\ Continue(t, <<>>)
          /\ UNCHANGED table
    /\ UNCHANGED <<bucket_mutex, rw_lock, todo, cache, txn, heap, unsharedVars>>

\* Entries of es that use version w of k.
Users(h, es, k, w) == {e \in es : h.entry[e].setting[k] = w}
\* The entries es point to version v of k, whose kind is counted by refs.
Repointed(h, es, k, v, refs) ==
    [entry |-> [e \in EntryIds |->
                  IF e \in es THEN [h.entry[e] EXCEPT !.setting[k] = v] ELSE h.entry[e]],
     refs  |-> [h.refs EXCEPT ![k] = refs]]
Taken(es, v, w) == IF w = v THEN Cardinality(es) ELSE 0

\* Seeded faults: the old settings keep their references; the new gets none.
ReplaceSettingLeaks(h, es, k, v) ==
    Repointed(h, es, k, v, [w \in Versions |-> h.refs[k][w] + Taken(es, v, w)])
ReplaceSettingBorrows(h, es, k, v) ==
    Repointed(h, es, k, v, [w \in Versions |-> h.refs[k][w] - Cardinality(Users(h, es, k, w))])

\* validate_config or validate_zone of each of the entries es: the old setting
\* loses a reference, the new one gains one.
ReplaceSetting(h, es, k, v) ==
    Repointed(h, es, k, v,
              [w \in Versions |-> h.refs[k][w] - Cardinality(Users(h, es, k, w)) + Taken(es, v, w)])

\* revalidate_bucket_config, revalidate_bucket_zone.
RevalidateBucket(t) ==
    LET k == Head(agenda[t]).kind
        v == Head(agenda[t]).version
    IN  /\ At(t, "revalidate_bucket")
        /\ heap' = PutSetting(ReplaceSetting(heap, {table[s] : s \in Servers} \ {NoEntry}, k, v), k, v)
        /\ Continue(t, <<>>)
        /\ UNCHANGED <<bucket_mutex, rw_lock, todo, table, cache, txn, unsharedVars>>

DropSetting(t) ==
    /\ At(t, "put")
    /\ heap' = PutSetting(heap, Head(agenda[t]).kind, Head(agenda[t]).version)
    /\ Continue(t, <<>>)
    /\ UNCHANGED <<bucket_mutex, rw_lock, todo, table, cache, txn, unsharedVars>>

\* Seeded fault: an early return inside rw_lock_.
ReturnFromUpdateLocked(t) ==
    /\ At(t, "end_update")
    /\ heap' = PutSetting(heap, Head(agenda[t]).kind, Head(agenda[t]).version)
    /\ Continue(t, <<>>)
    /\ UNCHANGED <<bucket_mutex, rw_lock, todo, table, cache, txn, unsharedVars>>

\* revalidate_config and update_congestion_config return.
ReturnFromUpdate(t) ==
    /\ At(t, "end_update")
    /\ heap' = PutSetting(heap, Head(agenda[t]).kind, Head(agenda[t]).version)
    /\ rw_lock' = NoThread
    /\ Continue(t, <<>>)
    /\ UNCHANGED <<bucket_mutex, todo, table, cache, txn, unsharedVars>>

\* Seeded fault: the cache and the transaction share one reference.
LookupEntryShares(t) ==
    LET s == Head(agenda[t]).server
        e == table[s]
    IN  /\ At(t, "lookup_entry") /\ e # NoEntry
        /\ heap' = IF cache[t][s] = NoEntry THEN IncRef(heap, e)
                   ELSE DecRef(IncRef(heap, e), cache[t][s])
        /\ cache' = [cache EXCEPT ![t][s] = e]
        /\ txn' = [txn EXCEPT ![t] = Holding(e)]
        /\ Continue(t, <<>>)
        /\ UNCHANGED <<bucket_mutex, rw_lock, todo, table, unsharedVars>>

\* update_tc_congestion_map, and one reference for the transaction.
LookupEntry(t) ==
    LET s   == Head(agenda[t]).server
        e   == table[s]
        old == cache[t][s]
        h   == IncRef(heap, e)
        g   == IF old = NoEntry THEN h ELSE DecRef(h, old)
    IN  /\ At(t, "lookup_entry")
        /\ \/ /\ e # NoEntry
              /\ heap' = IncRef(g, e)
              /\ cache' = [cache EXCEPT ![t][s] = e]
              /\ txn' = [txn EXCEPT ![t] = Holding(e)]
           \/ /\ e = NoEntry
              /\ txn' = [txn EXCEPT ![t] = NoTxn]
              /\ UNCHANGED <<heap, cache>>
        /\ Continue(t, <<>>)
        /\ UNCHANGED <<bucket_mutex, rw_lock, todo, table, unsharedVars>>

TaskStep(t) ==
    \/ RunTodoList(t)
    \/ ReleaseBucket(t)
    \/ SetServerState(t)
    \/ RemoveServer(t)
    \/ AddNewServer(t)
    \/ SkipDeletedServer(t)
    \/ InsertEntry(t)
    \/ SetEntryDeletedState(t)
    \/ DropEntry(t)
    \/ RemoveAllEntries(t)
    \/ RevalidateBucket(t)
    \/ DropSetting(t)
    \/ ReturnFromUpdate(t)
    \/ LookupEntry(t)

Next ==
    \/ SetBaseServersAdded
    \/ \E t \in Threads :
          \/ TaskStep(t)
          \/ \E s \in Servers : AddBaseServer(t, s)
          \/ \E s \in Servers, st \in States : UpdateServer(t, s, st)
          \/ \E k \in Kinds : UpdateSetting(t, k)
          \/ LookupDisabled(t)
          \/ \E s \in Servers : LookupInCache(t, s) \/ LookupInTable(t, s)
          \/ RetryLookup(t)
          \/ CancelLookup(t)
          \/ ReleaseEntry(t)
          \/ \E s \in Servers : CleanCache(t, s)
          \/ ShowCongestion(t)
          \/ Destroy(t)

Spec == Init /\ [][Next]_vars

(***************************************************************************)
(* Threads run, transactions end, the cache cleaner comes round, requests  *)
(* keep coming, and a lookup that is scheduled again and again meets the   *)
(* mutex free at some point.                                               *)
(***************************************************************************)
Fairness ==
    /\ WF_vars(SetBaseServersAdded)
    /\ \A t \in Threads :
          /\ WF_vars(TaskStep(t))
          /\ SF_vars(ReleaseEntry(t))
          /\ SF_vars(RetryLookup(t))
          /\ \A s \in Servers : SF_vars(CleanCache(t, s))
          /\ \A s \in Servers : WF_vars(LookupInCache(t, s) \/ LookupInTable(t, s))

FairSpec == Spec /\ Fairness

-----------------------------------------------------------------------------
Tasks ==
    {Run, Unlock, RemoveAll}
    \cup {Revalidate(s, st) : s \in Servers, st \in States}
    \cup {Lookup(s) : s \in Servers}
    \cup {Add(s, e) : s \in Servers, e \in EntryIds}
    \cup {Insert(s, e) : s \in Servers, e \in EntryIds}
    \cup {Retire(e) : e \in EntryIds} \cup {Drop(e) : e \in EntryIds}
    \cup {Bucket(k, v) : k \in Kinds, v \in Versions}
    \cup {Put(k, v) : k \in Kinds, v \in Versions}
    \cup {EndUpdate(k, v) : k \in Kinds, v \in Versions}

Txns == {NoTxn} \cup {Waiting(s, v) : s \in Servers, v \in Versions}
                \cup {Holding(e) : e \in EntryIds}

\* Entries in memory.
Entries == [live : {TRUE}, state : States \cup {"ACTIVE"}, setting : [Kinds -> Versions],
            ref : Nat, deleted : BOOLEAN]

TypeOK ==
    /\ bucket_mutex \in Threads \cup {NoThread} /\ rw_lock \in Threads \cup {NoThread}
    /\ todo \in Seq(Tasks)
    /\ agenda \in [Threads -> Seq(Tasks)]
    /\ table \in [Servers -> EntryIds \cup {NoEntry}]
    /\ cache \in [Threads -> [Servers -> EntryIds \cup {NoEntry}]]
    /\ txn \in [Threads -> Txns]
    /\ heap.entry \in [EntryIds -> {Unused} \cup Entries]
    /\ heap.refs \in [Kinds -> [Versions -> Nat]]
    /\ global \in [Kinds -> Versions]
    /\ is_congestion_enabled \in BOOLEAN /\ is_base_servers_added \in BOOLEAN
    /\ is_inited \in BOOLEAN
    /\ issued \in [Servers -> States \cup {"ACTIVE", "DELETED"}]
    /\ updates \in 0 .. MaxUpdates /\ cancels \in 0 .. MaxCancels

\* How many queued requests and unfinished tasks are in the set tasks.
Places(seq, tasks) == {i \in DOMAIN seq : seq[i] \in tasks}
Pending(tasks) ==
    Cardinality(Places(todo, tasks))
    + Cardinality(UNION {{t} \X Places(agenda[t], tasks) : t \in Threads})

\* Tasks that own a reference to e, and tasks that rely on it being there.
Owning(e)  == {Drop(e)} \cup {Add(s, e) : s \in Servers}
Relying(e) == {Retire(e)} \cup {Insert(s, e) : s \in Servers}

EntryOwners(e) ==
    Cardinality({s \in Servers : table[s] = e})
    + Cardinality({p \in Threads \X Servers : cache[p[1]][p[2]] = e})
    + Cardinality({t \in Threads : txn[t] = Holding(e)})
    + Pending(Owning(e))

(***************************************************************************)
(* The reference count of an entry is the number of its owners: the table, *)
(* the thread caches, the transactions, the queued records and whoever is  *)
(* about to drop it.  So no entry is freed while somebody can reach it and *)
(* none outlives its last owner, although the owners come and go without a *)
(* common lock; an entry whose record is not added yet has a count of 0.   *)
(***************************************************************************)
RefCountExact ==
    \A e \in EntryIds :
        /\ heap.entry[e].ref = EntryOwners(e)
        /\ ~heap.entry[e].live => Pending(Relying(e)) = 0

SettingOwners(k, v) ==
    (IF is_inited /\ global[k] = v THEN 1 ELSE 0)
    + Cardinality({e \in EntryIds : heap.entry[e].live /\ heap.entry[e].setting[k] = v})
    + Pending({Bucket(k, v), Put(k, v), EndUpdate(k, v)})
    + (IF k = "config" THEN Cardinality({t \in Threads : \E s \in Servers : txn[t] = Waiting(s, v)})
                       ELSE 0)

(***************************************************************************)
(* "Remember to update the refcount of record": the count of a control     *)
(* configuration or zone state is the number of the entries that use it    *)
(* and of the calls, queued requests and waiting lookups that hold it.     *)
(* Only a cancelled lookup, which destroys its continuation as it is, may  *)
(* leave a reference to the configuration behind.                          *)
(***************************************************************************)
SettingRefExact ==
    \A k \in Kinds, v \in Versions :
        heap.refs[k][v] - SettingOwners(k, v) \in 0 .. (IF k = "config" THEN cancels ELSE 0)

(***************************************************************************)
(* A thread cache never hides a change of the table: an entry that a       *)
(* lookup would take from a cache is the one in the table, or the holder   *)
(* of the bucket mutex is about to mark it deleted.                        *)
(***************************************************************************)
CacheCoherent ==
    \A t \in Threads, s \in Servers :
        CacheHit(t, s) =>
            \/ table[s] = cache[t][s]
            \/ Pending({Retire(cache[t][s])}) > 0

(***************************************************************************)
(* An entry that was taken out of the table is freed in the end: the       *)
(* transactions that hold it finish and clean_hash_map removes it from     *)
(* every thread's cache.                                                   *)
(***************************************************************************)
RetiredFreed ==
    \A e \in EntryIds : heap.entry[e].deleted ~> ~heap.entry[e].deleted

\* Nothing is queued or under way.
Quiet == is_inited /\ is_base_servers_added /\ todo = <<>> /\ \A t \in Threads : Idle(t)

(***************************************************************************)
(* Requests take effect in the order they were made ("start the work at    *)
(* the end of the list"): when nothing is left to do, each server's entry  *)
(* has the state that the refresh reported last.                           *)
(***************************************************************************)
LastUpdateWins ==
    Quiet => \A s \in Servers :
        IF issued[s] = "DELETED" THEN table[s] = NoEntry
        ELSE table[s] # NoEntry /\ heap.entry[table[s]].state = issued[s]

(***************************************************************************)
(* control_config_ is a "pointer to the global congestion control config": *)
(* when nothing is left to do, every entry in the table uses the           *)
(* configuration and the zone state the manager has.                       *)
(***************************************************************************)
SettingsCurrent ==
    Quiet => \A s \in Servers : table[s] # NoEntry => heap.entry[table[s]].setting = global

(***************************************************************************)
(* Replacing the configuration or a zone only adds an asynchronous task    *)
(* ("add asyn revalidate config task"): the writer leaves rw_lock_.        *)
(***************************************************************************)
WriterReturns == rw_lock # NoThread ~> rw_lock = NoThread

(***************************************************************************)
(* A lookup that did not get the mutex is answered: its continuation is    *)
(* scheduled until it does.                                                *)
(***************************************************************************)
LookupAnswered == \A t \in Threads : txn[t].at = "waiting" ~> txn[t].at # "waiting"
=============================================================================
