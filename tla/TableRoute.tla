------------------------------ MODULE TableRoute ------------------------------
(***************************************************************************)
(* Lookup of a table's route entry: ObTableProcessor, the continuation     *)
(* ObTableEntryCont that fetches an entry from the cluster, and the caches *)
(* (ObTableCache with its todo list, one ObTableRefHashMap per thread).    *)
(*                                                                         *)
(* One key of the cache is modelled.  The lock of its bucket is shared     *)
(* with other keys, so every MUTEX_TRY_LOCK may fail; what runs under the  *)
(* lock is one step.  A caller is a state machine pinned to a thread of    *)
(* its own, so a caller also names its thread.  Time is abstracted to      *)
(* choices: whether an entry has expired and whether a dirty one is due.   *)
(***************************************************************************)
EXTENDS Integers, Sequences, SequencesExt, FiniteSets

CONSTANTS
  Callers,      \* state machines that look the table up
  Conts,        \* pool of ObTableEntryCont
  Entries,      \* pool of ObTableEntry
  None,         \* the NULL pointer
  Kinds,        \* kinds of table: "table", "dummy" (__all_dummy), "binlog"
  AsyncModes,   \* values enable_async_pull_location_cache may have
  Expiries,     \* "no", "time" and "qa": how an entry may be found expired
  NTargets,     \* host names or addresses in binlog_service_ip
  MaxTodo,      \* bound on the todo list of the bucket
  MaxLost       \* bound on the references that are never given back

ASSUME RouteAssumption ==
  /\ None \notin Callers \cup Conts \cup Entries
  /\ IsFiniteSet(Callers) /\ IsFiniteSet(Conts) /\ IsFiniteSet(Entries)
  /\ Kinds \subseteq {"table", "dummy", "binlog"}
  /\ AsyncModes \subseteq BOOLEAN
  /\ Expiries \subseteq {"no", "time", "qa"}
  /\ NTargets \in Nat /\ MaxTodo \in Nat /\ MaxLost \in Nat

VARIABLES
  kind,   \* the kind of the table, fixed
  ask,    \* what each caller is doing: "idle", "waiting", "holding"
  got,    \* the entry a holding caller was given, or None
  cont,   \* the continuations
  est,    \* state_ of each entry
  pendq,  \* pending_queue_ of each entry
  refs,   \* ref_count_ of each entry
  lost,   \* history: entries a reference was taken of and never given back
  cache,  \* the entry of the key in the global cache, or None
  todo,   \* entries waiting in the bucket's todo list to be added
  tc      \* the entry of the key in each thread's map, or None

vars == <<kind, ask, got, cont, est, pendq, refs, lost, cache, todo, tc>>

\* Memory that is not in use counts as deleted.
States == {"BORN", "BUILDING", "AVAIL", "DIRTY", "UPDATING", "DELETED"}

(***************************************************************************)
(* pc of a continuation: "cache" and "replace" are the events scheduled    *)
(* when the bucket was locked, "remote" and "hostname" wait for an answer, *)
(* "queued" is in a pending queue, "chain" is popping one, "notify" has    *)
(* been scheduled to call back, "lost" has no event left that could run it *)
(***************************************************************************)
Cont == [pc : {"free", "cache", "remote", "hostname", "queued", "replace",
               "chain", "notify", "lost"},
         who : Callers \cup {None},
         op : {"none", "direct", "update", "build"},
         stage : {"table", "part", "detail", "binlog"},
         left : Nat,
         ent : Entries \cup {None},
         newest : Entries \cup {None},
         notify : BOOLEAN, cancelled : BOOLEAN]

FreeCont == [pc |-> "free", who |-> None, op |-> "none", stage |-> "table",
             left |-> 0, ent |-> None, newest |-> None,
             notify |-> FALSE, cancelled |-> FALSE]

NewCont(k) == [FreeCont EXCEPT !.who = k, !.notify = TRUE]

-----------------------------------------------------------------------------
(* References and memory *)

Count(e, s) == Cardinality({i \in DOMAIN s : s[i] = e})

\* refs after one inc_ref for each element of plus, one dec_ref for each of minus.
Counted(plus, minus) ==
  [e \in Entries |-> refs[e] + Count(e, plus) - Count(e, minus)]

Pointers == {cache} \cup Range(todo) \cup Range(tc) \cup Range(got)
            \cup {cont[c].ent : c \in Conts} \cup {cont[c].newest : c \in Conts}

\* Memory the allocator can hand out: freed, and pointed to by nobody.
Fresh == {e \in Entries : refs[e] = 0 /\ e \notin Pointers}
NewEntry == CHOOSE e \in Entries : e \in Fresh

Active == {c \in Conts : cont[c].pc # "free"}

\* Bound of the pool of entries: memory for a building entry is set aside for
\* every continuation that looks again, the rest is there to be allocated.
Spare == Cardinality(Fresh) > Cardinality({c \in Conts : cont[c].pc = "cache"})

-----------------------------------------------------------------------------
(* The locked section: run_todo_list(), then one change of the cache *)

\* The entry of the key once the todo list has been run.
Current == IF todo = <<>> THEN cache ELSE Last(todo)

\* Entries that lose their place when the section leaves e in the cache.
Gone(e) == ({cache} \cup Range(todo)) \ {e, None}

\* State of x after the section, but for the entry e itself.
StateAfter(x, e) == IF x \in Gone(e) THEN "DELETED" ELSE est[x]

\* Every entry of the todo list gives back the reference of its parameter,
\* every displaced one that of the cache.
LockedCount(e, plus, minus) ==
  [x \in Entries |-> refs[x] + Count(x, plus) - Count(x, minus) - Count(x, todo)
                     - (IF x \in Gone(e) THEN 1 ELSE 0)]

Locked(e, s) ==
  /\ cache' = e
  /\ todo' = <<>>
  /\ est' = [x \in Entries |-> IF x = e THEN s ELSE StateAfter(x, e)]

-----------------------------------------------------------------------------
(* What a lookup finds in the global cache *)

Seen(exp) == IF exp = "time" /\ est[Current] = "AVAIL" THEN "DIRTY" ELSE est[Current]

\* An expired entry is thrown away, or only marked dirty when entries are
\* pulled asynchronously.
Expired(exp, async) == exp = "qa" \/ (exp = "time" /\ ~async)

MustBuild(exp, async) == Current = None \/ Expired(exp, async)
Finds(exp, async, ss) == ~MustBuild(exp, async) /\ Seen(exp) \in ss

\* Seeded fault: an entry that is being updated is taken again.
TakesUpdateAgain(exp, async) == Finds(exp, async, {"DIRTY", "UPDATING"})

\* The exchange of DIRTY for UPDATING is for one lookup only.
TakesUpdate(exp, async) == Finds(exp, async, {"DIRTY"})

-----------------------------------------------------------------------------
(* Calling back: notify_caller() *)

Busy(k) == \E c \in Conts : cont[c].pc = "chain" /\ cont[c].who = k

\* The caller is called back unless it cancelled or was served the old entry.
Told(c) == cont[c].notify /\ ~cont[c].cancelled

\* An available entry goes to the thread's map.
Mapped(c, e, s) == e # None /\ s = "AVAIL"

Notify(c, e, s) ==
  /\ ask' = IF Told(c) THEN [ask EXCEPT ![cont[c].who] = "holding"] ELSE ask
  /\ got' = IF Told(c) THEN [got EXCEPT ![cont[c].who] = e] ELSE got
  /\ tc' = IF Mapped(c, e, s) THEN [tc EXCEPT ![cont[c].who] = e] ELSE tc

\* inc_ref and dec_ref of the call back, kill_this() included; the reference
\* of newest_table_entry_ is handed to the caller or given back.
NotifyInc(c, e, s) == IF Mapped(c, e, s) THEN <<e>> ELSE <<>>
\* Seeded faults: the caller's reference is given back too; none is ever given back.
NotifyDecTwice(c, e, s) ==
  <<cont[c].ent, e>> \o (IF Mapped(c, e, s) THEN <<tc[cont[c].who]>> ELSE <<>>)
NotifyDecKeeps(c, e, s) ==
  <<cont[c].ent>> \o (IF Mapped(c, e, s) THEN <<tc[cont[c].who]>> ELSE <<>>)

\* The old entry of the thread's map and what the continuation itself holds.
NotifyDec(c, e, s) ==
  <<cont[c].ent>> \o (IF Mapped(c, e, s) THEN <<tc[cont[c].who]>> ELSE <<>>)
                  \o (IF Told(c) THEN <<>> ELSE <<e>>)

-----------------------------------------------------------------------------
(* Starting a fetch: lookup_entry_remote() *)

\* do_lookup_binlog_entry_remote() takes the next usable target out of n.
Target(n) == {[pc |-> p, stage |-> "binlog", left |-> m] :
                p \in {"remote", "hostname"}, m \in 0 .. n - 1}

\* A request that cannot be sent is answered by a scheduled event without data.
Fetch == {[pc |-> "remote", stage |-> "table", left |-> 0]}
         \cup (IF kind = "binlog" THEN Target(NTargets) ELSE {})

Aim(r, f) == [r EXCEPT !.pc = f.pc, !.stage = f.stage, !.left = f.left]

\* A fetch for the entry e of the cache.
Sent(r, op, e) == [r EXCEPT !.pc = "remote", !.op = op, !.ent = e]

-----------------------------------------------------------------------------
(* get_table_entry() by a caller *)

Idle(k) == ask[k] = "idle" /\ ~Busy(k)

\* The binlog service is always looked up with force_renew_.
Looks(k) == Idle(k) /\ kind # "binlog"

GetFromThreadCache(k) ==
  /\ Looks(k)
  /\ tc[k] # None
  /\ est[tc[k]] \in {"AVAIL", "UPDATING"}
  /\ ask' = [ask EXCEPT ![k] = "holding"]
  /\ got' = [got EXCEPT ![k] = tc[k]]
  /\ refs' = Counted(<<tc[k]>>, <<>>)
  /\ UNCHANGED <<kind, cont, est, pendq, lost, cache, todo, tc>>

\* force_renew_: fetch whatever the caches hold.
GetDirect(k, c, f) ==
  /\ Idle(k) /\ cont[c].pc = "free"
  /\ ask' = [ask EXCEPT ![k] = "waiting"]
  /\ cont' = [cont EXCEPT ![c] = Aim([NewCont(k) EXCEPT !.op = "direct"], f)]
  /\ UNCHANGED <<kind, got, est, pendq, refs, lost, cache, todo, tc>>

\* The bucket is locked: look again in a while.
GetContended(k, c) ==
  /\ Looks(k) /\ cont[c].pc = "free" /\ Spare
  /\ ask' = [ask EXCEPT ![k] = "waiting"]
  /\ cont' = [cont EXCEPT ![c] = [NewCont(k) EXCEPT !.pc = "cache"]]
  /\ UNCHANGED <<kind, got, est, pendq, refs, lost, cache, todo, tc>>

GetHit(k, exp, async) ==
  LET e == Current
      s == Seen(exp)
      set == s \in {"AVAIL", "UPDATING"}
  IN /\ Looks(k)
     /\ Finds(exp, async, {"AVAIL", "UPDATING", "DIRTY"})
     /\ Locked(e, s)
     /\ ask' = [ask EXCEPT ![k] = "holding"]
     /\ got' = [got EXCEPT ![k] = e]
     /\ tc' = IF set THEN [tc EXCEPT ![k] = e] ELSE tc
     /\ refs' = LockedCount(e, <<e>> \o (IF set THEN <<e>> ELSE <<>>),
                               IF set THEN <<tc[k]>> ELSE <<>>)
     /\ UNCHANGED <<kind, cont, pendq, lost>>

GetBuild(k, c, exp, async) ==
  LET b == NewEntry
  IN /\ Looks(k) /\ cont[c].pc = "free" /\ Spare
     /\ MustBuild(exp, async)
     /\ Locked(b, "BUILDING")
     /\ ask' = [ask EXCEPT ![k] = "waiting"]
     /\ cont' = [cont EXCEPT ![c] = Sent(NewCont(k), "build", b)]
     /\ refs' = LockedCount(b, <<b, b>>, <<>>)
     /\ UNCHANGED <<kind, got, pendq, lost, tc>>

\* A dirty entry is taken for updating; pulled asynchronously, the caller goes
\* on with the old entry and the continuation calls nobody back.
GetUpdate(k, c, exp, async) ==
  LET e == Current
      old == async /\ kind # "dummy"
  IN /\ Looks(k) /\ cont[c].pc = "free"
     /\ TakesUpdate(exp, async)
     /\ Locked(e, "UPDATING")
     /\ ask' = [ask EXCEPT ![k] = IF old THEN "holding" ELSE "waiting"]
     /\ got' = IF old THEN [got EXCEPT ![k] = e] ELSE got
     /\ cont' = [cont EXCEPT
          ![c] = Sent([NewCont(k) EXCEPT !.notify = ~old], "update", e)]
     /\ refs' = LockedCount(e, IF old THEN <<e, e>> ELSE <<e>>, <<>>)
     /\ UNCHANGED <<kind, pendq, lost, tc>>

GetWait(k, c, exp, async) ==
  LET e == Current
  IN /\ Looks(k) /\ cont[c].pc = "free"
     /\ Finds(exp, async, {"BUILDING"})
     /\ Locked(e, "BUILDING")
     /\ pendq' = [pendq EXCEPT ![e] = Append(@, c)]
     /\ ask' = [ask EXCEPT ![k] = "waiting"]
     /\ cont' = [cont EXCEPT ![c] = [NewCont(k) EXCEPT !.pc = "queued", !.ent = e]]
     /\ refs' = LockedCount(e, <<e>>, <<>>)
     /\ UNCHANGED <<kind, got, lost, tc>>

-----------------------------------------------------------------------------
(* lookup_entry_in_cache(): the second look of a continuation *)

Again(c) == cont[c].pc = "cache" /\ ~Busy(cont[c].who)

\* The old entry kept for an asynchronous pull is dropped with the parameter
\* of the continuation: its reference is never given back.
AgainHit(c, exp, async, due) ==
  LET e == Current
      s == Seen(exp)
      drop == due /\ s = "DIRTY" /\ async /\ kind # "dummy"
  IN /\ Again(c)
     /\ Finds(exp, async, {"AVAIL", "UPDATING", "DIRTY"})
     /\ Locked(e, s)
     /\ drop => Len(lost) < MaxLost
     /\ Notify(c, e, s)
     /\ cont' = [cont EXCEPT ![c] = FreeCont]
     /\ lost' = IF drop THEN Append(lost, e) ELSE lost
     /\ refs' = LockedCount(e, <<e>> \o (IF drop THEN <<e>> ELSE <<>>) \o NotifyInc(c, e, s),
                               NotifyDec(c, e, s))
     /\ UNCHANGED <<kind, pendq>>

AgainBuild(c, exp, async) ==
  LET b == NewEntry
  IN /\ Again(c)
     /\ MustBuild(exp, async)
     /\ Locked(b, "BUILDING")
     /\ cont' = [cont EXCEPT ![c] = Sent(@, "build", b)]
     /\ refs' = LockedCount(b, <<b, b>>, <<>>)
     /\ UNCHANGED <<kind, ask, got, pendq, lost, tc>>

AgainUpdate(c, exp, async) ==
  LET e == Current
      drop == async /\ kind # "dummy"
  IN /\ Again(c)
     /\ TakesUpdate(exp, async)
     /\ Locked(e, "UPDATING")
     /\ drop => Len(lost) < MaxLost
     /\ cont' = [cont EXCEPT ![c] = Sent(@, "update", e)]
     /\ lost' = IF drop THEN Append(lost, e) ELSE lost
     /\ refs' = LockedCount(e, IF drop THEN <<e, e>> ELSE <<e>>, <<>>)
     /\ UNCHANGED <<kind, ask, got, pendq, tc>>

AgainWait(c, exp, async) ==
  LET e == Current
  IN /\ Again(c)
     /\ Finds(exp, async, {"BUILDING"})
     /\ Locked(e, "BUILDING")
     /\ pendq' = [pendq EXCEPT ![e] = Append(@, c)]
     /\ cont' = [cont EXCEPT ![c] = [@ EXCEPT !.pc = "queued", !.ent = e]]
     /\ refs' = LockedCount(e, <<e>>, <<>>)
     /\ UNCHANGED <<kind, ask, got, lost, tc>>

-----------------------------------------------------------------------------
(* Answers of the cluster: handle_client_resp(), handle_lookup_remote() *)

Remote(c) == cont[c].pc = "remote" /\ ~Busy(cont[c].who)

\* set_next_state(): a partitioned table needs one to three more answers; the
\* ones after the first differ in nothing that is modelled.
FetchMore(c) ==
  LET new == cont[c].stage = "table"
      e == IF new THEN NewEntry ELSE cont[c].newest
  IN /\ Remote(c)
     /\ kind = "table" /\ cont[c].stage \in {"table", "part"}
     /\ new => Spare
     /\ cont' = [cont EXCEPT ![c].stage = IF new THEN "part" ELSE "detail", ![c].newest = e]
     /\ est' = IF new THEN [est EXCEPT ![e] = "BORN"] ELSE est
     /\ refs' = Counted(IF new THEN <<e>> ELSE <<>>, <<>>)
     /\ UNCHANGED <<kind, ask, got, pendq, lost, cache, todo, tc>>

\* What a fetch may end with: nothing (an error, no row, no memory) or an entry
\* and its state.  An error packet that answers the question for the partition
\* information leaves an entry that was never made available.
Results(c) ==
  LET st == cont[c].stage
      alloc == Spare /\ (st = "binlog" \/ (st = "table" /\ kind # "binlog"))
  IN {[e |-> None, s |-> "DELETED"]}
     \cup (IF alloc THEN {[e |-> NewEntry, s |-> "AVAIL"]} ELSE {})
     \cup (IF st \in {"part", "detail"}
           THEN {[e |-> cont[c].newest, s |-> "AVAIL"]} ELSE {})
     \cup (IF st = "part" THEN {[e |-> cont[c].newest, s |-> "BORN"]} ELSE {})

\* Seeded fault: the state of the entry is not checked.
AddsUnchecked(r) == r.e # None

\* Only a valid entry is added to the global cache.
Adds(r) == r.e # None /\ r.s = "AVAIL"

\* inc_ref and dec_ref of an answer: a new entry is born with one reference, a
\* discarded one gives its own back.
AnswerInc(c, r) == IF r.e # None /\ cont[c].newest = None THEN <<r.e>> ELSE <<>>
AnswerDec(c, r) == IF r.e = None THEN <<cont[c].newest>> ELSE <<>>

\* Seeded faults: a failed update is forgotten, or undone whatever the state is.
BackNever(c, add) == {}
BackBlindly(c, add) == IF cont[c].op # "update" \/ add THEN {} ELSE {cont[c].ent}

\* An entry that could not be updated goes from UPDATING back to DIRTY.
Back(c, add) ==
  IF cont[c].op # "update" \/ add \/ est[cont[c].ent] # "UPDATING"
  THEN {} ELSE {cont[c].ent}

\* LOOKUP_REMOTE_DIRECT_OP and LOOKUP_REMOTE_FOR_UPDATE_OP: add the entry, under
\* the lock or through the todo list, and call back.
FetchedSingle(c, r, queue) ==
  LET add == Adds(r)
      inc == AnswerInc(c, r) \o NotifyInc(c, r.e, r.s)
      dec == AnswerDec(c, r) \o NotifyDec(c, r.e, r.s)
  IN /\ Remote(c)
     /\ cont[c].op \in {"direct", "update"}
     /\ queue => add /\ Len(todo) < MaxTodo
     /\ cache' = IF add /\ ~queue THEN r.e ELSE cache
     /\ todo' = IF ~add THEN todo ELSE IF queue THEN Append(todo, r.e) ELSE <<>>
     /\ est' = [x \in Entries |-> IF x = r.e THEN r.s
                                  ELSE IF x \in Back(c, add) THEN "DIRTY"
                                  ELSE IF add /\ ~queue THEN StateAfter(x, r.e) ELSE est[x]]
     /\ Notify(c, r.e, r.s)
     /\ cont' = [cont EXCEPT ![c] = FreeCont]
     /\ refs' = IF ~add THEN Counted(inc, dec)
                ELSE IF queue THEN Counted(inc \o <<r.e, r.e>>, dec)
                ELSE LockedCount(r.e, inc \o <<r.e>>, dec)
     /\ UNCHANGED <<kind, pendq, lost>>

\* replace_building_state_entry() under the lock: the new entry takes the place
\* of the building one, or the key is removed.  Popping the queue follows.
Replace(c, e, s, inc, dec) ==
  /\ IF Adds([e |-> e, s |-> s])
     THEN Locked(e, s) /\ refs' = LockedCount(e, inc \o <<e>>, dec)
     ELSE /\ cache' = None /\ todo' = <<>>
          /\ est' = [x \in Entries |-> IF x = e THEN s ELSE StateAfter(x, None)]
          /\ refs' = LockedCount(None, inc, dec)
  /\ cont' = [cont EXCEPT ![c].pc = "chain", ![c].newest = e]

FetchedBuilding(c, r) ==
  /\ Remote(c)
  /\ cont[c].op = "build"
  /\ Replace(c, r.e, r.s, AnswerInc(c, r), AnswerDec(c, r))
  /\ UNCHANGED <<kind, ask, got, pendq, lost, tc>>

FetchedContended(c, r) ==
  /\ Remote(c)
  /\ cont[c].op = "build"
  /\ cont' = [cont EXCEPT ![c].pc = "replace", ![c].newest = r.e]
  /\ est' = [x \in Entries |-> IF x = r.e THEN r.s ELSE est[x]]
  /\ refs' = Counted(AnswerInc(c, r), AnswerDec(c, r))
  /\ UNCHANGED <<kind, ask, got, pendq, lost, cache, todo, tc>>

ReplaceAgain(c) ==
  /\ cont[c].pc = "replace" /\ ~Busy(cont[c].who)
  /\ Replace(c, cont[c].newest,
             IF cont[c].newest = None THEN "DELETED" ELSE est[cont[c].newest], <<>>, <<>>)
  /\ UNCHANGED <<kind, ask, got, pendq, lost, tc>>

-----------------------------------------------------------------------------
(* handle_chain_notify_caller(): outside the lock, one waiter after another *)

Popped(c) == Head(pendq[cont[c].ent])

\* A waiter of another thread is scheduled there.
ChainSchedule(c) ==
  LET q == Popped(c)
  IN /\ cont[c].pc = "chain" /\ pendq[cont[c].ent] # <<>>
     /\ pendq' = [pendq EXCEPT ![cont[c].ent] = Tail(@)]
     /\ cont' = [cont EXCEPT ![q].pc = "notify", ![q].newest = cont[c].newest]
     /\ refs' = Counted(<<cont[c].newest>>, <<>>)
     /\ UNCHANGED <<kind, ask, got, est, lost, cache, todo, tc>>

\* A waiter of the same thread is called directly.
ChainDirect(c) ==
  LET q == Popped(c)
      e == cont[c].newest
      s == IF e = None THEN "DELETED" ELSE est[e]
  IN /\ cont[c].pc = "chain" /\ pendq[cont[c].ent] # <<>>
     /\ cont[q].who = cont[c].who
     /\ pendq' = [pendq EXCEPT ![cont[c].ent] = Tail(@)]
     /\ Notify(q, e, s)
     /\ cont' = [cont EXCEPT ![q] = FreeCont]
     /\ refs' = Counted(<<e>> \o NotifyInc(q, e, s), NotifyDec(q, e, s))
     /\ UNCHANGED <<kind, est, lost, cache, todo>>

\* The queue is empty, or the event scheduled for a waiter runs: call back.
CallBack(c) ==
  LET e == cont[c].newest
      s == IF e = None THEN "DELETED" ELSE est[e]
  IN /\ Notify(c, e, s)
     /\ cont' = [cont EXCEPT ![c] = FreeCont]
     /\ refs' = Counted(NotifyInc(c, e, s), NotifyDec(c, e, s))
     /\ UNCHANGED <<kind, est, pendq, lost, cache, todo>>

\* Seeded fault: waiters left in the queue are forgotten.
ChainEndEarly(c) == cont[c].pc = "chain" /\ CallBack(c)

ChainEnd(c) ==
  /\ cont[c].pc = "chain" /\ pendq[cont[c].ent] = <<>>
  /\ CallBack(c)

NotifyEvent(c) ==
  /\ cont[c].pc = "notify" /\ ~Busy(cont[c].who)
  /\ CallBack(c)

-----------------------------------------------------------------------------
(* The binlog service: its targets are asked one after another *)

Retarget(c) ==
  /\ \/ \E f \in Target(cont[c].left) : cont' = [cont EXCEPT ![c] = Aim(@, f)]
     \/ cont' = [cont EXCEPT ![c].pc = "lost"]
  /\ UNCHANGED <<kind, ask, got, est, pendq, refs, lost, cache, todo, tc>>

\* LOOKUP_RETRY_STATE: no entry in the answer; nobody is told when no target is left.
BinlogRetry(c) == Remote(c) /\ cont[c].stage = "binlog" /\ Retarget(c)

HostnameDone(c) ==
  /\ cont[c].pc = "hostname" /\ ~Busy(cont[c].who)
  /\ \/ /\ cont' = [cont EXCEPT ![c].pc = "remote"]
        /\ UNCHANGED <<kind, ask, got, est, pendq, refs, lost, cache, todo, tc>>
     \/ Retarget(c)

-----------------------------------------------------------------------------
(* The callers and the cache cleaner *)

\* Seeded fault: the continuation is not told.
CancelSilently(k) ==
  /\ ask[k] = "waiting" /\ ~Busy(k)
  /\ ask' = [ask EXCEPT ![k] = "idle"]
  /\ UNCHANGED <<kind, got, cont, est, pendq, refs, lost, cache, todo, tc>>

Cancel(k) ==
  /\ ask[k] = "waiting" /\ ~Busy(k)
  /\ ask' = [ask EXCEPT ![k] = "idle"]
  /\ cont' = [c \in Conts |-> IF cont[c].who = k /\ Told(c)
                              THEN [cont[c] EXCEPT !.cancelled = TRUE] ELSE cont[c]]
  /\ UNCHANGED <<kind, got, est, pendq, refs, lost, cache, todo, tc>>

Release(k) ==
  /\ ask[k] = "holding" /\ ~Busy(k)
  /\ ask' = [ask EXCEPT ![k] = "idle"]
  /\ got' = [got EXCEPT ![k] = None]
  /\ refs' = Counted(<<>>, <<got[k]>>)
  /\ UNCHANGED <<kind, cont, est, pendq, lost, cache, todo, tc>>

\* cas_set_dirty_state() of an entry that turned out to be wrong.
MarkDirty(k) ==
  /\ got[k] # None /\ ~Busy(k)
  /\ est[got[k]] = "AVAIL"
  /\ est' = [est EXCEPT ![got[k]] = "DIRTY"]
  /\ UNCHANGED <<kind, ask, got, cont, pendq, refs, lost, cache, todo, tc>>

\* Seeded fault: the entry is not marked deleted.
GcExpiredSilently ==
  /\ cache # None
  /\ cache' = None
  /\ refs' = Counted(<<>>, <<cache>>)
  /\ UNCHANGED <<kind, ask, got, cont, est, pendq, lost, todo, tc>>

\* do_expire_table_entry(): gc() under the lock does not run the todo list.
GcExpired ==
  /\ cache # None
  /\ cache' = None
  /\ est' = [est EXCEPT ![cache] = "DELETED"]
  /\ refs' = Counted(<<>>, <<cache>>)
  /\ UNCHANGED <<kind, ask, got, cont, pendq, lost, todo, tc>>

\* clean_one_part_table_cache(): dummy and building entries are spared.
Wash ==
  /\ kind # "dummy"
  /\ Current # None /\ est[Current] # "BUILDING"
  /\ cache' = None /\ todo' = <<>>
  /\ est' = [x \in Entries |-> StateAfter(x, None)]
  /\ refs' = LockedCount(None, <<>>, <<>>)
  /\ UNCHANGED <<kind, ask, got, cont, pendq, lost, tc>>

\* clean_hash_map() of a thread's map.
CleanThreadCache(k) ==
  /\ tc[k] # None /\ ~Busy(k)
  /\ est[tc[k]] = "DELETED"
  /\ tc' = [tc EXCEPT ![k] = None]
  /\ refs' = Counted(<<>>, <<tc[k]>>)
  /\ UNCHANGED <<kind, ask, got, cont, est, pendq, lost, cache, todo>>

-----------------------------------------------------------------------------
Init ==
  /\ kind \in Kinds
  /\ ask = [k \in Callers |-> "idle"]
  /\ got = [k \in Callers |-> None]
  /\ cont = [c \in Conts |-> FreeCont]
  /\ est = [e \in Entries |-> "DELETED"]
  /\ pendq = [e \in Entries |-> <<>>]
  /\ refs = [e \in Entries |-> 0]
  /\ lost = <<>>
  /\ cache = None
  /\ todo = <<>>
  /\ tc = [k \in Callers |-> None]

Get(k) ==
  \/ GetFromThreadCache(k)
  \/ \E exp \in Expiries, async \in AsyncModes : GetHit(k, exp, async)
  \/ \E c \in Conts :
       \/ GetContended(k, c)
       \/ \E f \in Fetch : GetDirect(k, c, f)
       \/ \E exp \in Expiries, async \in AsyncModes :
            \/ GetBuild(k, c, exp, async)
            \/ GetUpdate(k, c, exp, async)
            \/ GetWait(k, c, exp, async)

LookAgain(c) ==
  \E exp \in Expiries, async \in AsyncModes :
    \/ \E due \in BOOLEAN : AgainHit(c, exp, async, due)
    \/ AgainBuild(c, exp, async)
    \/ AgainUpdate(c, exp, async)
    \/ AgainWait(c, exp, async)

Fetched(c) ==
  \/ FetchMore(c)
  \/ /\ Remote(c)
     /\ \E r \in Results(c) :
       \/ \E queue \in BOOLEAN : FetchedSingle(c, r, queue)
       \/ FetchedBuilding(c, r)
       \/ FetchedContended(c, r)
  \/ BinlogRetry(c)

Chain(c) == ChainSchedule(c) \/ ChainDirect(c) \/ ChainEnd(c)

Clean == GcExpired \/ Wash \/ \E k \in Callers : CleanThreadCache(k)

User(k) == Cancel(k) \/ Release(k) \/ MarkDirty(k)

Run(c) == LookAgain(c) \/ Fetched(c) \/ ReplaceAgain(c) \/ Chain(c)
          \/ NotifyEvent(c) \/ HostnameDone(c)

Next ==
  \/ \E k \in Callers : Get(k) \/ User(k)
  \/ \E c \in Conts : Run(c)
  \/ Clean

\* Events, answers and call backs reach the continuation although its thread is
\* busy again and again; a bucket tried every millisecond is sooner or later
\* found unlocked.
Fairness == \A c \in Conts : SF_vars(Run(c))

Spec == Init /\ [][Next]_vars
FairSpec == Spec /\ Fairness

-----------------------------------------------------------------------------
(* Properties *)

TypeOK ==
  /\ kind \in Kinds
  /\ ask \in [Callers -> {"idle", "waiting", "holding"}]
  /\ got \in [Callers -> Entries \cup {None}]
  /\ cont \in [Conts -> Cont]
  /\ est \in [Entries -> States]
  /\ pendq \in [Entries -> Seq(Conts)]
  /\ refs \in [Entries -> Nat]
  /\ lost \in Seq(Entries) /\ Len(lost) <= MaxLost
  /\ cache \in Entries \cup {None}
  /\ todo \in Seq(Entries)
  /\ tc \in [Callers -> Entries \cup {None}]

\* What the global cache holds, or will hold when the todo list is run.
Reachable == ({cache} \cup Range(todo)) \ {None}

\* An entry a lookup finds in the global cache was neither deleted nor left
\* without a state ("deleting table entry must not be in global cache"); one in
\* the todo list is never still being built.
CacheHoldsLive ==
  /\ \A e \in Reachable : est[e] \in {"BUILDING", "AVAIL", "DIRTY", "UPDATING"}
  /\ \A i \in DOMAIN todo : est[todo[i]] # "BUILDING"

\* A thread serves an entry from its own map without asking the global cache
\* only while the global cache holds that entry too or is about to: displacing
\* or removing an entry makes every thread's copy useless at once.
ThreadCacheCurrent ==
  \A k \in Callers : tc[k] # None /\ est[tc[k]] \in {"AVAIL", "UPDATING"}
                        => tc[k] \in Reachable

\* Continuations that will replace or remove the building entry e.
Builders(e) == {c \in Conts : cont[c].op = "build" /\ cont[c].ent = e
                                /\ cont[c].pc \in {"remote", "replace"}}
Poppers(e) == {c \in Conts : cont[c].op = "build" /\ cont[c].ent = e
                               /\ cont[c].pc = "chain"}

\* Whoever joins the queue of a building entry is called back by the one
\* continuation that fetches it, whatever happens to the entry in the cache
\* meanwhile; an entry still being built in the cache has its builder.
WaitersOwned ==
  /\ \A c \in Conts : cont[c].pc = "queued" =>
       /\ Cardinality(Builders(cont[c].ent) \cup Poppers(cont[c].ent)) = 1
       /\ \E i \in DOMAIN pendq[cont[c].ent] : pendq[cont[c].ent][i] = c
  /\ cache # None /\ est[cache] = "BUILDING" => Builders(cache) # {}

\* An entry of the cache that is being updated has a continuation that will
\* replace it or set it back to dirty, "or it will never be updated again".
UpdatingOwned ==
  cache # None /\ est[cache] = "UPDATING" =>
    \/ \E c \in Conts : cont[c].op = "update" /\ cont[c].ent = cache
    \/ todo # <<>>

\* An entry is updated by one continuation at a time: the exchange of DIRTY for
\* UPDATING lets no second lookup fetch it too.
OneUpdate == \A c, d \in Conts :
  cont[c].op = "update" /\ cont[d].op = "update" /\ cont[c].ent = cont[d].ent => c = d

\* An entry that left the cache never comes back to life while somebody still
\* holds it ("used to update tc_table_map": a thread's map gives up its copy
\* only when it finds it deleted).
DeletedIsFinal ==
  [][\A e \in Entries : est[e] = "DELETED" /\ refs[e] > 0 => est'[e] = "DELETED"]_vars

\* Every reference counted is held by someone, and nobody holds an entry that
\* could be freed; the ones that are never given back are counted apart.
Holders(e) ==
  (IF cache = e THEN 1 ELSE 0)
  + 2 * Count(e, todo)
  + Cardinality({k \in Callers : tc[k] = e})
  + Cardinality({k \in Callers : got[k] = e})
  + Cardinality({c \in Conts : cont[c].ent = e})
  + Cardinality({c \in Conts : cont[c].newest = e})
RefsExact == \A e \in Entries : refs[e] = Holders(e) + Count(e, lost)

\* A waiting caller has exactly one continuation that will call it back, and a
\* caller that is not waiting has none.
OneReply ==
  \A k \in Callers :
    Cardinality({c \in Active : cont[c].who = k /\ Told(c)})
      = IF ask[k] = "waiting" THEN 1 ELSE 0

\* Whoever waits is answered, unless its continuation ran out of binlog targets.
Unanswerable(k) == \E c \in Conts : cont[c].who = k /\ cont[c].pc = "lost"
Answered == \A k \in Callers : (ask[k] = "waiting") ~> (ask[k] # "waiting" \/ Unanswerable(k))

\* "if failed, treat as lookup done and  will inform out"
FailureInforms == \A k \in Callers : (ask[k] = "waiting") ~> (ask[k] # "waiting")

=============================================================================
