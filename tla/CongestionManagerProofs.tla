------------------------ MODULE CongestionManagerProofs ------------------------
(***************************************************************************)
(* Proofs about the table of congestion entries, for any number of         *)
(* threads, servers, entries and versions: the reference counts of         *)
(* entries, configurations and zone states are exact, and no thread cache  *)
(* hides a removal.  First the invariant and what its proof rests on:      *)
(* counting the tasks that wait and those under way, what each operation   *)
(* does to the counts in memory, and who owns an entry.  Then one lemma    *)
(* for each task and each call says that it keeps the invariant.  The last *)
(* part is about the order of requests: what they leave in the table once  *)
(* they have been run.                                                     *)
(***************************************************************************)
EXTENDS CongestionManager, FiniteSetTheorems, SequenceTheorems, TLAPS

\* One if x is in X.
In(x, X) == IF x \in X THEN 1 ELSE 0

\* One or zero.
LEMMA InNat == \A x, X : In(x, X) \in Nat
BY DEF In

\* Sets without a common element add up.
LEMMA Disjoint ==
  ASSUME NEW S, NEW T, IsFiniteSet(S), IsFiniteSet(T), S \cap T = {}
  PROVE  /\ IsFiniteSet(S \cup T) /\ Cardinality(S \cup T) = Cardinality(S) + Cardinality(T)
         /\ Cardinality(S) \in Nat /\ Cardinality(T) \in Nat
<1>1. Cardinality(S) \in Nat /\ Cardinality(T) \in Nat
  BY FS_CardinalityType
<1>2. IsFiniteSet(S \cup T) /\ Cardinality(S \cup T) = Cardinality(S) + Cardinality(T) - Cardinality(S \cap T)
  BY FS_Union
<1>3. Cardinality(S \cap T) = 0
  BY FS_EmptySet
<1> QED
  BY <1>1, <1>2, <1>3

(***************************************************************************)
(* Tasks in a sequence                                                     *)
(***************************************************************************)

\* How many tasks of the sequence s are in X.
Num(s, X) == Cardinality(Places(s, X))

\* A sequence has a finite number of places.
LEMMA NumNat ==
  ASSUME NEW T, NEW s \in Seq(T), NEW X
  PROVE  /\ IsFiniteSet(Places(s, X))
         /\ Num(s, X) \in Nat
<1>1. IsFiniteSet(DOMAIN s)
  <2>1. DOMAIN s = 1..Len(s) /\ Len(s) \in Int
    BY LenProperties
  <2> QED
    BY <2>1, FS_Interval
<1>2. IsFiniteSet(Places(s, X))
  BY <1>1, FS_Subset DEF Places
<1> QED
  BY <1>2, FS_CardinalityType DEF Num

\* The empty sequence holds nothing.
LEMMA NumEmpty == \A X : Num(<<>>, X) = 0
<1> SUFFICES ASSUME NEW X PROVE Num(<<>>, X) = 0
  OBVIOUS
<1>1. Places(<<>>, X) = {}
  BY DEF Places
<1> QED
  BY <1>1, FS_EmptySet DEF Num

\* A sequence of one task.
LEMMA NumOne ==
  ASSUME NEW x, NEW X
  PROVE  Num(<<x>>, X) = In(x, X)
<1>1. DOMAIN <<x>> = {1} /\ <<x>>[1] = x
  OBVIOUS
<1>2. CASE x \in X
  <2>1. Places(<<x>>, X) = {1}
    BY <1>1, <1>2 DEF Places
  <2> QED
    BY <1>2, <2>1, FS_Singleton DEF Num, In
<1>3. CASE x \notin X
  <2>1. Places(<<x>>, X) = {}
    BY <1>1, <1>3 DEF Places
  <2> QED
    BY <1>3, <2>1, FS_EmptySet DEF Num, In
<1> QED
  BY <1>2, <1>3

\* Tasks add up when two sequences are joined.
LEMMA NumConcat ==
  ASSUME NEW T, NEW s \in Seq(T), NEW t \in Seq(T), NEW X
  PROVE  Num(s \o t, X) = Num(s, X) + Num(t, X)
<1> DEFINE n == Len(s)
           A == {i \in DOMAIN s : s[i] \in X}
           B == {i \in DOMAIN t : t[i] \in X}
           C == {i \in DOMAIN (s \o t) : (s \o t)[i] \in X}
           D == {i \in (n + 1)..(n + Len(t)) : t[i - n] \in X}
           f == [i \in B |-> i + n]
<1>1. n \in Nat /\ Len(t) \in Nat /\ DOMAIN s = 1..n /\ DOMAIN t = 1..Len(t)
  BY LenProperties
<1>2. /\ DOMAIN (s \o t) = 1..(n + Len(t))
      /\ \A i \in 1..(n + Len(t)) : (s \o t)[i] = IF i <= n THEN s[i] ELSE t[i - n]
  <2>1. s \o t \in Seq(T) /\ Len(s \o t) = n + Len(t)
    BY ConcatProperties
  <2>2. DOMAIN (s \o t) = 1..Len(s \o t)
    BY <2>1, LenProperties
  <2>3. \A i \in 1..(n + Len(t)) : (s \o t)[i] = IF i <= n THEN s[i] ELSE t[i - n]
    BY ConcatProperties
  <2> QED
    BY <2>1, <2>2, <2>3
<1>3. C = A \cup D
  <2>1. ASSUME NEW i \in C PROVE i \in A \cup D
    BY <1>1, <1>2
  <2>2. ASSUME NEW i \in A PROVE i \in C
    BY <1>1, <1>2
  <2>3. ASSUME NEW i \in D PROVE i \in C
    BY <1>1, <1>2
  <2> QED
    BY <2>1, <2>2, <2>3
<1>4. A \cap D = {}
  BY <1>1
<1>5. ExistsBijection(B, D)
  <2>1. f \in [B -> D]
    BY <1>1
  <2>2. \A a, b \in B : f[a] = f[b] => a = b
    BY <1>1
  <2>3. \A d \in D : \E b \in B : f[b] = d
    <3> SUFFICES ASSUME NEW d \in D PROVE \E b \in B : f[b] = d
      OBVIOUS
    <3>1. d - n \in B /\ (d - n) + n = d
      BY <1>1
    <3>2. f[d - n] = d
      BY <3>1
    <3> QED
      BY <3>1, <3>2
  <2> HIDE DEF f
  <2>4. f \in Injection(B, D)
    BY <2>1, <2>2 DEF Injection, IsInjective
  <2>5. f \in Surjection(B, D)
    BY <2>1, <2>3 DEF Surjection
  <2> QED
    BY <2>4, <2>5 DEF ExistsBijection, Bijection
<1>6. IsFiniteSet(A) /\ IsFiniteSet(B)
  BY NumNat DEF Places
<1>7. IsFiniteSet(D) /\ Cardinality(D) = Cardinality(B)
  BY <1>5, <1>6, FS_Bijection
<1>10. /\ Num(s \o t, X) = Cardinality(C)
       /\ Num(s, X) = Cardinality(A) /\ Num(t, X) = Cardinality(B)
  BY DEF Num, Places
<1> HIDE DEF A, B, C, D, n
<1>8. Cardinality(C) = Cardinality(A) + Cardinality(D) - 0
  BY <1>3, <1>4, <1>6, <1>7, FS_Union, FS_EmptySet
<1>9. Cardinality(A) \in Nat /\ Cardinality(B) \in Nat
  BY <1>6, FS_CardinalityType
<1> QED
  BY <1>7, <1>8, <1>9, <1>10

\* Appending adds one task.
LEMMA NumAppend ==
  ASSUME NEW T, NEW s \in Seq(T), NEW x \in T, NEW X
  PROVE  Num(Append(s, x), X) = Num(s, X) + In(x, X)
<1>1. Append(s, x) = s \o <<x>> /\ <<x>> \in Seq(T)
  BY AppendIsConcat
<1>2. Num(s \o <<x>>, X) = Num(s, X) + Num(<<x>>, X)
  BY <1>1, NumConcat
<1> QED
  BY <1>1, <1>2, NumOne

\* A sequence is its head and the rest.
LEMMA NumHead ==
  ASSUME NEW T, NEW s \in Seq(T), s # <<>>, NEW X
  PROVE  /\ Num(s, X) = In(Head(s), X) + Num(Tail(s), X)
         /\ Tail(s) \in Seq(T) /\ Head(s) \in T
<1>1. Head(s) \in T /\ Tail(s) \in Seq(T) /\ s = <<Head(s)>> \o Tail(s)
  BY HeadTailProperties
<1>2. <<Head(s)>> \in Seq(T)
  BY <1>1
<1>3. Num(<<Head(s)>> \o Tail(s), X) = Num(<<Head(s)>>, X) + Num(Tail(s), X)
  BY <1>1, <1>2, NumConcat
<1> QED
  BY <1>1, <1>3, NumOne

\* No place is no task.
LEMMA NumZero ==
  ASSUME NEW T, NEW s \in Seq(T), NEW X
  PROVE  Num(s, X) = 0 <=> \A i \in DOMAIN s : s[i] \notin X
<1>1. IsFiniteSet(Places(s, X))
  BY NumNat
<1>2. Num(s, X) = 0 <=> Places(s, X) = {}
  BY <1>1, FS_EmptySet DEF Num
<1> QED
  BY <1>2 DEF Places

(***************************************************************************)
(* Holders among threads or servers                                        *)
(***************************************************************************)

\* How many of S are taken to X by f.
Hits(f, S, X) == Cardinality({j \in S : f[j] \in X})

\* Their number is natural, and zero when there are none.
LEMMA HitsNat ==
  ASSUME NEW S, IsFiniteSet(S), NEW f, NEW X
  PROVE  /\ Hits(f, S, X) \in Nat
         /\ Hits(f, S, X) = 0 <=> \A j \in S : f[j] \notin X
<1>1. IsFiniteSet({j \in S : f[j] \in X})
  BY FS_Subset
<1> QED
  BY <1>1, FS_CardinalityType, FS_EmptySet DEF Hits

\* The functions f and g differ on S at k only.
OnlyAt(S, f, g, k) == \A j \in S : j # k => g[j] = f[j]

\* What changes when one of S is taken elsewhere.
LEMMA HitsExcept ==
  ASSUME NEW S, IsFiniteSet(S), NEW f, NEW g, NEW k \in S, NEW X, OnlyAt(S, f, g, k)
  PROVE  Hits(g, S, X) = Hits(f, S, X) + In(g[k], X) - In(f[k], X)
<1> DEFINE F == {j \in S : f[j] \in X}
           G == {j \in S : g[j] \in X}
           R == {j \in S : j # k /\ f[j] \in X}
<1>1. IsFiniteSet(R) /\ k \notin R
  BY FS_Subset
<1>2. Cardinality(R) \in Nat
  BY <1>1, FS_CardinalityType
<1>6. f[k] \in X => F = R \cup {k}
  OBVIOUS
<1>7. f[k] \notin X => F = R
  OBVIOUS
<1>8. g[k] \in X => G = R \cup {k}
  BY DEF OnlyAt
<1>9. g[k] \notin X => G = R
  BY DEF OnlyAt
<1>5. Hits(g, S, X) = Cardinality(G) /\ Hits(f, S, X) = Cardinality(F)
  BY DEF Hits
<1> HIDE DEF F, G, R
<1>3. Cardinality(F) = Cardinality(R) + In(f[k], X)
  BY <1>1, <1>2, <1>6, <1>7, FS_AddElement DEF In
<1>4. Cardinality(G) = Cardinality(R) + In(g[k], X)
  BY <1>1, <1>2, <1>8, <1>9, FS_AddElement DEF In
<1> QED
  BY <1>2, <1>3, <1>4, <1>5 DEF In

(***************************************************************************)
(* Tasks of all threads                                                    *)
(***************************************************************************)

\* The places of tasks in X in the agendas a.
All(a, X) == UNION {{t} \X Places(a[t], X) : t \in Threads}

\* They are finitely many.
LEMMA AllFinite ==
  ASSUME NEW T, NEW a \in [Threads -> Seq(T)], NEW X
  PROVE  IsFiniteSet(All(a, X)) /\ Cardinality(All(a, X)) \in Nat
<1> DEFINE P(t) == {t} \X Places(a[t], X)
<1>1. \A t \in Threads : IsFiniteSet(P(t))
  <2> SUFFICES ASSUME NEW t \in Threads PROVE IsFiniteSet(P(t))
    OBVIOUS
  <2>1. IsFiniteSet({t}) /\ IsFiniteSet(Places(a[t], X))
    BY NumNat, FS_Singleton
  <2> QED
    BY <2>1, FS_Product
<1> DEFINE Q == {P(t) : t \in Threads}
<1>2. IsFiniteSet(Q)
  <2> DEFINE f == [t \in Threads |-> P(t)]
  <2>1. f \in [Threads -> Q] /\ \A q \in Q : \E t \in Threads : f[t] = q
    OBVIOUS
  <2> HIDE DEF f, Q
  <2>2. f \in Surjection(Threads, Q)
    BY <2>1 DEF Surjection
  <2> QED
    BY <2>2, ManagerAssumption, FS_Surjection
<1>3. \A q \in Q : IsFiniteSet(q)
  BY <1>1
<1>4. All(a, X) = UNION Q
  BY DEF All
<1> HIDE DEF Q
<1>5. IsFiniteSet(UNION Q)
  BY <1>2, <1>3, FS_UNION
<1> QED
  BY <1>4, <1>5, FS_CardinalityType

\* The agendas a and b differ for t only.
Besides(a, b, t) == \A u \in Threads : u # t => b[u] = a[u]

\* What changes when the agenda of one thread does.
LEMMA AllExcept ==
  ASSUME NEW a \in [Threads -> Seq(Tasks)], NEW b \in [Threads -> Seq(Tasks)],
         NEW t \in Threads, Besides(a, b, t), NEW X
  PROVE  Cardinality(All(b, X)) = Cardinality(All(a, X)) + Num(b[t], X) - Num(a[t], X)
<1> DEFINE R == UNION {{u} \X Places(a[u], X) : u \in Threads \ {t}}
           A == {t} \X Places(a[t], X)
           B == {t} \X Places(b[t], X)
<1>1. All(a, X) = R \cup A /\ R \cap A = {}
  BY DEF All
<1>2. All(b, X) = R \cup B /\ R \cap B = {}
  BY DEF All, Besides
<1>3. IsFiniteSet(R) /\ Cardinality(R) \in Nat
  BY <1>1, AllFinite, FS_Subset, FS_CardinalityType
<1>4. /\ IsFiniteSet(A) /\ Cardinality(A) = Num(a[t], X) /\ Num(a[t], X) \in Nat
      /\ IsFiniteSet(B) /\ Cardinality(B) = Num(b[t], X) /\ Num(b[t], X) \in Nat
  <2>1. IsFiniteSet({t}) /\ Cardinality({t}) = 1
    BY FS_Singleton
  <2>2. /\ IsFiniteSet(Places(a[t], X)) /\ Num(a[t], X) \in Nat
        /\ IsFiniteSet(Places(b[t], X)) /\ Num(b[t], X) \in Nat
    BY NumNat
  <2>3. /\ IsFiniteSet(A) /\ Cardinality(A) = 1 * Num(a[t], X)
        /\ IsFiniteSet(B) /\ Cardinality(B) = 1 * Num(b[t], X)
    BY <2>1, <2>2, FS_Product DEF Num
  <2> QED
    BY <2>2, <2>3
<1> HIDE DEF R, A, B
<1>5. Cardinality(R \cup A) = Cardinality(R) + Cardinality(A)
  BY <1>1, <1>3, <1>4, Disjoint
<1>6. Cardinality(R \cup B) = Cardinality(R) + Cardinality(B)
  BY <1>2, <1>3, <1>4, Disjoint
<1> QED
  BY <1>1, <1>2, <1>3, <1>4, <1>5, <1>6

(***************************************************************************)
(* The invariant                                                           *)
(***************************************************************************)

\* Requests that wait in the todo list.
Requests ==
    {Revalidate(s, st) : s \in Servers, st \in States}
    \cup {Add(s, e) : s \in Servers, e \in EntryIds}
    \cup {Bucket(k, v) : k \in Kinds, v \in Versions}

Insertions(e) == {Insert(s, e) : s \in Servers}
Lookups       == {Lookup(s) : s \in Servers}
Versioned(k, v) == {Bucket(k, v), Put(k, v), EndUpdate(k, v)}
Waits(v)      == {Waiting(s, v) : s \in Servers}

\* An entry in use, and the heap.
Used == [live : {TRUE}, state : States \cup {"ACTIVE"}, setting : [Kinds -> Versions],
         ref : Int, deleted : BOOLEAN]
Heaps == [entry : [EntryIds -> {Unused} \cup Used], refs : [Kinds -> [Versions -> Int]]]

\* The types of the variables; that counts are not negative is a matter of
\* their being exact.
Types ==
  /\ bucket_mutex \in Threads \cup {NoThread} /\ rw_lock \in Threads \cup {NoThread}
  /\ todo \in Seq(Requests)
  /\ agenda \in [Threads -> Seq(Tasks)]
  /\ table \in [Servers -> EntryIds \cup {NoEntry}]
  /\ cache \in [Threads -> [Servers -> EntryIds \cup {NoEntry}]]
  /\ txn \in [Threads -> Txns]
  /\ heap \in Heaps
  /\ global \in [Kinds -> Versions]
  /\ is_congestion_enabled \in BOOLEAN /\ is_base_servers_added \in BOOLEAN
  /\ is_inited \in BOOLEAN
  /\ issued \in [Servers -> States \cup {"ACTIVE", "DELETED"}]
  /\ updates \in 0 .. MaxUpdates /\ cancels \in 0 .. MaxCancels

\* Whoever is about to mark an entry deleted drops it right afterwards.
Paired(s) == \A i \in DOMAIN s, e \in EntryIds :
  s[i] = Retire(e) => i + 1 \in DOMAIN s /\ s[i + 1] = Drop(e)
Drops == \A t \in Threads : Paired(agenda[t])

\* A thread that is about to look an entry up does it for one transaction,
\* which holds nothing.
Answers == \A t \in Threads :
  /\ Num(agenda[t], Lookups) <= 1
  /\ Num(agenda[t], Lookups) # 0 => txn[t] = NoTxn

\* A new entry is inserted once, and nobody owns it before.
NewOnes == \A e \in EntryIds :
  /\ Pending(Insertions(e)) <= 1
  /\ Pending(Insertions(e)) # 0 => heap.entry[e].live /\ heap.entry[e].ref = 0

\* The count of an entry is the number of its owners.
Exact == \A e \in EntryIds : heap.entry[e].ref = EntryOwners(e)

\* The inductive invariant.
ManagerInv == Types /\ Drops /\ Answers /\ NewOnes /\ Exact /\ SettingRefExact /\ CacheCoherent

(***************************************************************************)
(* Tasks                                                                   *)
(***************************************************************************)

\* Which kind of task has which name.
LEMMA TaskOp ==
  /\ Run.op = "run_todo_list" /\ Unlock.op = "unlock" /\ RemoveAll.op = "remove_all"
  /\ \A s, st : Revalidate(s, st).op = "revalidate_server"
                /\ Revalidate(s, st).server = s /\ Revalidate(s, st).state = st
  /\ \A s, e : Add(s, e).op = "add_record" /\ Add(s, e).server = s /\ Add(s, e).entry = e
  /\ \A s, e : Insert(s, e).op = "insert_entry" /\ Insert(s, e).server = s /\ Insert(s, e).entry = e
  /\ \A s : Lookup(s).op = "lookup_entry" /\ Lookup(s).server = s
  /\ \A e : Retire(e).op = "set_entry_deleted_state" /\ Retire(e).entry = e
  /\ \A e : Drop(e).op = "dec_ref" /\ Drop(e).entry = e
  /\ \A k, v : Bucket(k, v).op = "revalidate_bucket" /\ Bucket(k, v).kind = k /\ Bucket(k, v).version = v
  /\ \A k, v : Put(k, v).op = "put" /\ Put(k, v).kind = k /\ Put(k, v).version = v
  /\ \A k, v : EndUpdate(k, v).op = "end_update" /\ EndUpdate(k, v).kind = k /\ EndUpdate(k, v).version = v
BY DEF Run, Unlock, RemoveAll, Revalidate, Add, Insert, Lookup, Retire, Drop, Bucket, Put, EndUpdate

\* A task is one of those its name says.
LEMMA TaskIs ==
  ASSUME NEW x \in Tasks
  PROVE  /\ x.op = "run_todo_list" => x = Run
         /\ x.op = "unlock" => x = Unlock
         /\ x.op = "remove_all" => x = RemoveAll
         /\ x.op = "revalidate_server" => \E s \in Servers, st \in States : x = Revalidate(s, st)
         /\ x.op = "add_record" => \E s \in Servers, e \in EntryIds : x = Add(s, e)
         /\ x.op = "insert_entry" => \E s \in Servers, e \in EntryIds : x = Insert(s, e)
         /\ x.op = "lookup_entry" => \E s \in Servers : x = Lookup(s)
         /\ x.op = "set_entry_deleted_state" => \E e \in EntryIds : x = Retire(e)
         /\ x.op = "dec_ref" => \E e \in EntryIds : x = Drop(e)
         /\ x.op = "revalidate_bucket" => \E k \in Kinds, v \in Versions : x = Bucket(k, v)
         /\ x.op = "put" => \E k \in Kinds, v \in Versions : x = Put(k, v)
         /\ x.op = "end_update" => \E k \in Kinds, v \in Versions : x = EndUpdate(k, v)
<1>1. \/ x \in {Run, Unlock, RemoveAll}
      \/ \E s \in Servers, st \in States : x = Revalidate(s, st)
      \/ \E s \in Servers : x = Lookup(s)
      \/ \E s \in Servers, e \in EntryIds : x = Add(s, e)
      \/ \E s \in Servers, e \in EntryIds : x = Insert(s, e)
      \/ \E e \in EntryIds : x = Retire(e)
      \/ \E e \in EntryIds : x = Drop(e)
      \/ \E k \in Kinds, v \in Versions : x = Bucket(k, v)
      \/ \E k \in Kinds, v \in Versions : x = Put(k, v)
      \/ \E k \in Kinds, v \in Versions : x = EndUpdate(k, v)
  BY DEF Tasks
<1> QED
  BY <1>1, TaskOp

\* Every kind of task is a task.
LEMMA TaskOf ==
  /\ Run \in Tasks /\ Unlock \in Tasks /\ RemoveAll \in Tasks
  /\ \A s \in Servers, st \in States : Revalidate(s, st) \in Requests
  /\ \A s \in Servers, e \in EntryIds : Add(s, e) \in Requests
  /\ \A s \in Servers, e \in EntryIds : Insert(s, e) \in Tasks
  /\ \A s \in Servers : Lookup(s) \in Tasks
  /\ \A e \in EntryIds : Retire(e) \in Tasks /\ Drop(e) \in Tasks
  /\ \A k \in Kinds, v \in Versions : Bucket(k, v) \in Requests
  /\ \A k \in Kinds, v \in Versions : Put(k, v) \in Tasks /\ EndUpdate(k, v) \in Tasks
  /\ Requests \subseteq Tasks
<1>1. Run \in Tasks /\ Unlock \in Tasks /\ RemoveAll \in Tasks
  BY DEF Tasks
<1>2. \A s \in Servers, st \in States : Revalidate(s, st) \in Requests
  BY DEF Requests
<1>3. \A s \in Servers, e \in EntryIds : Add(s, e) \in Requests
  BY DEF Requests
<1>4. \A s \in Servers, e \in EntryIds : Insert(s, e) \in Tasks
  BY DEF Tasks
<1>5. \A s \in Servers : Lookup(s) \in Tasks
  BY DEF Tasks
<1>6. \A e \in EntryIds : Retire(e) \in Tasks /\ Drop(e) \in Tasks
  BY DEF Tasks
<1>7. \A k \in Kinds, v \in Versions : Bucket(k, v) \in Requests
  BY DEF Requests
<1>8. \A k \in Kinds, v \in Versions : Put(k, v) \in Tasks /\ EndUpdate(k, v) \in Tasks
  BY DEF Tasks
<1>9. Requests \subseteq Tasks
  BY DEF Tasks, Requests
<1> QED
  BY <1>1, <1>2, <1>3, <1>4, <1>5, <1>6, <1>7, <1>8, <1>9

\* One if the two are the same.
Is(x, y) == IF x = y THEN 1 ELSE 0

\* One or zero.
LEMMA IsNat == \A x, y : Is(x, y) \in Nat
BY DEF Is

\* What a task means to the entries: it owns d, inserts i, retires r.
Handles(x, d, i, r) == \A e \in EntryIds :
  /\ In(x, Owning(e)) = Is(d, e)
  /\ In(x, Insertions(e)) = Is(i, e)
  /\ In(x, {Retire(e)}) = Is(r, e)

\* It owns a reference to version p[2] of p[1].
Refers(x, p) == \A k \in Kinds, v \in Versions : In(x, Versioned(k, v)) = Is(p, <<k, v>>)
Nothing == <<"none", 0>>

\* What the tasks mean to the entries.
LEMMA HandlesWhat ==
  /\ Handles(Run, 0, 0, 0) /\ Handles(Unlock, 0, 0, 0) /\ Handles(RemoveAll, 0, 0, 0)
  /\ \A s, st : Handles(Revalidate(s, st), 0, 0, 0)
  /\ \A s \in Servers, e \in EntryIds : Handles(Add(s, e), e, 0, 0) /\ Handles(Insert(s, e), 0, e, 0)
  /\ \A s : Handles(Lookup(s), 0, 0, 0)
  /\ \A e \in EntryIds : Handles(Retire(e), 0, 0, e) /\ Handles(Drop(e), e, 0, 0)
  /\ \A k, v : Handles(Bucket(k, v), 0, 0, 0) /\ Handles(Put(k, v), 0, 0, 0) /\ Handles(EndUpdate(k, v), 0, 0, 0)
<1>1. ASSUME NEW x, x.op \notin {"dec_ref", "add_record", "insert_entry", "set_entry_deleted_state"}
      PROVE  Handles(x, 0, 0, 0)
  BY <1>1, TaskOp DEF Handles, In, Is, Owning, Insertions, EntryIds
<1>2. ASSUME NEW s \in Servers, NEW e \in EntryIds PROVE Handles(Add(s, e), e, 0, 0)
  BY TaskOp DEF Handles, In, Is, Owning, Insertions, EntryIds
<1>3. ASSUME NEW s \in Servers, NEW e \in EntryIds PROVE Handles(Insert(s, e), 0, e, 0)
  BY TaskOp DEF Handles, In, Is, Owning, Insertions, EntryIds
<1>4. ASSUME NEW e \in EntryIds PROVE Handles(Retire(e), 0, 0, e)
  BY TaskOp DEF Handles, In, Is, Owning, Insertions, EntryIds
<1>5. ASSUME NEW e \in EntryIds PROVE Handles(Drop(e), e, 0, 0)
  BY TaskOp DEF Handles, In, Is, Owning, Insertions, EntryIds
<1> QED
  BY <1>1, <1>2, <1>3, <1>4, <1>5, TaskOp

\* What they mean to the versions.
LEMMA RefersWhat ==
  /\ Refers(Run, Nothing) /\ Refers(Unlock, Nothing) /\ Refers(RemoveAll, Nothing)
  /\ \A s, st : Refers(Revalidate(s, st), Nothing)
  /\ \A s, e : Refers(Add(s, e), Nothing) /\ Refers(Insert(s, e), Nothing)
  /\ \A s : Refers(Lookup(s), Nothing)
  /\ \A e : Refers(Retire(e), Nothing) /\ Refers(Drop(e), Nothing)
  /\ \A k \in Kinds, v \in Versions :
       Refers(Bucket(k, v), <<k, v>>) /\ Refers(Put(k, v), <<k, v>>) /\ Refers(EndUpdate(k, v), <<k, v>>)
<1>1. ASSUME NEW x, x.op \notin {"revalidate_bucket", "put", "end_update"}
      PROVE  Refers(x, Nothing)
  <2>1. ASSUME NEW k \in Kinds, NEW v \in Versions
        PROVE  In(x, Versioned(k, v)) = 0 /\ Nothing # <<k, v>>
    BY <1>1, TaskOp DEF In, Versioned, Nothing, Kinds
  <2> QED
    BY <2>1 DEF Refers, Is
<1>2. ASSUME NEW k \in Kinds, NEW v \in Versions,
             NEW x \in {Bucket(k, v), Put(k, v), EndUpdate(k, v)}
      PROVE  Refers(x, <<k, v>>)
  <2>1. x.kind = k /\ x.version = v
    BY TaskOp
  <2>2. ASSUME NEW j \in Kinds, NEW w \in Versions, x \in Versioned(j, w)
        PROVE  j = k /\ w = v
    BY <2>1, <2>2, TaskOp DEF Versioned
  <2>3. x \in Versioned(k, v)
    BY DEF Versioned
  <2>4. ASSUME NEW j \in Kinds, NEW w \in Versions
        PROVE  In(x, Versioned(j, w)) = Is(<<k, v>>, <<j, w>>)
    BY <2>2, <2>3 DEF In, Is
  <2> QED
    BY <2>4 DEF Refers
<1> QED
  BY <1>1, <1>2, TaskOp

\* Only a lookup is one.
LEMMA LooksUp ==
  /\ \A s \in Servers : In(Lookup(s), Lookups) = 1
  /\ \A x : x.op # "lookup_entry" => In(x, Lookups) = 0
BY TaskOp DEF In, Lookups

(***************************************************************************)
(* Tasks under way                                                         *)
(***************************************************************************)

\* Sequences of requests are sequences of tasks.
LEMMA RequestsAreTasks ==
  ASSUME NEW s \in Seq(Requests)
  PROVE  s \in Seq(Tasks)
<1>1. Requests \subseteq Tasks
  BY TaskOf
<1> QED
  BY <1>1

\* The number of tasks under way, by where they are.
LEMMA PendingIs ==
  ASSUME Types, NEW X
  PROVE  /\ Pending(X) = Num(todo, X) + Cardinality(All(agenda, X))
         /\ Pending(X) \in Nat /\ Num(todo, X) \in Nat /\ Cardinality(All(agenda, X)) \in Nat
<1>1. Num(todo, X) \in Nat
  BY NumNat DEF Types
<1>2. Cardinality(All(agenda, X)) \in Nat
  BY AllFinite DEF Types
<1> QED
  BY <1>1, <1>2 DEF Pending, All, Num

\* The same after a step.
LEMMA PendingIsNext ==
  ASSUME Types', NEW X
  PROVE  /\ Pending(X)' = Num(todo', X) + Cardinality(All(agenda', X))
         /\ Pending(X)' \in Nat /\ Num(todo', X) \in Nat /\ Cardinality(All(agenda', X)) \in Nat
<1>1. todo' \in Seq(Requests) /\ agenda' \in [Threads -> Seq(Tasks)]
  BY DEF Types
<1>2. PICK q, a : q = todo' /\ a = agenda'
  OBVIOUS
<1>3. Num(q, X) \in Nat
  BY <1>1, <1>2, NumNat
<1>4. Cardinality(All(a, X)) \in Nat
  BY <1>1, <1>2, AllFinite
<1>5. Pending(X)' = Num(q, X) + Cardinality(All(a, X))
  BY <1>2 DEF Pending, All, Num
<1>6. Pending(X)' \in Nat
  BY <1>3, <1>4, <1>5
<1> QED
  BY <1>2, <1>3, <1>4, <1>5, <1>6

\* What changes when one thread's agenda and the todo list do.
LEMMA PendingStep ==
  ASSUME Types, Types', NEW t \in Threads, \A u \in Threads : u # t => agenda'[u] = agenda[u], NEW X
  PROVE  /\ Pending(X)' = Pending(X) + (Num(agenda'[t], X) - Num(agenda[t], X))
                                     + (Num(todo', X) - Num(todo, X))
         /\ Num(agenda'[t], X) \in Nat /\ Num(agenda[t], X) \in Nat
<1>1. agenda \in [Threads -> Seq(Tasks)] /\ agenda' \in [Threads -> Seq(Tasks)]
  BY DEF Types
<1>2. PICK a, b : a = agenda /\ b = agenda'
  OBVIOUS
<1>3. Cardinality(All(b, X)) = Cardinality(All(a, X)) + Num(b[t], X) - Num(a[t], X)
  <2>1. a \in [Threads -> Seq(Tasks)] /\ b \in [Threads -> Seq(Tasks)]
    BY <1>1, <1>2
  <2>2. Besides(a, b, t)
    BY <1>2 DEF Besides
  <2> QED
    BY <2>1, <2>2, AllExcept
<1>4. Num(a[t], X) \in Nat /\ Num(b[t], X) \in Nat
  BY <1>1, <1>2, NumNat
<1>5. /\ Pending(X) = Num(todo, X) + Cardinality(All(a, X))
      /\ Num(todo, X) \in Nat /\ Cardinality(All(a, X)) \in Nat
  BY <1>2, PendingIs
<1>6. /\ Pending(X)' = Num(todo', X) + Cardinality(All(b, X))
      /\ Num(todo', X) \in Nat /\ Cardinality(All(b, X)) \in Nat
  BY <1>2, PendingIsNext
<1>7. Pending(X)' = Pending(X) + (Num(b[t], X) - Num(a[t], X)) + (Num(todo', X) - Num(todo, X))
  BY <1>3, <1>4, <1>5, <1>6
<1> QED
  BY <1>2, <1>4, <1>7

\* The tasks of one thread are among those under way.
LEMMA PendingMember ==
  ASSUME Types, NEW t \in Threads, NEW i \in DOMAIN agenda[t], NEW X, agenda[t][i] \in X
  PROVE  Pending(X) > 0
<1>1. agenda \in [Threads -> Seq(Tasks)]
  BY DEF Types
<1>2. <<t, i>> \in All(agenda, X)
  BY DEF All, Places
<1>3. IsFiniteSet(All(agenda, X))
  BY <1>1, AllFinite
<1>4. Cardinality(All(agenda, X)) # 0
  BY <1>2, <1>3, FS_EmptySet
<1> QED
  BY <1>4, PendingIs

\* If there are none, no thread has one.
LEMMA PendingNone ==
  ASSUME Types, NEW X, \A i \in DOMAIN todo : todo[i] \notin X,
         \A t \in Threads : \A i \in DOMAIN agenda[t] : agenda[t][i] \notin X
  PROVE  Pending(X) = 0
<1>1. Num(todo, X) = 0
  BY NumZero DEF Types
<1>2. All(agenda, X) = {}
  BY DEF All, Places
<1>3. Cardinality(All(agenda, X)) = 0
  BY <1>2, FS_EmptySet
<1> QED
  BY <1>1, <1>3, PendingIs

\* A thread goes on: the task at the head of its agenda gives way to others.
LEMMA Continued ==
  ASSUME Types, Types', NEW t \in Threads, agenda[t] # <<>>, NEW tasks \in Seq(Tasks),
         Continue(t, tasks), todo' = todo, NEW X
  PROVE  Pending(X)' = Pending(X) + (Num(tasks, X) - In(Head(agenda[t]), X))
<1>1. agenda[t] \in Seq(Tasks) /\ agenda \in [Threads -> Seq(Tasks)]
  BY DEF Types
<1>2. agenda'[t] = tasks \o Tail(agenda[t]) /\ \A u \in Threads : u # t => agenda'[u] = agenda[u]
  BY <1>1 DEF Continue
<1>3. /\ Num(agenda[t], X) = In(Head(agenda[t]), X) + Num(Tail(agenda[t]), X)
      /\ Tail(agenda[t]) \in Seq(Tasks)
  BY <1>1, NumHead
<1>4. Num(tasks \o Tail(agenda[t]), X) = Num(tasks, X) + Num(Tail(agenda[t]), X)
  BY <1>3, NumConcat
<1>5. /\ Num(tasks, X) \in Nat /\ Num(Tail(agenda[t]), X) \in Nat /\ In(Head(agenda[t]), X) \in Nat
      /\ Num(todo, X) \in Nat /\ Pending(X) \in Nat
  BY <1>3, NumNat, InNat, PendingIs
<1>6. Pending(X)' = Pending(X) + (Num(agenda'[t], X) - Num(agenda[t], X)) + (Num(todo', X) - Num(todo, X))
  BY <1>2, PendingStep
<1>7. Num(todo', X) - Num(todo, X) = 0
  BY <1>5
<1>8. Num(agenda'[t], X) - Num(agenda[t], X) = Num(tasks, X) - In(Head(agenda[t]), X)
  BY <1>2, <1>3, <1>4, <1>5
<1> QED
  BY <1>5, <1>6, <1>7, <1>8

\* A thread that had nothing to do starts a call, and may leave a request.
LEMMA Begun ==
  ASSUME Types, Types', NEW t \in Threads, Idle(t), NEW tasks \in Seq(Tasks), Begin(t, tasks), NEW X
  PROVE  /\ Pending(X)' = Pending(X) + Num(tasks, X) + (Num(todo', X) - Num(todo, X))
         /\ Num(tasks, X) \in Nat /\ Num(todo, X) \in Nat
<1>1. agenda[t] = <<>> /\ agenda \in [Threads -> Seq(Tasks)]
  BY DEF Types, Idle
<1>2. agenda'[t] = tasks /\ \A u \in Threads : u # t => agenda'[u] = agenda[u]
  BY <1>1 DEF Begin
<1>3. Num(agenda[t], X) = 0
  BY <1>1, NumEmpty
<1>4. /\ Num(tasks, X) \in Nat /\ Num(todo, X) \in Nat /\ Num(todo', X) \in Nat /\ Pending(X) \in Nat
  BY NumNat, PendingIs, PendingIsNext
<1>5. Pending(X)' = Pending(X) + (Num(tasks, X) - Num(agenda[t], X)) + (Num(todo', X) - Num(todo, X))
  BY <1>2, PendingStep
<1> QED
  BY <1>3, <1>4, <1>5

(***************************************************************************)
(* Agendas                                                                 *)
(***************************************************************************)

\* Short agendas, task by task.
LEMMA NumTwo ==
  ASSUME NEW a \in Tasks, NEW b \in Tasks, NEW X
  PROVE  Num(<<a, b>>, X) = In(a, X) + In(b, X) /\ <<a, b>> \in Seq(Tasks)
<1>1. <<a>> \in Seq(Tasks) /\ <<a, b>> = Append(<<a>>, b) /\ <<a, b>> \in Seq(Tasks)
  OBVIOUS
<1>2. Num(Append(<<a>>, b), X) = Num(<<a>>, X) + In(b, X)
  BY <1>1, NumAppend
<1>3. Num(<<a>>, X) = In(a, X)
  BY NumOne
<1> QED
  BY <1>1, <1>2, <1>3

\* Three tasks.
LEMMA NumThree ==
  ASSUME NEW a \in Tasks, NEW b \in Tasks, NEW c \in Tasks, NEW X
  PROVE  Num(<<a, b, c>>, X) = In(a, X) + In(b, X) + In(c, X) /\ <<a, b, c>> \in Seq(Tasks)
<1>1. <<a, b>> \in Seq(Tasks) /\ <<a, b, c>> = Append(<<a, b>>, c) /\ <<a, b, c>> \in Seq(Tasks)
  OBVIOUS
<1>2. Num(Append(<<a, b>>, c), X) = Num(<<a, b>>, X) + In(c, X)
  BY <1>1, NumAppend
<1>3. Num(<<a, b>>, X) = In(a, X) + In(b, X)
  BY NumTwo
<1> QED
  BY <1>1, <1>2, <1>3

\* Four.
LEMMA NumFour ==
  ASSUME NEW a \in Tasks, NEW b \in Tasks, NEW c \in Tasks, NEW d \in Tasks, NEW X
  PROVE  Num(<<a, b, c, d>>, X) = In(a, X) + In(b, X) + In(c, X) + In(d, X) /\ <<a, b, c, d>> \in Seq(Tasks)
<1>1. <<a, b, c>> \in Seq(Tasks) /\ <<a, b, c, d>> = Append(<<a, b, c>>, d) /\ <<a, b, c, d>> \in Seq(Tasks)
  OBVIOUS
<1>2. Num(Append(<<a, b, c>>, d), X) = Num(<<a, b, c>>, X) + In(d, X)
  BY <1>1, NumAppend
<1>3. Num(<<a, b, c>>, X) = In(a, X) + In(b, X) + In(c, X)
  BY NumThree
<1> QED
  BY <1>1, <1>2, <1>3

\* Joining keeps what retires paired with what drops.
LEMMA PairedJoin ==
  ASSUME NEW a \in Seq(Tasks), NEW b \in Seq(Tasks), Paired(a), Paired(b)
  PROVE  Paired(a \o b)
<1> SUFFICES ASSUME NEW i \in DOMAIN (a \o b), NEW e \in EntryIds, (a \o b)[i] = Retire(e)
             PROVE  i + 1 \in DOMAIN (a \o b) /\ (a \o b)[i + 1] = Drop(e)
  BY DEF Paired
<1>1. /\ Len(a) \in Nat /\ Len(b) \in Nat /\ DOMAIN a = 1..Len(a) /\ DOMAIN b = 1..Len(b)
      /\ DOMAIN (a \o b) = 1..(Len(a) + Len(b))
      /\ \A j \in 1..(Len(a) + Len(b)) : (a \o b)[j] = IF j <= Len(a) THEN a[j] ELSE b[j - Len(a)]
  OBVIOUS
<1>2. CASE i <= Len(a)
  <2>1. i \in DOMAIN a /\ a[i] = Retire(e)
    BY <1>1, <1>2
  <2>2. i + 1 \in DOMAIN a /\ a[i + 1] = Drop(e)
    BY <2>1 DEF Paired
  <2> QED
    BY <1>1, <2>2
<1>3. CASE i > Len(a)
  <2>1. i - Len(a) \in DOMAIN b /\ b[i - Len(a)] = Retire(e)
    BY <1>1, <1>3
  <2>2. (i - Len(a)) + 1 \in DOMAIN b /\ b[(i - Len(a)) + 1] = Drop(e)
    BY <2>1 DEF Paired
  <2>3. i + 1 \in 1..(Len(a) + Len(b)) /\ ~(i + 1 <= Len(a)) /\ (i + 1) - Len(a) = (i - Len(a)) + 1
    BY <1>1, <1>3, <2>2
  <2> QED
    BY <1>1, <2>2, <2>3
<1> QED
  BY <1>1, <1>2, <1>3

\* So does taking the first task away.
LEMMA PairedTail ==
  ASSUME NEW a \in Seq(Tasks), a # <<>>, Paired(a)
  PROVE  Paired(Tail(a)) /\ Tail(a) \in Seq(Tasks)
<1>1. /\ Tail(a) \in Seq(Tasks) /\ Len(a) \in Nat \ {0} /\ DOMAIN a = 1..Len(a)
      /\ DOMAIN Tail(a) = 1..(Len(a) - 1) /\ \A i \in 1..(Len(a) - 1) : Tail(a)[i] = a[i + 1]
  OBVIOUS
<1>2. ASSUME NEW i \in DOMAIN Tail(a), NEW e \in EntryIds, Tail(a)[i] = Retire(e)
      PROVE  i + 1 \in DOMAIN Tail(a) /\ Tail(a)[i + 1] = Drop(e)
  <2>1. i + 1 \in DOMAIN a /\ a[i + 1] = Retire(e)
    BY <1>1, <1>2
  <2>2. (i + 1) + 1 \in DOMAIN a /\ a[(i + 1) + 1] = Drop(e)
    BY <2>1 DEF Paired
  <2> QED
    BY <1>1, <2>2
<1> QED
  BY <1>1, <1>2 DEF Paired

\* Agendas that retire nothing.
LEMMA PairedPlain ==
  ASSUME NEW a, \A i \in DOMAIN a : a[i].op # "set_entry_deleted_state"
  PROVE  Paired(a)
BY TaskOp DEF Paired

\* The todo list is one of them.
LEMMA PairedTodo == \A s \in Seq(Requests) : Paired(s)
<1> SUFFICES ASSUME NEW s \in Seq(Requests) PROVE Paired(s)
  OBVIOUS
<1>1. \A x \in Requests : x.op # "set_entry_deleted_state"
  BY TaskOp DEF Requests
<1>2. \A i \in DOMAIN s : s[i] \in Requests
  OBVIOUS
<1> QED
  BY <1>1, <1>2, PairedPlain

\* An entry is retired and dropped.
LEMMA PairedRetire == \A e \in EntryIds : Paired(<<Retire(e), Drop(e)>>)
BY TaskOp DEF Paired

\* A thread that goes on keeps the order.
LEMMA DropsContinue ==
  ASSUME Types, Drops, NEW t \in Threads, agenda[t] # <<>>, NEW tasks \in Seq(Tasks), Paired(tasks),
         Continue(t, tasks)
  PROVE  Drops' /\ agenda' \in [Threads -> Seq(Tasks)]
<1>1. agenda \in [Threads -> Seq(Tasks)] /\ Paired(agenda[t])
  BY DEF Types, Drops
<1>2. Tail(agenda[t]) \in Seq(Tasks) /\ Paired(Tail(agenda[t]))
  BY <1>1, PairedTail
<1>3. Paired(tasks \o Tail(agenda[t])) /\ tasks \o Tail(agenda[t]) \in Seq(Tasks)
  <2>1. PICK rest : rest = Tail(agenda[t])
    OBVIOUS
  <2>2. rest \in Seq(Tasks) /\ Paired(rest)
    BY <1>2, <2>1
  <2>3. Paired(tasks \o rest)
    BY <2>2, PairedJoin
  <2>4. tasks \o rest \in Seq(Tasks)
    BY <2>2
  <2> QED
    BY <2>1, <2>3, <2>4
<1>4. agenda' = [agenda EXCEPT ![t] = tasks \o Tail(agenda[t])]
  BY DEF Continue
<1>5. agenda'[t] = tasks \o Tail(agenda[t]) /\ \A u \in Threads : u # t => agenda'[u] = agenda[u]
  BY <1>1, <1>4
<1>6. \A u \in Threads : Paired(agenda'[u])
  BY <1>3, <1>5 DEF Drops
<1>7. agenda' \in [Threads -> Seq(Tasks)]
  BY <1>1, <1>3, <1>4
<1> QED
  BY <1>6, <1>7 DEF Drops, Paired

\* And one that starts.
LEMMA DropsBegin ==
  ASSUME Types, Drops, NEW t \in Threads, NEW tasks \in Seq(Tasks), Paired(tasks), Begin(t, tasks)
  PROVE  Drops' /\ agenda' \in [Threads -> Seq(Tasks)]
<1>1. agenda \in [Threads -> Seq(Tasks)]
  BY DEF Types
<1>2. agenda' = [agenda EXCEPT ![t] = tasks]
  BY DEF Begin
<1>3. \A u \in Threads : Paired(agenda'[u])
  BY <1>1, <1>2 DEF Drops
<1>4. agenda' \in [Threads -> Seq(Tasks)]
  BY <1>1, <1>2
<1> QED
  BY <1>3, <1>4 DEF Drops, Paired

\* A thread that goes on without a lookup.
LEMMA AnswersContinue ==
  ASSUME Types, Answers, NEW t \in Threads, agenda[t] # <<>>, NEW tasks \in Seq(Tasks),
         Num(tasks, Lookups) = 0, Continue(t, tasks), txn' = txn
  PROVE  Answers'
<1>1. agenda \in [Threads -> Seq(Tasks)] /\ agenda[t] \in Seq(Tasks)
  BY DEF Types
<1>2. /\ Num(agenda[t], Lookups) = In(Head(agenda[t]), Lookups) + Num(Tail(agenda[t]), Lookups)
      /\ Tail(agenda[t]) \in Seq(Tasks)
  BY <1>1, NumHead
<1>3. Num(tasks \o Tail(agenda[t]), Lookups) = Num(tasks, Lookups) + Num(Tail(agenda[t]), Lookups)
  BY <1>2, NumConcat
<1>4. Num(Tail(agenda[t]), Lookups) \in Nat /\ In(Head(agenda[t]), Lookups) \in Nat
  BY <1>2, NumNat, InNat
<1>5. agenda'[t] = tasks \o Tail(agenda[t]) /\ \A u \in Threads : u # t => agenda'[u] = agenda[u]
  BY <1>1 DEF Continue
<1>6. Num(agenda'[t], Lookups) <= Num(agenda[t], Lookups) /\ Num(agenda'[t], Lookups) \in Nat
  BY <1>2, <1>3, <1>4, <1>5
<1>7. ASSUME NEW u \in Threads
      PROVE  Num(agenda'[u], Lookups) <= 1 /\ (Num(agenda'[u], Lookups) # 0 => txn'[u] = NoTxn)
  <2>1. Num(agenda[u], Lookups) <= 1 /\ (Num(agenda[u], Lookups) # 0 => txn[u] = NoTxn)
        /\ Num(agenda[u], Lookups) \in Nat
    BY <1>1, NumNat DEF Answers
  <2>2. CASE u = t
    BY <1>6, <2>1, <2>2
  <2>3. CASE u # t
    BY <1>5, <2>1, <2>3
  <2> QED
    BY <2>2, <2>3
<1> QED
  BY <1>7 DEF Answers, Num, Places

\* The transactions of the other threads stay.
OtherTxnsStay(t) == \A u \in Threads : u # t => txn'[u] = txn[u]

\* A thread that starts without a lookup.
LEMMA AnswersBegin ==
  ASSUME Types, Answers, NEW t \in Threads, NEW tasks, Begin(t, tasks), Num(tasks, Lookups) = 0, OtherTxnsStay(t)
  PROVE  Answers'
<1>1. agenda \in [Threads -> Seq(Tasks)]
  BY DEF Types
<1>2. ASSUME NEW u \in Threads
      PROVE  Num(agenda'[u], Lookups) <= 1 /\ (Num(agenda'[u], Lookups) # 0 => txn'[u] = NoTxn)
  <2>1. Num(agenda[u], Lookups) <= 1 /\ (Num(agenda[u], Lookups) # 0 => txn[u] = NoTxn)
    BY DEF Answers
  <2>2. CASE u = t
    BY <1>1, <2>2 DEF Begin
  <2>3. CASE u # t
    BY <1>1, <2>1, <2>3 DEF Begin, OtherTxnsStay
  <2> QED
    BY <2>2, <2>3
<1> QED
  BY <1>2 DEF Answers, Num, Places

\* A thread that starts with one, and whose transaction holds nothing.
LEMMA AnswersLookup ==
  ASSUME Types, Answers, NEW t \in Threads, NEW tasks, Begin(t, tasks), Num(tasks, Lookups) = 1,
         OtherTxnsStay(t), txn'[t] = NoTxn
  PROVE  Answers'
<1>1. agenda \in [Threads -> Seq(Tasks)]
  BY DEF Types
<1>2. ASSUME NEW u \in Threads
      PROVE  Num(agenda'[u], Lookups) <= 1 /\ (Num(agenda'[u], Lookups) # 0 => txn'[u] = NoTxn)
  <2>1. Num(agenda[u], Lookups) <= 1 /\ (Num(agenda[u], Lookups) # 0 => txn[u] = NoTxn)
    BY DEF Answers
  <2>2. CASE u = t
    BY <1>1, <2>2 DEF Begin
  <2>3. CASE u # t
    BY <1>1, <2>1, <2>3 DEF Begin, OtherTxnsStay
  <2> QED
    BY <2>2, <2>3
<1> QED
  BY <1>2 DEF Answers, Num, Places

(***************************************************************************)
(* The heap                                                                *)
(***************************************************************************)

\* The entries that use version v of k, and what its count has beyond them.
Using(h, k, v)   == {e \in EntryIds : h.entry[e].live /\ h.entry[e].setting[k] = v}
Balance(h, k, v) == h.refs[k][v] - Cardinality(Using(h, k, v))

\* Both have the same users, counted alike.
SameSettings(g, h) ==
  /\ g.refs = h.refs
  /\ \A e \in EntryIds : /\ g.entry[e].live <=> h.entry[e].live
                         /\ g.entry[e].setting = h.entry[e].setting
\* Entry x is as alive and as deleted as before.
SameEntry(g, h, x) ==
  /\ g.entry[x].live <=> h.entry[x].live
  /\ g.entry[x].deleted <=> h.entry[x].deleted
  /\ g.entry[x].ref = h.entry[x].ref

\* An entry is in use or it is not.
LEMMA EntryIs ==
  ASSUME NEW h \in Heaps, NEW e \in EntryIds
  PROVE  /\ h.entry \in [EntryIds -> {Unused} \cup Used] /\ h.refs \in [Kinds -> [Versions -> Int]]
         /\ h.entry[e].ref \in Int
         /\ h.entry[e].live => h.entry[e] \in Used /\ h.entry[e].setting \in [Kinds -> Versions]
         /\ ~h.entry[e].live => h.entry[e] = Unused /\ h.entry[e].ref = 0 /\ ~h.entry[e].deleted
         /\ h.entry[e].live \in BOOLEAN /\ h.entry[e].deleted \in BOOLEAN
<1>1. h.entry \in [EntryIds -> {Unused} \cup Used] /\ h.refs \in [Kinds -> [Versions -> Int]]
  BY DEF Heaps
<1>2. CASE h.entry[e] = Unused
  BY <1>1, <1>2 DEF Unused
<1>3. CASE h.entry[e] \in Used
  BY <1>1, <1>3 DEF Used
<1> QED
  BY <1>1, <1>2, <1>3

\* Entries are finitely many.
LEMMA EntriesFinite == IsFiniteSet(EntryIds)
<1>1. 1 \in Int /\ MaxEntries \in Int
  BY ManagerAssumption
<1> QED
  BY <1>1, FS_Interval DEF EntryIds

\* The users are finitely many.
LEMMA UsingNat ==
  ASSUME NEW h, NEW k, NEW v
  PROVE  IsFiniteSet(Using(h, k, v)) /\ Cardinality(Using(h, k, v)) \in Nat
<1> QED
  BY EntriesFinite, FS_Subset, FS_CardinalityType DEF Using

\* The balance of a heap.
LEMMA BalanceInt ==
  ASSUME NEW h \in Heaps, NEW k \in Kinds, NEW v \in Versions
  PROVE  Balance(h, k, v) \in Int /\ h.refs[k][v] \in Int
<1>1. h.refs[k][v] \in Int
  BY DEF Heaps
<1> QED
  BY <1>1, UsingNat DEF Balance

\* It stays when settings do.
LEMMA BalanceSame ==
  ASSUME NEW g, NEW h, SameSettings(g, h)
  PROVE  \A k \in Kinds, v \in Versions : Balance(g, k, v) = Balance(h, k, v)
<1> SUFFICES ASSUME NEW k \in Kinds, NEW v \in Versions PROVE Balance(g, k, v) = Balance(h, k, v)
  OBVIOUS
<1>1. Using(g, k, v) = Using(h, k, v)
  BY DEF Using, SameSettings
<1> QED
  BY <1>1 DEF Balance, SameSettings

\* What is left of an entry when one field is set.
LEMMA UsedRef ==
  ASSUME NEW r \in Used, NEW i \in Int, NEW n, n = [r EXCEPT !.ref = i]
  PROVE  /\ n \in Used /\ n.live /\ n.ref = i /\ n.setting = r.setting
         /\ n.deleted <=> r.deleted
<1>1. n \in Used
  BY DEF Used
<1>2. n.live
  BY <1>1 DEF Used
<1>3. n.ref = i /\ n.setting = r.setting
  BY DEF Used
<1>4. n.deleted <=> r.deleted
  BY DEF Used
<1> QED
  BY <1>1, <1>2, <1>3, <1>4

\* A new state leaves the rest.
LEMMA UsedState ==
  ASSUME NEW r \in Used, NEW st \in States, NEW n, n = [r EXCEPT !.state = st]
  PROVE  /\ n \in Used /\ n.live /\ n.ref = r.ref /\ n.setting = r.setting
         /\ n.deleted <=> r.deleted
<1>1. n \in Used
  BY DEF Used
<1>2. n.live
  BY <1>1 DEF Used
<1>3. n.ref = r.ref /\ n.setting = r.setting
  BY DEF Used
<1>4. n.deleted <=> r.deleted
  BY DEF Used
<1> QED
  BY <1>1, <1>2, <1>3, <1>4

\* So does the mark of a removal.
LEMMA UsedDeleted ==
  ASSUME NEW r \in Used, NEW n, n = [r EXCEPT !.deleted = TRUE]
  PROVE  /\ n \in Used /\ n.live /\ n.ref = r.ref /\ n.setting = r.setting
         /\ n.deleted
<1>1. n \in Used
  BY DEF Used
<1>2. n.live
  BY <1>1 DEF Used
<1>3. n.ref = r.ref /\ n.setting = r.setting
  BY DEF Used
<1>4. n.deleted
  BY DEF Used
<1> QED
  BY <1>1, <1>2, <1>3, <1>4

\* The entry with another version.
WithSetting(r, k, v) == [r EXCEPT !.setting[k] = v]

\* And another version of one of its settings.
LEMMA UsedSetting ==
  ASSUME NEW r \in Used, NEW k \in Kinds, NEW v \in Versions, NEW n, n = WithSetting(r, k, v)
  PROVE  /\ n \in Used /\ n.live /\ n.ref = r.ref
         /\ n.setting[k] = v /\ \A j \in Kinds : j # k => n.setting[j] = r.setting[j]
         /\ n.deleted <=> r.deleted
<1>1. r.setting \in [Kinds -> Versions]
  BY DEF Used
<1>2. PICK f : f = [r.setting EXCEPT ![k] = v]
  OBVIOUS
<1>3. f \in [Kinds -> Versions] /\ f[k] = v /\ \A j \in Kinds : j # k => f[j] = r.setting[j]
  BY <1>1, <1>2
<1>4. n = [r EXCEPT !.setting = f]
  BY <1>2 DEF WithSetting
<1>5. n \in Used
  BY <1>3, <1>4 DEF Used
<1>6. n.live
  BY <1>5 DEF Used
<1>7. n.ref = r.ref /\ n.setting = f
  BY <1>4 DEF Used
<1>8. n.deleted <=> r.deleted
  BY <1>4 DEF Used
<1> QED
  BY <1>3, <1>5, <1>6, <1>7, <1>8

\* The heap with entry e replaced.
WithEntry(h, e, n) == [h EXCEPT !.entry[e] = n]

\* An entry is replaced in the heap.
LEMMA EntrySet ==
  ASSUME NEW h \in Heaps, NEW e \in EntryIds, NEW n \in {Unused} \cup Used,
         NEW g, g = WithEntry(h, e, n)
  PROVE  /\ g \in Heaps /\ g.refs = h.refs /\ g.entry[e] = n
         /\ \A x \in EntryIds : x # e => g.entry[x] = h.entry[x]
<1>1. h.entry \in [EntryIds -> {Unused} \cup Used]
  BY DEF Heaps
<1>2. PICK f : f = [h.entry EXCEPT ![e] = n]
  OBVIOUS
<1>3. f \in [EntryIds -> {Unused} \cup Used] /\ f[e] = n /\ \A x \in EntryIds : x # e => f[x] = h.entry[x]
  BY <1>1, <1>2
<1>4. g = [h EXCEPT !.entry = f]
  BY <1>2 DEF WithEntry
<1>5. g.entry = f /\ g.refs = h.refs /\ g \in Heaps
  BY <1>3, <1>4 DEF Heaps
<1> QED
  BY <1>3, <1>5

\* inc_ref()
LEMMA IncRefIs ==
  ASSUME NEW h \in Heaps, NEW e \in EntryIds, h.entry[e].live, NEW g, g = IncRef(h, e)
  PROVE  /\ g \in Heaps /\ SameSettings(g, h)
         /\ g.entry[e].ref = h.entry[e].ref + 1
         /\ g.entry[e].live /\ (g.entry[e].deleted <=> h.entry[e].deleted)
         /\ \A x \in EntryIds : x # e => g.entry[x] = h.entry[x]
<1>1. PICK r : r = h.entry[e]
  OBVIOUS
<1>2. r \in Used /\ r.ref \in Int
  BY <1>1, EntryIs
<1>8. PICK i : i = r.ref + 1
  OBVIOUS
<1>9. i \in Int
  BY <1>2, <1>8
<1>3. PICK n : n = [r EXCEPT !.ref = i]
  OBVIOUS
<1>4. /\ n \in Used /\ n.live /\ n.ref = i /\ n.setting = r.setting
      /\ n.deleted <=> r.deleted
  BY <1>2, <1>3, <1>9, UsedRef
<1>5. g = WithEntry(h, e, n)
  BY <1>1, <1>3, <1>8 DEF IncRef, WithEntry
<1>10. n \in {Unused} \cup Used
  BY <1>4
<1>6. /\ g \in Heaps /\ g.refs = h.refs /\ g.entry[e] = n
      /\ \A x \in EntryIds : x # e => g.entry[x] = h.entry[x]
  BY <1>5, <1>10, EntrySet
<1>7. SameSettings(g, h)
  <2>1. ASSUME NEW x \in EntryIds
        PROVE  (g.entry[x].live <=> h.entry[x].live) /\ g.entry[x].setting = h.entry[x].setting
    BY <1>1, <1>4, <1>6
  <2> QED
    BY <1>6, <2>1 DEF SameSettings
<1> QED
  BY <1>1, <1>4, <1>6, <1>7, <1>8

\* A reference to a version more, or less.
LEMMA SettingIs ==
  ASSUME NEW h \in Heaps, NEW k \in Kinds, NEW v \in Versions, NEW d \in {1, -1},
         NEW g, g = [h EXCEPT !.refs[k][v] = @ + d]
  PROVE  /\ g \in Heaps /\ g.entry = h.entry
         /\ \A j \in Kinds, w \in Versions :
              Balance(g, j, w) = Balance(h, j, w) + (IF j = k /\ w = v THEN d ELSE 0)
<1>1. h.refs \in [Kinds -> [Versions -> Int]]
  BY DEF Heaps
<1>2. PICK f : f = [h.refs EXCEPT ![k] = [h.refs[k] EXCEPT ![v] = h.refs[k][v] + d]]
  OBVIOUS
<1>3. /\ f \in [Kinds -> [Versions -> Int]]
      /\ \A j \in Kinds, w \in Versions : f[j][w] = h.refs[j][w] + (IF j = k /\ w = v THEN d ELSE 0)
  BY <1>1, <1>2
<1>4. g = [h EXCEPT !.refs = f]
  BY <1>2
<1>5. g.entry = h.entry /\ g.refs = f /\ g \in Heaps
  BY <1>3, <1>4 DEF Heaps
<1>6. ASSUME NEW j \in Kinds, NEW w \in Versions
      PROVE  Balance(g, j, w) = Balance(h, j, w) + (IF j = k /\ w = v THEN d ELSE 0)
  <2>1. Using(g, j, w) = Using(h, j, w)
    BY <1>5 DEF Using
  <2>2. Cardinality(Using(h, j, w)) \in Nat /\ h.refs[j][w] \in Int
    BY <1>1, UsingNat
  <2>3. g.refs[j][w] = h.refs[j][w] + (IF j = k /\ w = v THEN d ELSE 0)
    BY <1>3, <1>5
  <2> QED
    BY <2>1, <2>2, <2>3 DEF Balance
<1> QED
  BY <1>5, <1>6

\* One if it is version v of k.
Of(k, v, j, w) == IF j = k /\ w = v THEN 1 ELSE 0

\* get_congestion_control_config() and the like.
LEMMA GetIs ==
  ASSUME NEW h \in Heaps, NEW k \in Kinds, NEW v \in Versions, NEW g, g = GetSetting(h, k, v)
  PROVE  /\ g \in Heaps /\ g.entry = h.entry
         /\ \A j \in Kinds, w \in Versions : Balance(g, j, w) = Balance(h, j, w) + Of(k, v, j, w)
<1>1. g = [h EXCEPT !.refs[k][v] = @ + 1]
  BY DEF GetSetting
<1> QED
  BY <1>1, SettingIs DEF Of

\* Giving a reference to a version back.
LEMMA PutIs ==
  ASSUME NEW h \in Heaps, NEW k \in Kinds, NEW v \in Versions, NEW g, g = PutSetting(h, k, v)
  PROVE  /\ g \in Heaps /\ g.entry = h.entry
         /\ \A j \in Kinds, w \in Versions : Balance(g, j, w) = Balance(h, j, w) - Of(k, v, j, w)
<1>1. g = [h EXCEPT !.refs[k][v] = @ + (-1)]
  <2>1. h.refs[k][v] \in Int
    BY DEF Heaps
  <2>2. h.refs[k][v] + (-1) = h.refs[k][v] - 1
    BY <2>1
  <2> QED
    BY <2>2 DEF PutSetting
<1>2. -1 \in {1, -1}
  OBVIOUS
<1>3. /\ g \in Heaps /\ g.entry = h.entry
      /\ \A j \in Kinds, w \in Versions :
           Balance(g, j, w) = Balance(h, j, w) + (IF j = k /\ w = v THEN -1 ELSE 0)
  BY <1>1, <1>2, SettingIs
<1> QED
  BY <1>3, BalanceInt DEF Of

\* One if the entry uses version v of k.
Uses(r, k, v) == IF r.live /\ r.setting[k] = v THEN 1 ELSE 0

\* What an entry counts for when it is replaced.
LEMMA EntryBalance ==
  ASSUME NEW h \in Heaps, NEW e \in EntryIds, NEW n \in {Unused} \cup Used,
         NEW g, g = WithEntry(h, e, n)
  PROVE  \A k \in Kinds, v \in Versions :
           Balance(g, k, v) = Balance(h, k, v) + Uses(h.entry[e], k, v) - Uses(n, k, v)
<1> SUFFICES ASSUME NEW k \in Kinds, NEW v \in Versions
             PROVE  Balance(g, k, v) = Balance(h, k, v) + Uses(h.entry[e], k, v) - Uses(n, k, v)
  OBVIOUS
<1>1. /\ g \in Heaps /\ g.refs = h.refs /\ g.entry[e] = n
      /\ \A x \in EntryIds : x # e => g.entry[x] = h.entry[x]
  BY EntrySet
<1>2. PICK X : X = {r \in Used : r.setting[k] = v}
  OBVIOUS
<1>3. ASSUME NEW f \in Heaps
      PROVE  /\ Cardinality(Using(f, k, v)) = Hits(f.entry, EntryIds, X)
             /\ \A x \in EntryIds : In(f.entry[x], X) = Uses(f.entry[x], k, v)
  <2>1. ASSUME NEW x \in EntryIds
        PROVE  f.entry[x].live /\ f.entry[x].setting[k] = v <=> f.entry[x] \in X
    <3>1. CASE f.entry[x].live
      BY <1>2, <3>1, EntryIs
    <3>2. CASE ~f.entry[x].live
      <4>1. f.entry[x] \notin Used
        BY <3>2 DEF Used
      <4> QED
        BY <1>2, <3>2, <4>1
    <3> QED
      BY <3>1, <3>2
  <2>2. Using(f, k, v) = {x \in EntryIds : f.entry[x] \in X}
    BY <2>1 DEF Using
  <2>3. \A x \in EntryIds : In(f.entry[x], X) = Uses(f.entry[x], k, v)
    BY <2>1 DEF In, Uses
  <2> QED
    BY <2>2, <2>3 DEF Hits
<1>5. Hits(g.entry, EntryIds, X) = Hits(h.entry, EntryIds, X) + In(g.entry[e], X) - In(h.entry[e], X)
  <2>1. PICK p, q : p = g.entry /\ q = h.entry
    OBVIOUS
  <2>2. OnlyAt(EntryIds, q, p, e)
    BY <1>1, <2>1 DEF OnlyAt
  <2>3. Hits(p, EntryIds, X) = Hits(q, EntryIds, X) + In(p[e], X) - In(q[e], X)
    BY EntriesFinite, <2>2, HitsExcept
  <2> QED
    BY <2>1, <2>3
<1>6. /\ Cardinality(Using(g, k, v)) = Hits(g.entry, EntryIds, X)
      /\ In(g.entry[e], X) = Uses(n, k, v)
  BY <1>1, <1>3
<1>7. /\ Cardinality(Using(h, k, v)) = Hits(h.entry, EntryIds, X)
      /\ In(h.entry[e], X) = Uses(h.entry[e], k, v)
  BY <1>3
<1>8. /\ Cardinality(Using(g, k, v)) \in Nat /\ Cardinality(Using(h, k, v)) \in Nat
      /\ h.refs[k][v] \in Int
  BY UsingNat, BalanceInt
<1>9. Uses(n, k, v) \in Nat /\ Uses(h.entry[e], k, v) \in Nat
  BY DEF Uses
<1>10. Cardinality(Using(g, k, v)) = Cardinality(Using(h, k, v)) + Uses(n, k, v) - Uses(h.entry[e], k, v)
  BY <1>5, <1>6, <1>7
<1>11. g.refs[k][v] = h.refs[k][v]
  BY <1>1
<1> QED
  BY <1>8, <1>9, <1>10, <1>11 DEF Balance

\* An entry counts for one version of each kind.
LEMMA UsesOf ==
  ASSUME NEW r, r.live, NEW k \in Kinds, NEW v
  PROVE  Uses(r, k, v) = Of("config", r.setting["config"], k, v) + Of("zone", r.setting["zone"], k, v)
BY DEF Uses, Of, Kinds

\* One that is not in use counts for nothing.
LEMMA UsesNone == \A k, v : Uses(Unused, k, v) = 0
BY DEF Uses, Unused

\* dec_ref()
LEMMA DecRefIs ==
  ASSUME NEW h \in Heaps, NEW e \in EntryIds, h.entry[e].live, h.entry[e].ref >= 1,
         NEW g, g = DecRef(h, e)
  PROVE  /\ g \in Heaps
         /\ \A k \in Kinds, v \in Versions : Balance(g, k, v) = Balance(h, k, v)
         /\ g.entry[e].ref = h.entry[e].ref - 1
         /\ h.entry[e].ref >= 2 => g.entry[e].live /\ (g.entry[e].deleted <=> h.entry[e].deleted)
         /\ h.entry[e].ref = 1 => ~g.entry[e].live
         /\ \A x \in EntryIds : x # e => g.entry[x] = h.entry[x]
<1>1. PICK r : r = h.entry[e]
  OBVIOUS
<1>2. r \in Used /\ r.ref \in Int /\ r.live /\ r.setting \in [Kinds -> Versions]
  BY <1>1, EntryIs
<1>3. CASE r.ref = 1
  <2>1. PICK a, b : a = r.setting["config"] /\ b = r.setting["zone"]
    OBVIOUS
  <2>2. a \in Versions /\ b \in Versions /\ "config" \in Kinds /\ "zone" \in Kinds
    BY <1>2, <2>1 DEF Kinds
  <2>3. PICK p : p = PutSetting(h, "config", a)
    OBVIOUS
  <2>4. /\ p \in Heaps /\ p.entry = h.entry
        /\ \A j \in Kinds, w \in Versions : Balance(p, j, w) = Balance(h, j, w) - Of("config", a, j, w)
    BY <2>2, <2>3, PutIs
  <2>5. PICK q : q = PutSetting(p, "zone", b)
    OBVIOUS
  <2>6. /\ q \in Heaps /\ q.entry = p.entry
        /\ \A j \in Kinds, w \in Versions : Balance(q, j, w) = Balance(p, j, w) - Of("zone", b, j, w)
    <3>1. p \in Heaps /\ b \in Versions /\ "zone" \in Kinds
      BY <2>2, <2>4
    <3> QED
      BY <3>1, <2>5, PutIs
  <2>7. g = WithEntry(q, e, Unused)
    BY <1>1, <1>3, <2>1, <2>3, <2>5 DEF DecRef, WithEntry
  <2>8. Unused \in {Unused} \cup Used
    OBVIOUS
  <2>9. /\ g \in Heaps /\ g.entry[e] = Unused
        /\ \A x \in EntryIds : x # e => g.entry[x] = q.entry[x]
    BY <2>6, <2>7, <2>8, EntrySet
  <2>10. \A k \in Kinds, v \in Versions :
           Balance(g, k, v) = Balance(q, k, v) + Uses(q.entry[e], k, v) - Uses(Unused, k, v)
    BY <2>6, <2>7, <2>8, EntryBalance
  <2>11. ASSUME NEW k \in Kinds, NEW v \in Versions
         PROVE  Balance(g, k, v) = Balance(h, k, v)
    <3>1. Uses(r, k, v) = Of("config", a, k, v) + Of("zone", b, k, v)
      BY <1>2, <2>1, UsesOf
    <3>2. Of("config", a, k, v) \in Nat /\ Of("zone", b, k, v) \in Nat
      BY DEF Of
    <3>3. Balance(h, k, v) \in Int
      BY BalanceInt
    <3>4. Balance(q, k, v) = Balance(h, k, v) - Of("config", a, k, v) - Of("zone", b, k, v)
      BY <2>4, <2>6, <3>3, <3>2
    <3>5. Balance(g, k, v) = Balance(q, k, v) + Uses(r, k, v) - 0
      BY <1>1, <2>4, <2>6, <2>10, UsesNone
    <3> QED
      BY <3>1, <3>2, <3>3, <3>4, <3>5
  <2>12. g.entry[e].ref = 0 /\ ~g.entry[e].live
    BY <2>9 DEF Unused
  <2> QED
    BY <1>1, <1>3, <2>4, <2>6, <2>9, <2>11, <2>12
<1>4. CASE r.ref # 1
  <2>1. PICK i : i = r.ref - 1
    OBVIOUS
  <2>2. i \in Int
    BY <1>2, <2>1
  <2>3. PICK n : n = [r EXCEPT !.ref = i]
    OBVIOUS
  <2>4. /\ n \in Used /\ n.live /\ n.ref = i /\ n.setting = r.setting
        /\ n.deleted <=> r.deleted
    BY <1>2, <2>2, <2>3, UsedRef
  <2>5. g = WithEntry(h, e, n)
    BY <1>1, <1>4, <2>1, <2>3 DEF DecRef, WithEntry
  <2>6. n \in {Unused} \cup Used
    BY <2>4
  <2>7. /\ g \in Heaps /\ g.refs = h.refs /\ g.entry[e] = n
        /\ \A x \in EntryIds : x # e => g.entry[x] = h.entry[x]
    BY <2>5, <2>6, EntrySet
  <2>8. SameSettings(g, h)
    <3>1. ASSUME NEW x \in EntryIds
          PROVE  (g.entry[x].live <=> h.entry[x].live) /\ g.entry[x].setting = h.entry[x].setting
      BY <1>1, <2>4, <2>7
    <3> QED
      BY <2>7, <3>1 DEF SameSettings
  <2>9. \A k \in Kinds, v \in Versions : Balance(g, k, v) = Balance(h, k, v)
    BY <2>8, BalanceSame
  <2> QED
    BY <1>1, <1>4, <2>1, <2>4, <2>7, <2>9
<1> QED
  BY <1>3, <1>4

\* add_new_server() makes an entry.
LEMMA NewEntryIs ==
  ASSUME Types, NEW h \in Heaps, NEW e \in EntryIds, ~h.entry[e].live,
         NEW st \in States \cup {"ACTIVE"}, NEW g, g = NewEntry(h, e, st)
  PROVE  /\ g \in Heaps
         /\ \A k \in Kinds, v \in Versions : Balance(g, k, v) = Balance(h, k, v)
         /\ g.entry[e].live /\ g.entry[e].ref = 0 /\ ~g.entry[e].deleted
         /\ \A x \in EntryIds : x # e => g.entry[x] = h.entry[x]
<1>1. PICK a, b : a = global["config"] /\ b = global["zone"]
  OBVIOUS
<1>2. a \in Versions /\ b \in Versions /\ "config" \in Kinds /\ "zone" \in Kinds
  BY <1>1 DEF Kinds, Types
<1>3. PICK p : p = GetSetting(h, "config", a)
  OBVIOUS
<1>4. /\ p \in Heaps /\ p.entry = h.entry
      /\ \A j \in Kinds, w \in Versions : Balance(p, j, w) = Balance(h, j, w) + Of("config", a, j, w)
  BY <1>2, <1>3, GetIs
<1>5. PICK q : q = GetSetting(p, "zone", b)
  OBVIOUS
<1>6. /\ q \in Heaps /\ q.entry = p.entry
      /\ \A j \in Kinds, w \in Versions : Balance(q, j, w) = Balance(p, j, w) + Of("zone", b, j, w)
  <2>1. p \in Heaps /\ b \in Versions /\ "zone" \in Kinds
    BY <1>2, <1>4
  <2> QED
    BY <2>1, <1>5, GetIs
<1>7. PICK n : n = [live |-> TRUE, state |-> st, setting |-> global, ref |-> 0, deleted |-> FALSE]
  OBVIOUS
<1>8. g = WithEntry(q, e, n)
  BY <1>1, <1>3, <1>5, <1>7 DEF NewEntry, WithEntry
<1>9. n \in Used
  <2>1. global \in [Kinds -> Versions]
    BY DEF Types
  <2> QED
    BY <1>7, <2>1 DEF Used
<1>10. n \in {Unused} \cup Used
  BY <1>9
<1>11. n.live /\ n.ref = 0 /\ n.setting = global
  BY <1>7
<1>12. ~n.deleted
  BY <1>7
<1>13. /\ g \in Heaps /\ g.entry[e] = n
       /\ \A x \in EntryIds : x # e => g.entry[x] = q.entry[x]
  BY <1>6, <1>8, <1>10, EntrySet
<1>14. \A k \in Kinds, v \in Versions :
         Balance(g, k, v) = Balance(q, k, v) + Uses(q.entry[e], k, v) - Uses(n, k, v)
  BY <1>6, <1>8, <1>10, EntryBalance
<1>15. ASSUME NEW k \in Kinds, NEW v \in Versions
       PROVE  Balance(g, k, v) = Balance(h, k, v)
  <2>1. Uses(n, k, v) = Of("config", a, k, v) + Of("zone", b, k, v)
    BY <1>1, <1>11, UsesOf
  <2>2. Of("config", a, k, v) \in Nat /\ Of("zone", b, k, v) \in Nat
    BY DEF Of
  <2>3. Balance(h, k, v) \in Int
    BY BalanceInt
  <2>4. Balance(q, k, v) = Balance(h, k, v) + Of("config", a, k, v) + Of("zone", b, k, v)
    BY <1>4, <1>6, <2>3, <2>2
  <2>5. q.entry[e] = Unused
    BY <1>4, <1>6, EntryIs
  <2>6. Balance(g, k, v) = Balance(q, k, v) + 0 - Uses(n, k, v)
    BY <1>14, <2>5, UsesNone
  <2> QED
    BY <2>1, <2>2, <2>3, <2>4, <2>6
<1>16. \A x \in EntryIds : x # e => g.entry[x] = h.entry[x]
  BY <1>4, <1>6, <1>13
<1> QED
  BY <1>11, <1>12, <1>13, <1>15, <1>16

\* Entries in use.
AllLive(h, es) == es \in SUBSET EntryIds /\ \A e \in es : h.entry[e].live

\* revalidate_bucket_config(), revalidate_bucket_zone() of entries in use.
LEMMA ReplaceIs ==
  ASSUME NEW h \in Heaps, NEW es, AllLive(h, es),
         NEW k \in Kinds, NEW v \in Versions, NEW g, g = ReplaceSetting(h, es, k, v)
  PROVE  /\ g \in Heaps
         /\ \A j \in Kinds, w \in Versions : Balance(g, j, w) = Balance(h, j, w)
         /\ \A e \in EntryIds : SameEntry(g, h, e)
<1>12. es \in SUBSET EntryIds /\ \A e \in es : h.entry[e].live
  BY DEF AllLive
<1>1. IsFiniteSet(es)
  BY <1>12, EntriesFinite, FS_Subset
<1>2. PICK refs : refs = [w \in Versions |-> h.refs[k][w] - Cardinality(Users(h, es, k, w)) + Taken(es, v, w)]
  OBVIOUS
<1>3. g = Repointed(h, es, k, v, refs)
  BY <1>2 DEF ReplaceSetting
<1>4. \A w : /\ IsFiniteSet(Users(h, es, k, w)) /\ Cardinality(Users(h, es, k, w)) \in Nat
             /\ Taken(es, v, w) \in Nat
  BY <1>1, FS_Subset, FS_CardinalityType DEF Users, Taken
<1>5. refs \in [Versions -> Int]
  <2>1. ASSUME NEW w \in Versions
        PROVE  h.refs[k][w] - Cardinality(Users(h, es, k, w)) + Taken(es, v, w) \in Int
    BY <1>4, BalanceInt
  <2> QED
    BY <1>2, <2>1
<1>6. g.refs = [h.refs EXCEPT ![k] = refs]
  BY <1>3 DEF Repointed
<1>7. g.refs \in [Kinds -> [Versions -> Int]] /\ g.refs[k] = refs
      /\ \A j \in Kinds : j # k => g.refs[j] = h.refs[j]
  <2>1. h.refs \in [Kinds -> [Versions -> Int]]
    BY DEF Heaps
  <2> QED
    BY <1>5, <1>6, <2>1
<1>8. ASSUME NEW e \in EntryIds
      PROVE  /\ e \notin es => g.entry[e] = h.entry[e]
             /\ e \in es => /\ g.entry[e] \in Used /\ g.entry[e].live
                            /\ g.entry[e].setting[k] = v
                            /\ \A j \in Kinds : j # k => g.entry[e].setting[j] = h.entry[e].setting[j]
             /\ SameEntry(g, h, e)
  <2>1. PICK r, n : r = h.entry[e] /\ n = WithSetting(r, k, v)
    OBVIOUS
  <2>2. g.entry[e] = IF e \in es THEN n ELSE r
    BY <1>3, <2>1 DEF Repointed, WithSetting
  <2>3. CASE e \in es
    <3>1. r \in Used
      BY <1>12, <2>1, <2>3, EntryIs
    <3>2. /\ n \in Used /\ n.live /\ n.ref = r.ref
          /\ n.setting[k] = v /\ \A j \in Kinds : j # k => n.setting[j] = r.setting[j]
          /\ n.deleted <=> r.deleted
      BY <2>1, <3>1, UsedSetting
    <3>3. g.entry[e] = n /\ h.entry[e] = r /\ r.live
      BY <1>12, <2>1, <2>2, <2>3
    <3>4. SameEntry(g, h, e)
      BY <3>2, <3>3 DEF SameEntry
    <3> QED
      BY <2>3, <3>2, <3>3, <3>4
  <2>4. CASE e \notin es
    BY <2>1, <2>2, <2>4 DEF SameEntry
  <2> QED
    BY <2>3, <2>4
<1>9. g \in Heaps
  <2>1. h.entry \in [EntryIds -> {Unused} \cup Used]
    BY DEF Heaps
  <2>2. PICK f : f = g.entry
    OBVIOUS
  <2>3. f = [e \in EntryIds |-> f[e]]
    BY <1>3, <2>2 DEF Repointed
  <2>4. ASSUME NEW e \in EntryIds PROVE f[e] \in {Unused} \cup Used
    BY <1>8, <2>1, <2>2
  <2>5. f \in [EntryIds -> {Unused} \cup Used]
    BY <2>3, <2>4
  <2>6. g = [entry |-> f, refs |-> g.refs]
    BY <1>3, <2>2 DEF Repointed
  <2> QED
    BY <1>7, <2>5, <2>6 DEF Heaps
<1>10. ASSUME NEW j \in Kinds, NEW w \in Versions, j # k
       PROVE  Balance(g, j, w) = Balance(h, j, w)
  <2>1. ASSUME NEW e \in EntryIds
        PROVE  g.entry[e].live /\ g.entry[e].setting[j] = w <=> h.entry[e].live /\ h.entry[e].setting[j] = w
    BY <1>8, <1>10, <1>12
  <2>2. Using(g, j, w) = Using(h, j, w)
    BY <2>1 DEF Using
  <2> QED
    BY <1>7, <1>10, <2>2 DEF Balance
<1>11. ASSUME NEW w \in Versions
       PROVE  Balance(g, k, w) = Balance(h, k, w)
  <2>1. PICK A, B, R : /\ A = Users(h, es, k, w) /\ B = (IF w = v THEN es ELSE {})
                       /\ R = {e \in EntryIds \ es : h.entry[e].live /\ h.entry[e].setting[k] = w}
    OBVIOUS
  <2>2. IsFiniteSet(A) /\ IsFiniteSet(B) /\ IsFiniteSet(R)
    BY <1>1, <1>4, <2>1, EntriesFinite, FS_Subset, FS_EmptySet
  <2>3. Using(h, k, w) = A \cup R /\ A \cap R = {}
    BY <1>12, <2>1 DEF Using, Users
  <2>4. Using(g, k, w) = B \cup R /\ B \cap R = {}
    BY <1>8, <1>12, <2>1 DEF Using
  <2>5. Cardinality(Using(h, k, w)) = Cardinality(A) + Cardinality(R)
    BY <2>2, <2>3, Disjoint
  <2>6. Cardinality(Using(g, k, w)) = Cardinality(B) + Cardinality(R)
    BY <2>2, <2>4, Disjoint
  <2>7. Cardinality(B) = Taken(es, v, w)
    BY <2>1, FS_EmptySet DEF Taken
  <2>8. Cardinality(A) \in Nat /\ Cardinality(B) \in Nat /\ Cardinality(R) \in Nat /\ h.refs[k][w] \in Int
    BY <2>2, FS_CardinalityType, BalanceInt
  <2>9. g.refs[k][w] = h.refs[k][w] - Cardinality(A) + Cardinality(B)
    BY <1>2, <1>7, <2>1, <2>7
  <2> QED
    BY <2>5, <2>6, <2>8, <2>9 DEF Balance
<1> QED
  BY <1>8, <1>9, <1>10, <1>11

\* A live entry gets another state, or is marked deleted.
WithState(h, e, st) == [h EXCEPT !.entry[e].state = st]
WithDeleted(h, e)   == [h EXCEPT !.entry[e].deleted = TRUE]

\* Setting a state changes neither counts nor settings.
LEMMA StateIs ==
  ASSUME NEW h \in Heaps, NEW e \in EntryIds, h.entry[e].live, NEW st \in States,
         NEW g, g = WithState(h, e, st)
  PROVE  /\ g \in Heaps
         /\ \A k \in Kinds, v \in Versions : Balance(g, k, v) = Balance(h, k, v)
         /\ \A x \in EntryIds : SameEntry(g, h, x)
<1>1. PICK r, n : r = h.entry[e] /\ n = [r EXCEPT !.state = st]
  OBVIOUS
<1>2. r \in Used
  BY <1>1, EntryIs
<1>3. /\ n \in Used /\ n.live /\ n.ref = r.ref /\ n.setting = r.setting
      /\ n.deleted <=> r.deleted
  BY <1>1, <1>2, UsedState
<1>4. g = WithEntry(h, e, n)
  BY <1>1 DEF WithEntry, WithState
<1>5. n \in {Unused} \cup Used
  BY <1>3
<1>6. /\ g \in Heaps /\ g.refs = h.refs /\ g.entry[e] = n
      /\ \A x \in EntryIds : x # e => g.entry[x] = h.entry[x]
  BY <1>4, <1>5, EntrySet
<1>7. ASSUME NEW x \in EntryIds
      PROVE  SameEntry(g, h, x) /\ g.entry[x].setting = h.entry[x].setting
  BY <1>1, <1>3, <1>6 DEF SameEntry
<1>8. SameSettings(g, h)
  BY <1>6, <1>7 DEF SameSettings, SameEntry
<1> QED
  BY <1>6, <1>7, <1>8, BalanceSame

\* Nor does marking an entry deleted.
LEMMA DeletedIs ==
  ASSUME NEW h \in Heaps, NEW e \in EntryIds, h.entry[e].live,
         NEW g, g = WithDeleted(h, e)
  PROVE  /\ g \in Heaps
         /\ \A k \in Kinds, v \in Versions : Balance(g, k, v) = Balance(h, k, v)
         /\ g.entry[e].deleted /\ g.entry[e].live /\ g.entry[e].ref = h.entry[e].ref
         /\ \A x \in EntryIds : x # e => g.entry[x] = h.entry[x]
<1>1. PICK r, n : r = h.entry[e] /\ n = [r EXCEPT !.deleted = TRUE]
  OBVIOUS
<1>2. r \in Used
  BY <1>1, EntryIs
<1>3. /\ n \in Used /\ n.live /\ n.ref = r.ref /\ n.setting = r.setting
      /\ n.deleted
  BY <1>1, <1>2, UsedDeleted
<1>4. g = WithEntry(h, e, n)
  BY <1>1 DEF WithEntry, WithDeleted
<1>5. n \in {Unused} \cup Used
  BY <1>3
<1>6. /\ g \in Heaps /\ g.refs = h.refs /\ g.entry[e] = n
      /\ \A x \in EntryIds : x # e => g.entry[x] = h.entry[x]
  BY <1>4, <1>5, EntrySet
<1>7. ASSUME NEW x \in EntryIds
      PROVE  (g.entry[x].live <=> h.entry[x].live) /\ g.entry[x].setting = h.entry[x].setting
  BY <1>1, <1>3, <1>6
<1>8. SameSettings(g, h)
  BY <1>6, <1>7 DEF SameSettings
<1>9. \A k \in Kinds, v \in Versions : Balance(g, k, v) = Balance(h, k, v)
  BY <1>8, BalanceSame
<1> QED
  BY <1>1, <1>3, <1>6, <1>9

(***************************************************************************)
(* Owners                                                                  *)
(***************************************************************************)

\* The caches as one function, and the owners of an entry by their place.
Flat(c)   == [p \in Threads \X Servers |-> c[p[1]][p[2]]]
Tabled(e) == Hits(table, Servers, {e})
Cached(e) == Hits(Flat(cache), Threads \X Servers, {e})
Held(e)   == Hits(txn, Threads, {Holding(e)})
\* The lookups that wait with version v of the configuration.
Waiters(k, v) == IF k = "config" THEN Hits(txn, Threads, Waits(v)) ELSE 0
Current(k, v) == IF is_inited /\ global[k] = v THEN 1 ELSE 0

\* Threads and servers are finitely many.
LEMMA Finite == IsFiniteSet(Threads) /\ IsFiniteSet(Servers) /\ IsFiniteSet(Threads \X Servers)
BY ManagerAssumption, FS_Product

\* The owners of an entry.
LEMMA OwnersAre ==
  ASSUME Types, NEW e \in EntryIds
  PROVE  /\ EntryOwners(e) = Tabled(e) + Cached(e) + Held(e) + Pending(Owning(e))
         /\ Tabled(e) \in Nat /\ Cached(e) \in Nat /\ Held(e) \in Nat /\ Pending(Owning(e)) \in Nat
<1>1. {s \in Servers : table[s] = e} = {s \in Servers : table[s] \in {e}}
  OBVIOUS
<1>2. {p \in Threads \X Servers : cache[p[1]][p[2]] = e} = {p \in Threads \X Servers : Flat(cache)[p] \in {e}}
  BY DEF Flat
<1>3. {t \in Threads : txn[t] = Holding(e)} = {t \in Threads : txn[t] \in {Holding(e)}}
  OBVIOUS
<1>4. Tabled(e) \in Nat /\ Cached(e) \in Nat /\ Held(e) \in Nat
  BY Finite, HitsNat DEF Tabled, Cached, Held
<1>5. Pending(Owning(e)) \in Nat
  BY PendingIs
<1>6. EntryOwners(e) = Tabled(e) + Cached(e) + Held(e) + Pending(Owning(e))
  BY <1>1, <1>2, <1>3 DEF EntryOwners, Tabled, Cached, Held, Hits
<1> QED
  BY <1>4, <1>5, <1>6

\* The same after a step.
LEMMA OwnersAreNext ==
  ASSUME Types', NEW e \in EntryIds
  PROVE  /\ EntryOwners(e)' = Tabled(e)' + Cached(e)' + Held(e)' + Pending(Owning(e))'
         /\ Tabled(e)' \in Nat /\ Cached(e)' \in Nat /\ Held(e)' \in Nat /\ Pending(Owning(e))' \in Nat
<1>1. PICK b, c, x : b = table' /\ c = cache' /\ x = txn'
  OBVIOUS
<1>2. {p \in Threads \X Servers : c[p[1]][p[2]] = e} = {p \in Threads \X Servers : Flat(c)[p] \in {e}}
  BY DEF Flat
<1>3. Hits(b, Servers, {e}) \in Nat /\ Hits(Flat(c), Threads \X Servers, {e}) \in Nat
      /\ Hits(x, Threads, {Holding(e)}) \in Nat
  BY Finite, HitsNat
<1>4. Tabled(e)' = Hits(b, Servers, {e}) /\ Cached(e)' = Hits(Flat(c), Threads \X Servers, {e})
      /\ Held(e)' = Hits(x, Threads, {Holding(e)})
  BY <1>1 DEF Tabled, Cached, Held, Hits, Flat
<1>5. Pending(Owning(e))' \in Nat
  BY PendingIsNext
<1>6. EntryOwners(e)' = Cardinality({s \in Servers : b[s] = e})
                        + Cardinality({p \in Threads \X Servers : c[p[1]][p[2]] = e})
                        + Cardinality({t \in Threads : x[t] = Holding(e)})
                        + Pending(Owning(e))'
  BY <1>1 DEF EntryOwners
<1>7. {s \in Servers : b[s] = e} = {s \in Servers : b[s] \in {e}}
      /\ {t \in Threads : x[t] = Holding(e)} = {t \in Threads : x[t] \in {Holding(e)}}
  OBVIOUS
<1>8. EntryOwners(e)' = Hits(b, Servers, {e}) + Hits(Flat(c), Threads \X Servers, {e})
                        + Hits(x, Threads, {Holding(e)}) + Pending(Owning(e))'
  BY <1>2, <1>6, <1>7 DEF Hits
<1> QED
  BY <1>3, <1>4, <1>5, <1>8

\* The table changes for one server.
LEMMA TabledStep ==
  ASSUME Types, NEW s \in Servers, NEW n, table' = [table EXCEPT ![s] = n]
  PROVE  \A e \in EntryIds : Tabled(e)' = Tabled(e) + Is(n, e) - Is(table[s], e)
<1>1. PICK a, b : a = table /\ b = table'
  OBVIOUS
<1>2. b[s] = n /\ \A j \in Servers : j # s => b[j] = a[j]
  BY <1>1 DEF Types
<1>3. ASSUME NEW e \in EntryIds PROVE Tabled(e)' = Tabled(e) + Is(n, e) - Is(table[s], e)
  <2>1. Hits(b, Servers, {e}) = Hits(a, Servers, {e}) + In(b[s], {e}) - In(a[s], {e})
    <3>1. OnlyAt(Servers, a, b, s)
      BY <1>2 DEF OnlyAt
    <3> QED
      BY <3>1, Finite, HitsExcept
  <2>2. In(b[s], {e}) = Is(n, e) /\ In(a[s], {e}) = Is(table[s], e)
    BY <1>1, <1>2 DEF In, Is
  <2>3. Tabled(e)' = Hits(b, Servers, {e}) /\ Tabled(e) = Hits(a, Servers, {e})
    BY <1>1 DEF Tabled, Hits
  <2> QED
    BY <2>1, <2>2, <2>3
<1> QED
  BY <1>3

\* A cache changes for one server.
LEMMA CachedStep ==
  ASSUME Types, NEW t \in Threads, NEW s \in Servers, NEW n, cache' = [cache EXCEPT ![t][s] = n]
  PROVE  \A e \in EntryIds : Cached(e)' = Cached(e) + Is(n, e) - Is(cache[t][s], e)
<1>1. PICK a, b : a = cache /\ b = cache'
  OBVIOUS
<1>2. b[t][s] = n /\ \A u \in Threads, j \in Servers : u # t \/ j # s => b[u][j] = a[u][j]
  <2>1. cache \in [Threads -> [Servers -> EntryIds \cup {NoEntry}]]
    BY DEF Types
  <2>2. b = [a EXCEPT ![t] = [a[t] EXCEPT ![s] = n]]
    BY <1>1
  <2> QED
    BY <1>1, <2>1, <2>2
<1>3. PICK f, g, p : f = Flat(a) /\ g = Flat(b) /\ p = <<t, s>>
  OBVIOUS
<1>4. p \in Threads \X Servers /\ g[p] = n /\ f[p] = cache[t][s]
  BY <1>1, <1>2, <1>3 DEF Flat
<1>5. ASSUME NEW q \in Threads \X Servers, q # p PROVE g[q] = f[q]
  <2>1. PICK u \in Threads, j \in Servers : q = <<u, j>>
    OBVIOUS
  <2>2. u # t \/ j # s
    BY <1>3, <1>5, <2>1
  <2> QED
    BY <1>2, <1>3, <2>1, <2>2 DEF Flat
<1>6. ASSUME NEW e \in EntryIds PROVE Cached(e)' = Cached(e) + Is(n, e) - Is(cache[t][s], e)
  <2>1. Hits(g, Threads \X Servers, {e}) = Hits(f, Threads \X Servers, {e}) + In(g[p], {e}) - In(f[p], {e})
    <3>1. PICK S : S = Threads \X Servers
      OBVIOUS
    <3>2. OnlyAt(S, f, g, p) /\ p \in S /\ IsFiniteSet(S)
      BY <1>4, <1>5, <3>1, Finite DEF OnlyAt
    <3>3. Hits(g, S, {e}) = Hits(f, S, {e}) + In(g[p], {e}) - In(f[p], {e})
      BY <3>2, HitsExcept
    <3> QED
      BY <3>1, <3>3
  <2>2. In(g[p], {e}) = Is(n, e) /\ In(f[p], {e}) = Is(cache[t][s], e)
    BY <1>4 DEF In, Is
  <2>3. Cached(e)' = Hits(g, Threads \X Servers, {e}) /\ Cached(e) = Hits(f, Threads \X Servers, {e})
    BY <1>1, <1>3 DEF Cached, Hits, Flat
  <2> QED
    BY <2>1, <2>2, <2>3
<1> QED
  BY <1>6

\* A transaction changes.
LEMMA TxnStep ==
  ASSUME Types, NEW t \in Threads, NEW n, txn' = [txn EXCEPT ![t] = n]
  PROVE  /\ \A e \in EntryIds : Held(e)' = Held(e) + Is(n, Holding(e)) - Is(txn[t], Holding(e))
         /\ \A v \in Versions :
              Waiters("config", v)' = Waiters("config", v) + In(n, Waits(v)) - In(txn[t], Waits(v))
<1>1. PICK a, b : a = txn /\ b = txn'
  OBVIOUS
<1>2. b[t] = n /\ \A u \in Threads : u # t => b[u] = a[u]
  BY <1>1 DEF Types
<1>3. ASSUME NEW X PROVE Hits(b, Threads, X) = Hits(a, Threads, X) + In(n, X) - In(txn[t], X)
  <2>1. OnlyAt(Threads, a, b, t)
    BY <1>2 DEF OnlyAt
  <2>2. Hits(b, Threads, X) = Hits(a, Threads, X) + In(b[t], X) - In(a[t], X)
    BY <2>1, Finite, HitsExcept
  <2> QED
    BY <1>1, <1>2, <2>2
<1>4. ASSUME NEW e \in EntryIds
      PROVE  Held(e)' = Held(e) + Is(n, Holding(e)) - Is(txn[t], Holding(e))
  <2>1. Held(e)' = Hits(b, Threads, {Holding(e)}) /\ Held(e) = Hits(a, Threads, {Holding(e)})
    BY <1>1 DEF Held, Hits
  <2>2. In(n, {Holding(e)}) = Is(n, Holding(e)) /\ In(txn[t], {Holding(e)}) = Is(txn[t], Holding(e))
    BY DEF In, Is
  <2> QED
    BY <1>3, <2>1, <2>2
<1>5. ASSUME NEW v \in Versions
      PROVE  Waiters("config", v)' = Waiters("config", v) + In(n, Waits(v)) - In(txn[t], Waits(v))
  <2>1. Waiters("config", v)' = Hits(b, Threads, Waits(v)) /\ Waiters("config", v) = Hits(a, Threads, Waits(v))
    BY <1>1 DEF Waiters, Hits
  <2> QED
    BY <1>3, <2>1
<1> QED
  BY <1>4, <1>5

\* Which transaction holds or waits for what.
LEMMA TxnIs ==
  /\ \A e : Is(NoTxn, Holding(e)) = 0
  /\ \A e, x : Is(Holding(x), Holding(e)) = Is(x, e)
  /\ \A s, v, e : Is(Waiting(s, v), Holding(e)) = 0
  /\ \A v : In(NoTxn, Waits(v)) = 0
  /\ \A e, v : In(Holding(e), Waits(v)) = 0
  /\ \A s \in Servers : \A v, w : In(Waiting(s, v), Waits(w)) = Is(v, w)
<1>1. /\ NoTxn.at = "none" /\ \A e : Holding(e).at = "holding" /\ Holding(e).entry = e
      /\ \A s, v : Waiting(s, v).at = "waiting" /\ Waiting(s, v).version = v
  BY DEF NoTxn, Holding, Waiting
<1> QED
  BY <1>1 DEF Is, In, Waits

\* An entry that somebody owns is in use, and counted.
LEMMA Owned ==
  ASSUME Types, Exact, NEW e \in EntryIds,
         \/ \E s \in Servers : table[s] = e
         \/ \E t \in Threads, s \in Servers : cache[t][s] = e
         \/ \E t \in Threads : txn[t] = Holding(e)
         \/ Pending(Owning(e)) > 0
  PROVE  heap.entry[e].live /\ heap.entry[e].ref >= 1
<1>1. ASSUME NEW s \in Servers, table[s] = e PROVE Tabled(e) # 0
  BY <1>1, Finite, HitsNat DEF Tabled
<1>2. ASSUME NEW t \in Threads, NEW s \in Servers, cache[t][s] = e PROVE Cached(e) # 0
  <2>1. <<t, s>> \in Threads \X Servers /\ Flat(cache)[<<t, s>>] = e
    BY <1>2 DEF Flat
  <2> QED
    BY <2>1, Finite, HitsNat DEF Cached
<1>3. ASSUME NEW t \in Threads, txn[t] = Holding(e) PROVE Held(e) # 0
  BY <1>3, Finite, HitsNat DEF Held
<1>4. Tabled(e) # 0 \/ Cached(e) # 0 \/ Held(e) # 0 \/ Pending(Owning(e)) # 0
  BY <1>1, <1>2, <1>3, PendingIs
<1>5. heap.entry[e].ref >= 1
  BY <1>4, OwnersAre DEF Exact
<1>6. heap \in Heaps
  BY DEF Types
<1> QED
  BY <1>5, <1>6, EntryIs

\* What is owed a reference to version v of k, besides entries.
Owed(k, v) == Current(k, v) + Pending(Versioned(k, v)) + Waiters(k, v)

\* The count of a version is the entries' and the others'.
LEMMA OwedIs ==
  ASSUME Types, NEW k \in Kinds, NEW v \in Versions
  PROVE  /\ heap.refs[k][v] - SettingOwners(k, v) = Balance(heap, k, v) - Owed(k, v)
         /\ Owed(k, v) \in Nat /\ SettingOwners(k, v) \in Nat
         /\ Current(k, v) \in Nat /\ Pending(Versioned(k, v)) \in Nat /\ Waiters(k, v) \in Nat
<1>1. PICK c, u, p, w : /\ c = Current(k, v) /\ u = Cardinality(Using(heap, k, v))
                        /\ p = Pending(Versioned(k, v)) /\ w = Waiters(k, v)
  OBVIOUS
<1>2. c \in Nat /\ u \in Nat
  BY <1>1, UsingNat DEF Current
<1>3. p \in Nat
  BY <1>1, PendingIs
<1>4. w \in Nat
  BY <1>1, Finite, HitsNat DEF Waiters
<1>5. {t \in Threads : \E s \in Servers : txn[t] = Waiting(s, v)} = {t \in Threads : txn[t] \in Waits(v)}
  BY DEF Waits
<1>6. SettingOwners(k, v) = c + u + p + w
  BY <1>1, <1>5 DEF SettingOwners, Current, Using, Versioned, Waiters, Hits
<1>7. heap.refs[k][v] \in Int
  BY BalanceInt DEF Types
<1>8. Balance(heap, k, v) = heap.refs[k][v] - u /\ Owed(k, v) = c + p + w
  BY <1>1 DEF Balance, Owed
<1> QED
  BY <1>1, <1>2, <1>3, <1>4, <1>6, <1>7, <1>8

\* The same after a step.
LEMMA OwedIsNext ==
  ASSUME Types', NEW k \in Kinds, NEW v \in Versions
  PROVE  /\ heap'.refs[k][v] - SettingOwners(k, v)' = Balance(heap', k, v) - Owed(k, v)'
         /\ Owed(k, v)' \in Nat
         /\ Current(k, v)' \in Nat /\ Pending(Versioned(k, v))' \in Nat /\ Waiters(k, v)' \in Nat
<1>1. PICK h, x : h = heap' /\ x = txn'
  OBVIOUS
<1>2. PICK c, u, p, w : /\ c = Current(k, v)' /\ u = Cardinality(Using(h, k, v))
                        /\ p = Pending(Versioned(k, v))' /\ w = Waiters(k, v)'
  OBVIOUS
<1>3. c \in Nat /\ u \in Nat
  BY <1>2, UsingNat DEF Current
<1>4. p \in Nat
  BY <1>2, PendingIsNext
<1>5. w = IF k = "config" THEN Hits(x, Threads, Waits(v)) ELSE 0
  BY <1>1, <1>2 DEF Waiters, Hits
<1>6. w \in Nat
  BY <1>5, Finite, HitsNat
<1>7. {t \in Threads : \E s \in Servers : x[t] = Waiting(s, v)} = {t \in Threads : x[t] \in Waits(v)}
  BY DEF Waits
<1>8. SettingOwners(k, v)' = c + Cardinality({e \in EntryIds : h.entry[e].live /\ h.entry[e].setting[k] = v}) + p
         + (IF k = "config" THEN Cardinality({t \in Threads : \E s \in Servers : x[t] = Waiting(s, v)}) ELSE 0)
  BY <1>1, <1>2 DEF SettingOwners, Current, Versioned
<1>9. SettingOwners(k, v)' = c + u + p + w
  BY <1>2, <1>5, <1>7, <1>8 DEF Hits, Using
<1>10. h.refs[k][v] \in Int
  BY <1>1, BalanceInt DEF Types
<1>11. Balance(h, k, v) = h.refs[k][v] - u /\ Owed(k, v)' = c + p + w
  BY <1>2 DEF Balance, Owed
<1>12. h.refs[k][v] - SettingOwners(k, v)' = Balance(h, k, v) - Owed(k, v)' /\ Owed(k, v)' \in Nat
  BY <1>3, <1>4, <1>6, <1>9, <1>10, <1>11
<1> QED
  BY <1>1, <1>2, <1>3, <1>4, <1>6, <1>12

\* What versions are owed changes with their counts.
Balanced == \A k \in Kinds, v \in Versions :
  Balance(heap', k, v) = Balance(heap, k, v) + (Owed(k, v)' - Owed(k, v))

\* Then the counts stay as exact as they were.
LEMMA SettingsKept ==
  ASSUME Types, Types', SettingRefExact, Balanced, cancels' = cancels
  PROVE  SettingRefExact'
<1> SUFFICES ASSUME NEW k \in Kinds, NEW v \in Versions
             PROVE  heap'.refs[k][v] - SettingOwners(k, v)' \in 0 .. (IF k = "config" THEN cancels' ELSE 0)
  BY DEF SettingRefExact
<1>1. heap.refs[k][v] - SettingOwners(k, v) \in 0 .. (IF k = "config" THEN cancels ELSE 0)
  BY DEF SettingRefExact
<1>2. heap.refs[k][v] - SettingOwners(k, v) = Balance(heap, k, v) - Owed(k, v) /\ Owed(k, v) \in Nat
  BY OwedIs
<1>3. heap'.refs[k][v] - SettingOwners(k, v)' = Balance(heap', k, v) - Owed(k, v)' /\ Owed(k, v)' \in Nat
  BY OwedIsNext
<1>4. Balance(heap, k, v) \in Int
  BY BalanceInt DEF Types
<1>5. Balance(heap', k, v) = Balance(heap, k, v) + (Owed(k, v)' - Owed(k, v))
  BY DEF Balanced
<1>6. Balance(heap', k, v) - Owed(k, v)' = Balance(heap, k, v) - Owed(k, v)
  BY <1>2, <1>3, <1>4, <1>5
<1> QED
  BY <1>1, <1>2, <1>3, <1>6

\* When only tasks move, so does what is owed.
LEMMA OwedTasks ==
  ASSUME Types, Types', is_inited' = is_inited, global' = global, txn' = txn,
         NEW k \in Kinds, NEW v \in Versions
  PROVE  Owed(k, v)' - Owed(k, v) = Pending(Versioned(k, v))' - Pending(Versioned(k, v))
<1>1. Current(k, v)' = Current(k, v) /\ Waiters(k, v)' = Waiters(k, v)
  BY DEF Current, Waiters, Hits
<1>2. /\ Owed(k, v) = Current(k, v) + Pending(Versioned(k, v)) + Waiters(k, v)
      /\ Owed(k, v)' = Current(k, v)' + Pending(Versioned(k, v))' + Waiters(k, v)'
  BY DEF Owed
<1> QED
  BY <1>1, <1>2, OwedIs, OwedIsNext

\* The tasks that are about entries stay.
TasksUnmoved == \A e \in EntryIds :
  /\ Pending(Owning(e))' = Pending(Owning(e))
  /\ Pending(Insertions(e))' = Pending(Insertions(e))
  /\ Pending({Retire(e)})' = Pending({Retire(e)})
HeldUnmoved == \A e \in EntryIds : Held(e)' = Held(e)

\* Entries whose owners stay are as they were.
LEMMA EntriesKept ==
  ASSUME Types, Types', Exact, NewOnes, CacheCoherent, TasksUnmoved, HeldUnmoved,
         table' = table, cache' = cache, \A e \in EntryIds : SameEntry(heap', heap, e)
  PROVE  Exact' /\ NewOnes' /\ CacheCoherent'
<1>1. ASSUME NEW e \in EntryIds PROVE heap'.entry[e].ref = EntryOwners(e)'
  <2>1. Tabled(e)' = Tabled(e) /\ Cached(e)' = Cached(e)
    BY DEF Tabled, Cached, Hits, Flat
  <2>2. Held(e)' = Held(e) /\ Pending(Owning(e))' = Pending(Owning(e))
    BY DEF TasksUnmoved, HeldUnmoved
  <2>3. EntryOwners(e)' = EntryOwners(e)
    BY <2>1, <2>2, OwnersAre, OwnersAreNext
  <2> QED
    BY <2>3 DEF Exact, SameEntry
<1>2. Exact'
  BY <1>1 DEF Exact
<1>3. NewOnes'
  BY DEF NewOnes, TasksUnmoved, SameEntry
<1>4. ASSUME NEW t \in Threads, NEW s \in Servers, CacheHit(t, s)'
      PROVE  table'[s] = cache'[t][s] \/ (Pending({Retire(cache[t][s])}) > 0)'
  <2>1. cache[t][s] \in EntryIds \cup {NoEntry} /\ cache[t][s] # NoEntry
    BY <1>4 DEF Types, CacheHit
  <2>2. CacheHit(t, s)
    BY <1>4, <2>1 DEF CacheHit, SameEntry
  <2>3. PICK x : x = cache[t][s]
    OBVIOUS
  <2>4. table[s] = x \/ Pending({Retire(x)}) > 0
    BY <2>2, <2>3 DEF CacheCoherent
  <2>5. x \in EntryIds /\ Pending({Retire(x)})' = Pending({Retire(x)})
    BY <2>1, <2>3 DEF TasksUnmoved
  <2>6. cache'[t][s] = x
    BY <2>3
  <2> QED
    BY <2>3, <2>4, <2>5, <2>6
<1>5. CacheCoherent'
  BY <1>4 DEF CacheCoherent
<1> QED
  BY <1>2, <1>3, <1>5

\* How the holders of an entry may change without hiding a removal.
Marks == \A e \in EntryIds : heap.entry[e].deleted => heap'.entry[e].deleted \/ ~heap'.entry[e].live
Retires == \A e \in EntryIds :
  heap'.entry[e].deleted \/ Pending({Retire(e)})' >= Pending({Retire(e)})
Removes == \A s \in Servers, e \in EntryIds :
  table[s] = e /\ table'[s] # e => Pending({Retire(e)})' > 0
Fills == \A t \in Threads, s \in Servers :
  cache'[t][s] = cache[t][s] \/ cache'[t][s] = NoEntry \/ cache'[t][s] = table'[s]

\* What a cache holds after a step is in use.
LEMMA OwnedNext ==
  ASSUME Types', Exact', NEW t \in Threads, NEW s \in Servers, NEW e \in EntryIds, cache'[t][s] = e
  PROVE  heap'.entry[e].live
<1>1. PICK c : c = cache'
  OBVIOUS
<1>2. <<t, s>> \in Threads \X Servers /\ Flat(c)[<<t, s>>] = e
  BY <1>1 DEF Flat
<1>3. Hits(Flat(c), Threads \X Servers, {e}) # 0
  BY <1>2, Finite, HitsNat
<1>4. Cached(e)' # 0
  BY <1>1, <1>3 DEF Cached, Hits, Flat
<1>5. heap'.entry[e].ref = EntryOwners(e)'
  BY DEF Exact
<1>6. heap'.entry[e].ref # 0
  <2>1. PICK b, d, x, p : b = Tabled(e)' /\ d = Cached(e)' /\ x = Held(e)' /\ p = Pending(Owning(e))'
    OBVIOUS
  <2>2. b \in Nat /\ d \in Nat /\ x \in Nat /\ p \in Nat /\ EntryOwners(e)' = b + d + x + p
    BY <2>1, OwnersAreNext
  <2>3. d # 0
    BY <1>4, <2>1
  <2> QED
    BY <1>5, <2>2, <2>3
<1>7. PICK h : h = heap'
  OBVIOUS
<1>8. h \in Heaps
  BY <1>7 DEF Types
<1> QED
  BY <1>6, <1>7, <1>8, EntryIs

\* Then no cache hides one.
LEMMA CoherentStep ==
  ASSUME Types, Types', Exact', CacheCoherent, Marks, Retires, Removes, Fills
  PROVE  CacheCoherent'
<1>1. ASSUME NEW t \in Threads, NEW s \in Servers, CacheHit(t, s)'
      PROVE  table'[s] = cache'[t][s] \/ (Pending({Retire(cache[t][s])}) > 0)'
  <2>1. PICK x : x = cache'[t][s]
    OBVIOUS
  <2>2. x \in EntryIds /\ ~heap'.entry[x].deleted
    BY <1>1, <2>1 DEF CacheHit, Types
  <2>3. heap'.entry[x].live
    BY <2>1, <2>2, OwnedNext
  <2>4. CASE x = table'[s]
    BY <2>1, <2>4
  <2>5. CASE x # table'[s]
    <3>1. cache[t][s] = x
      BY <2>1, <2>2, <2>5 DEF Fills, EntryIds, NoEntry
    <3>2. ~heap.entry[x].deleted
      BY <2>2, <2>3 DEF Marks
    <3>3. CacheHit(t, s)
      BY <3>1, <3>2, <2>2 DEF CacheHit, EntryIds, NoEntry
    <3>4. table[s] = x \/ Pending({Retire(x)}) > 0
      BY <3>1, <3>3 DEF CacheCoherent
    <3>5. CASE table[s] = x
      <4>1. Pending({Retire(x)})' > 0
        BY <2>2, <2>5, <3>5 DEF Removes
      <4> QED
        BY <2>1, <4>1
    <3>6. CASE Pending({Retire(x)}) > 0
      <4>1. Pending({Retire(x)})' >= Pending({Retire(x)})
        BY <2>2 DEF Retires
      <4>2. Pending({Retire(x)})' \in Nat /\ Pending({Retire(x)}) \in Nat
        BY PendingIs, PendingIsNext
      <4>3. Pending({Retire(x)})' > 0
        BY <3>6, <4>1, <4>2
      <4> QED
        BY <2>1, <4>3
    <3> QED
      BY <3>4, <3>5, <3>6
  <2> QED
    BY <2>4, <2>5
<1> QED
  BY <1>1 DEF CacheCoherent

-----------------------------------------------------------------------------
(***************************************************************************)
(* Tasks done                                                              *)
(***************************************************************************)

\* The task at the head of an agenda.
LEMMA HeadIs ==
  ASSUME Types, NEW t \in Threads, NEW op, At(t, op)
  PROVE  agenda[t] # <<>> /\ Head(agenda[t]) \in Tasks /\ Head(agenda[t]).op = op
<1>1. agenda[t] \in Seq(Tasks) /\ agenda[t] # <<>> /\ Head(agenda[t]).op = op
  BY DEF Types, At
<1> QED
  BY <1>1, HeadTailProperties

\* A task is done, and no other takes its place.
LEMMA Gone ==
  ASSUME Types, Types', NEW t \in Threads, agenda[t] # <<>>, Continue(t, <<>>), todo' = todo, NEW X
  PROVE  Pending(X)' = Pending(X) - In(Head(agenda[t]), X) /\ Pending(X) \in Nat
<1>1. <<>> \in Seq(Tasks)
  OBVIOUS
<1>2. Pending(X)' = Pending(X) + (Num(<<>>, X) - In(Head(agenda[t]), X))
  BY <1>1, Continued
<1>3. Num(<<>>, X) = 0 /\ In(Head(agenda[t]), X) \in Nat /\ Pending(X) \in Nat
  BY NumEmpty, InNat, PendingIs
<1> QED
  BY <1>2, <1>3

\* One that has nothing to do with entries.
LEMMA TaskDone ==
  ASSUME ManagerInv, Types', NEW t \in Threads, agenda[t] # <<>>, Handles(Head(agenda[t]), 0, 0, 0),
         Continue(t, <<>>), todo' = todo, table' = table, cache' = cache, txn' = txn,
         \A e \in EntryIds : SameEntry(heap', heap, e)
  PROVE  Drops' /\ Answers' /\ Exact' /\ NewOnes' /\ CacheCoherent'
<1>1. Types /\ Drops /\ Answers /\ Exact /\ NewOnes /\ CacheCoherent
  BY DEF ManagerInv
<1>2. <<>> \in Seq(Tasks) /\ Paired(<<>>) /\ Num(<<>>, Lookups) = 0
  BY NumEmpty DEF Paired
<1>3. Drops'
  BY <1>1, <1>2, DropsContinue
<1>4. Answers'
  BY <1>1, <1>2, AnswersContinue
<1>5. ASSUME NEW e \in EntryIds
      PROVE  /\ Pending(Owning(e))' = Pending(Owning(e))
             /\ Pending(Insertions(e))' = Pending(Insertions(e))
             /\ Pending({Retire(e)})' = Pending({Retire(e)})
  <2>1. /\ In(Head(agenda[t]), Owning(e)) = 0 /\ In(Head(agenda[t]), Insertions(e)) = 0
        /\ In(Head(agenda[t]), {Retire(e)}) = 0
    BY DEF Handles, Is, EntryIds
  <2>2. Pending(Owning(e))' = Pending(Owning(e)) - 0 /\ Pending(Owning(e)) \in Nat
    BY <1>1, <2>1, Gone
  <2>3. Pending(Insertions(e))' = Pending(Insertions(e)) - 0 /\ Pending(Insertions(e)) \in Nat
    BY <1>1, <2>1, Gone
  <2>4. Pending({Retire(e)})' = Pending({Retire(e)}) - 0 /\ Pending({Retire(e)}) \in Nat
    BY <1>1, <2>1, Gone
  <2> QED
    BY <2>2, <2>3, <2>4
<1>6. TasksUnmoved
  BY <1>5 DEF TasksUnmoved
<1>7. HeldUnmoved
  BY DEF HeldUnmoved, Held, Hits
<1>8. Exact' /\ NewOnes' /\ CacheCoherent'
  BY <1>1, <1>6, <1>7, EntriesKept
<1> QED
  BY <1>3, <1>4, <1>8

\* The counts of versions are those without p.
Pays(p) == \A k \in Kinds, v \in Versions :
  Balance(heap', k, v) = Balance(heap, k, v) - Is(p, <<k, v>>)

\* A task that gives a reference to a version back.
LEMMA TaskPays ==
  ASSUME ManagerInv, Types', NEW t \in Threads, agenda[t] # <<>>, NEW p, Refers(Head(agenda[t]), p), Pays(p),
         Continue(t, <<>>), todo' = todo, txn' = txn, UNCHANGED unsharedVars
  PROVE  SettingRefExact'
<1>1. Types /\ SettingRefExact
  BY DEF ManagerInv
<1>2. is_inited' = is_inited /\ global' = global /\ cancels' = cancels
  BY DEF unsharedVars
<1>3. ASSUME NEW k \in Kinds, NEW v \in Versions
      PROVE  Balance(heap', k, v) = Balance(heap, k, v) + (Owed(k, v)' - Owed(k, v))
  <2>1. In(Head(agenda[t]), Versioned(k, v)) = Is(p, <<k, v>>)
    BY DEF Refers
  <2>2. Pending(Versioned(k, v))' = Pending(Versioned(k, v)) - Is(p, <<k, v>>) /\ Pending(Versioned(k, v)) \in Nat
    BY <1>1, <2>1, Gone
  <2>3. Owed(k, v)' - Owed(k, v) = Pending(Versioned(k, v))' - Pending(Versioned(k, v))
    BY <1>1, <1>2, OwedTasks
  <2>4. Is(p, <<k, v>>) \in Nat
    BY IsNat
  <2>5. Owed(k, v)' - Owed(k, v) = 0 - Is(p, <<k, v>>)
    BY <2>2, <2>3, <2>4
  <2>6. Balance(heap, k, v) \in Int
    BY <1>1, BalanceInt DEF Types
  <2>7. Balance(heap', k, v) = Balance(heap, k, v) - Is(p, <<k, v>>)
    BY DEF Pays
  <2> QED
    BY <2>4, <2>5, <2>6, <2>7
<1>4. Balanced
  BY <1>3 DEF Balanced
<1> QED
  BY <1>1, <1>2, <1>4, SettingsKept

\* Nothing is no version.
LEMMA NothingIs == \A k \in Kinds : \A v : Is(Nothing, <<k, v>>) = 0
BY DEF Is, Nothing, Kinds

\* The counts stay.
LEMMA PaysNothing ==
  ASSUME Types, \A k \in Kinds, v \in Versions : Balance(heap', k, v) = Balance(heap, k, v)
  PROVE  Pays(Nothing)
<1>1. \A k \in Kinds, v \in Versions : Balance(heap, k, v) \in Int
  BY BalanceInt DEF Types
<1>2. ASSUME NEW k \in Kinds, NEW v \in Versions
      PROVE  Balance(heap', k, v) = Balance(heap, k, v) - Is(Nothing, <<k, v>>)
  <2>1. Is(Nothing, <<k, v>>) = 0
    BY NothingIs
  <2> QED
    BY <1>1, <2>1
<1> QED
  BY <1>2 DEF Pays

\* What the threads' agendas become.
LEMMA AgendaContinues ==
  ASSUME Types, NEW t \in Threads, agenda[t] # <<>>, NEW tasks \in Seq(Tasks), Continue(t, tasks)
  PROVE  agenda' \in [Threads -> Seq(Tasks)]
<1>1. agenda \in [Threads -> Seq(Tasks)] /\ agenda[t] \in Seq(Tasks)
  BY DEF Types
<1>2. Tail(agenda[t]) \in Seq(Tasks)
  BY <1>1, HeadTailProperties
<1>3. tasks \o Tail(agenda[t]) \in Seq(Tasks)
  BY <1>2
<1> QED
  BY <1>1, <1>3 DEF Continue

\* A task is done that leaves most as it is.
LEMMA TypesDone ==
  ASSUME Types, NEW t \in Threads, agenda[t] # <<>>, Continue(t, <<>>), heap' \in Heaps,
         bucket_mutex' \in Threads \cup {NoThread}, rw_lock' \in Threads \cup {NoThread},
         todo' = todo, table' = table, cache' = cache, txn' = txn, UNCHANGED unsharedVars
  PROVE  Types'
<1>1. <<>> \in Seq(Tasks)
  OBVIOUS
<1>2. agenda' \in [Threads -> Seq(Tasks)]
  BY <1>1, AgendaContinues
<1> QED
  BY <1>2 DEF Types, unsharedVars

\* MUTEX_RELEASE
LEMMA ReleaseBucketKeeps ==
  ASSUME ManagerInv, NEW t \in Threads, ReleaseBucket(t)
  PROVE  ManagerInv'
<1>1. /\ At(t, "unlock") /\ Continue(t, <<>>) /\ bucket_mutex' = NoThread
      /\ rw_lock' = rw_lock /\ todo' = todo /\ table' = table /\ cache' = cache /\ txn' = txn
      /\ heap' = heap /\ UNCHANGED unsharedVars
  BY DEF ReleaseBucket
<1>2. Types /\ heap \in Heaps /\ rw_lock \in Threads \cup {NoThread}
  BY DEF ManagerInv, Types
<1>3. agenda[t] # <<>> /\ Head(agenda[t]) \in Tasks /\ Head(agenda[t]).op = "unlock"
  BY <1>1, <1>2, HeadIs
<1>4. Handles(Head(agenda[t]), 0, 0, 0) /\ Refers(Head(agenda[t]), Nothing)
  BY <1>3, TaskIs, HandlesWhat, RefersWhat
<1>5. Types'
  BY <1>1, <1>2, <1>3, TypesDone
<1>6. \A e \in EntryIds : SameEntry(heap', heap, e)
  BY <1>1 DEF SameEntry
<1>7. Drops' /\ Answers' /\ Exact' /\ NewOnes' /\ CacheCoherent'
  BY <1>1, <1>3, <1>4, <1>5, <1>6, TaskDone
<1>8. Pays(Nothing)
  <2>1. \A k \in Kinds, v \in Versions : Balance(heap', k, v) = Balance(heap, k, v)
    BY <1>1
  <2> QED
    BY <1>2, <2>1, PaysNothing
<1>9. SettingRefExact'
  BY <1>1, <1>3, <1>4, <1>5, <1>8, TaskPays
<1> QED
  BY <1>5, <1>7, <1>9 DEF ManagerInv

\* revalidate_server() for an entry whose state changes.
LEMMA SetServerStateKeeps ==
  ASSUME ManagerInv, NEW t \in Threads, SetServerState(t)
  PROVE  ManagerInv'
<1>1. Types /\ Exact /\ heap \in Heaps /\ rw_lock \in Threads \cup {NoThread}
      /\ bucket_mutex \in Threads \cup {NoThread}
  BY DEF ManagerInv, Types
<1>2. At(t, "revalidate_server")
  BY DEF SetServerState
<1>3. agenda[t] # <<>> /\ Head(agenda[t]) \in Tasks /\ Head(agenda[t]).op = "revalidate_server"
  BY <1>1, <1>2, HeadIs
<1>4. PICK s \in Servers, st \in States : Head(agenda[t]) = Revalidate(s, st)
  BY <1>3, TaskIs
<1>5. Head(agenda[t]).server = s /\ Head(agenda[t]).state = st
  BY <1>4, TaskOp
<1>6. PICK e : e = table[s]
  OBVIOUS
<1>7. /\ e # NoEntry /\ heap' = WithState(heap, e, st) /\ Continue(t, <<>>)
      /\ bucket_mutex' = bucket_mutex /\ rw_lock' = rw_lock /\ todo' = todo /\ table' = table
      /\ cache' = cache /\ txn' = txn /\ UNCHANGED unsharedVars
  BY <1>5, <1>6 DEF SetServerState, WithState
<1>8. e \in EntryIds
  BY <1>1, <1>6, <1>7 DEF Types
<1>9. heap.entry[e].live
  BY <1>1, <1>6, <1>8, Owned
<1>10. /\ heap' \in Heaps
       /\ \A k \in Kinds, v \in Versions : Balance(heap', k, v) = Balance(heap, k, v)
       /\ \A x \in EntryIds : SameEntry(heap', heap, x)
  <2>1. PICK h, g : h = heap /\ g = heap'
    OBVIOUS
  <2>2. h \in Heaps /\ h.entry[e].live /\ g = WithState(h, e, st)
    BY <1>1, <1>7, <1>9, <2>1
  <2>3. /\ g \in Heaps /\ \A k \in Kinds, v \in Versions : Balance(g, k, v) = Balance(h, k, v)
        /\ \A x \in EntryIds : SameEntry(g, h, x)
    BY <1>8, <2>2, StateIs
  <2> QED
    BY <2>1, <2>3
<1>11. Handles(Head(agenda[t]), 0, 0, 0) /\ Refers(Head(agenda[t]), Nothing)
  BY <1>4, HandlesWhat, RefersWhat
<1>12. Types'
  BY <1>1, <1>3, <1>7, <1>10, TypesDone
<1>13. Drops' /\ Answers' /\ Exact' /\ NewOnes' /\ CacheCoherent'
  BY <1>3, <1>7, <1>10, <1>11, <1>12, TaskDone
<1>14. Pays(Nothing)
  BY <1>1, <1>10, PaysNothing
<1>15. SettingRefExact'
  BY <1>3, <1>7, <1>11, <1>12, <1>14, TaskPays
<1> QED
  BY <1>12, <1>13, <1>15 DEF ManagerInv

\* "need not add deleted server"
LEMMA SkipDeletedServerKeeps ==
  ASSUME ManagerInv, NEW t \in Threads, SkipDeletedServer(t)
  PROVE  ManagerInv'
<1>1. Types /\ heap \in Heaps /\ rw_lock \in Threads \cup {NoThread}
      /\ bucket_mutex \in Threads \cup {NoThread}
  BY DEF ManagerInv, Types
<1>2. /\ At(t, "revalidate_server") /\ Continue(t, <<>>) /\ bucket_mutex' = bucket_mutex
      /\ rw_lock' = rw_lock /\ todo' = todo /\ table' = table /\ cache' = cache /\ txn' = txn
      /\ heap' = heap /\ UNCHANGED unsharedVars
  BY DEF SkipDeletedServer
<1>3. agenda[t] # <<>> /\ Head(agenda[t]) \in Tasks /\ Head(agenda[t]).op = "revalidate_server"
  BY <1>1, <1>2, HeadIs
<1>4. Handles(Head(agenda[t]), 0, 0, 0) /\ Refers(Head(agenda[t]), Nothing)
  BY <1>3, TaskIs, HandlesWhat, RefersWhat
<1>5. Types'
  BY <1>1, <1>2, <1>3, TypesDone
<1>6. \A e \in EntryIds : SameEntry(heap', heap, e)
  BY <1>2 DEF SameEntry
<1>7. Drops' /\ Answers' /\ Exact' /\ NewOnes' /\ CacheCoherent'
  BY <1>2, <1>3, <1>4, <1>5, <1>6, TaskDone
<1>8. \A k \in Kinds, v \in Versions : Balance(heap', k, v) = Balance(heap, k, v)
  BY <1>2
<1>9. Pays(Nothing)
  BY <1>1, <1>8, PaysNothing
<1>10. SettingRefExact'
  BY <1>2, <1>3, <1>4, <1>5, <1>9, TaskPays
<1> QED
  BY <1>5, <1>7, <1>10 DEF ManagerInv

\* A reference to a version is given back.
LEMMA PutPays ==
  ASSUME Types, NEW k \in Kinds, NEW v \in Versions, heap' = PutSetting(heap, k, v)
  PROVE  heap' \in Heaps /\ Pays(<<k, v>>) /\ \A e \in EntryIds : SameEntry(heap', heap, e)
<1>1. PICK h, g : h = heap /\ g = heap'
  OBVIOUS
<1>2. h \in Heaps /\ g = PutSetting(h, k, v)
  BY <1>1 DEF Types
<1>3. /\ g \in Heaps /\ g.entry = h.entry
      /\ \A j \in Kinds, w \in Versions : Balance(g, j, w) = Balance(h, j, w) - Of(k, v, j, w)
  BY <1>2, PutIs
<1>4. \A j, w : Of(k, v, j, w) = Is(<<k, v>>, <<j, w>>)
  BY DEF Of, Is
<1>5. Pays(<<k, v>>)
  BY <1>1, <1>3, <1>4 DEF Pays
<1>6. \A e \in EntryIds : SameEntry(heap', heap, e)
  BY <1>1, <1>3 DEF SameEntry
<1> QED
  BY <1>1, <1>3, <1>5, <1>6

\* A call gives a version back.
LEMMA DropSettingKeeps ==
  ASSUME ManagerInv, NEW t \in Threads, DropSetting(t)
  PROVE  ManagerInv'
<1>1. Types /\ rw_lock \in Threads \cup {NoThread} /\ bucket_mutex \in Threads \cup {NoThread}
  BY DEF ManagerInv, Types
<1>2. At(t, "put")
  BY DEF DropSetting
<1>3. agenda[t] # <<>> /\ Head(agenda[t]) \in Tasks /\ Head(agenda[t]).op = "put"
  BY <1>1, <1>2, HeadIs
<1>4. PICK k \in Kinds, v \in Versions : Head(agenda[t]) = Put(k, v)
  BY <1>3, TaskIs
<1>5. Head(agenda[t]).kind = k /\ Head(agenda[t]).version = v
  BY <1>4, TaskOp
<1>6. /\ heap' = PutSetting(heap, k, v) /\ Continue(t, <<>>)
      /\ bucket_mutex' = bucket_mutex /\ rw_lock' = rw_lock /\ todo' = todo /\ table' = table
      /\ cache' = cache /\ txn' = txn /\ UNCHANGED unsharedVars
  BY <1>5 DEF DropSetting
<1>7. heap' \in Heaps /\ Pays(<<k, v>>) /\ \A e \in EntryIds : SameEntry(heap', heap, e)
  BY <1>1, <1>6, PutPays
<1>8. Handles(Head(agenda[t]), 0, 0, 0) /\ Refers(Head(agenda[t]), <<k, v>>)
  BY <1>4, HandlesWhat, RefersWhat
<1>9. Types'
  BY <1>1, <1>3, <1>6, <1>7, TypesDone
<1>10. Drops' /\ Answers' /\ Exact' /\ NewOnes' /\ CacheCoherent'
  BY <1>3, <1>6, <1>7, <1>8, <1>9, TaskDone
<1>11. SettingRefExact'
  BY <1>3, <1>6, <1>7, <1>8, <1>9, TaskPays
<1> QED
  BY <1>9, <1>10, <1>11 DEF ManagerInv

\* The writer leaves rw_lock_.
LEMMA ReturnFromUpdateKeeps ==
  ASSUME ManagerInv, NEW t \in Threads, ReturnFromUpdate(t)
  PROVE  ManagerInv'
<1>1. Types /\ bucket_mutex \in Threads \cup {NoThread}
  BY DEF ManagerInv, Types
<1>2. At(t, "end_update")
  BY DEF ReturnFromUpdate
<1>3. agenda[t] # <<>> /\ Head(agenda[t]) \in Tasks /\ Head(agenda[t]).op = "end_update"
  BY <1>1, <1>2, HeadIs
<1>4. PICK k \in Kinds, v \in Versions : Head(agenda[t]) = EndUpdate(k, v)
  BY <1>3, TaskIs
<1>5. Head(agenda[t]).kind = k /\ Head(agenda[t]).version = v
  BY <1>4, TaskOp
<1>6. /\ heap' = PutSetting(heap, k, v) /\ Continue(t, <<>>) /\ rw_lock' = NoThread
      /\ bucket_mutex' = bucket_mutex /\ todo' = todo /\ table' = table
      /\ cache' = cache /\ txn' = txn /\ UNCHANGED unsharedVars
  BY <1>5 DEF ReturnFromUpdate
<1>7. heap' \in Heaps /\ Pays(<<k, v>>) /\ \A e \in EntryIds : SameEntry(heap', heap, e)
  BY <1>1, <1>6, PutPays
<1>8. Handles(Head(agenda[t]), 0, 0, 0) /\ Refers(Head(agenda[t]), <<k, v>>)
  BY <1>4, HandlesWhat, RefersWhat
<1>9. Types'
  BY <1>1, <1>3, <1>6, <1>7, TypesDone
<1>10. Drops' /\ Answers' /\ Exact' /\ NewOnes' /\ CacheCoherent'
  BY <1>3, <1>6, <1>7, <1>8, <1>9, TaskDone
<1>11. SettingRefExact'
  BY <1>3, <1>6, <1>7, <1>8, <1>9, TaskPays
<1> QED
  BY <1>9, <1>10, <1>11 DEF ManagerInv

\* revalidate_bucket_config(), revalidate_bucket_zone()
LEMMA RevalidateBucketKeeps ==
  ASSUME ManagerInv, NEW t \in Threads, RevalidateBucket(t)
  PROVE  ManagerInv'
<1>1. Types /\ Exact /\ rw_lock \in Threads \cup {NoThread} /\ bucket_mutex \in Threads \cup {NoThread}
      /\ heap \in Heaps
  BY DEF ManagerInv, Types
<1>2. At(t, "revalidate_bucket")
  BY DEF RevalidateBucket
<1>3. agenda[t] # <<>> /\ Head(agenda[t]) \in Tasks /\ Head(agenda[t]).op = "revalidate_bucket"
  BY <1>1, <1>2, HeadIs
<1>4. PICK k \in Kinds, v \in Versions : Head(agenda[t]) = Bucket(k, v)
  BY <1>3, TaskIs
<1>5. Head(agenda[t]).kind = k /\ Head(agenda[t]).version = v
  BY <1>4, TaskOp
<1>6. PICK es : es = {table[s] : s \in Servers} \ {NoEntry}
  OBVIOUS
<1>7. PICK f : f = ReplaceSetting(heap, es, k, v)
  OBVIOUS
<1>8. /\ heap' = PutSetting(f, k, v) /\ Continue(t, <<>>)
      /\ bucket_mutex' = bucket_mutex /\ rw_lock' = rw_lock /\ todo' = todo /\ table' = table
      /\ cache' = cache /\ txn' = txn /\ UNCHANGED unsharedVars
  BY <1>5, <1>6, <1>7 DEF RevalidateBucket
<1>9. es \in SUBSET EntryIds /\ \A e \in es : heap.entry[e].live
  <2>1. es \in SUBSET EntryIds
    BY <1>1, <1>6 DEF Types
  <2>2. ASSUME NEW e \in es PROVE heap.entry[e].live
    <3>1. e \in EntryIds /\ \E s \in Servers : table[s] = e
      BY <1>6, <2>1
    <3> QED
      BY <1>1, <3>1, Owned
  <2> QED
    BY <2>1, <2>2
<1>10. PICK h, g : h = heap /\ g = heap'
  OBVIOUS
<1>11. /\ f \in Heaps /\ \A j \in Kinds, w \in Versions : Balance(f, j, w) = Balance(h, j, w)
       /\ \A e \in EntryIds : SameEntry(f, h, e)
  <2>1. h \in Heaps /\ AllLive(h, es) /\ f = ReplaceSetting(h, es, k, v)
    BY <1>1, <1>7, <1>9, <1>10 DEF AllLive
  <2> QED
    BY <2>1, ReplaceIs
<1>12. /\ g \in Heaps /\ g.entry = f.entry
       /\ \A j \in Kinds, w \in Versions : Balance(g, j, w) = Balance(f, j, w) - Of(k, v, j, w)
  <2>1. f \in Heaps /\ g = PutSetting(f, k, v)
    BY <1>8, <1>10, <1>11
  <2> QED
    BY <2>1, PutIs
<1>13. \A j, w : Of(k, v, j, w) = Is(<<k, v>>, <<j, w>>)
  BY DEF Of, Is
<1>14. Pays(<<k, v>>)
  BY <1>10, <1>11, <1>12, <1>13 DEF Pays
<1>15. heap' \in Heaps /\ \A e \in EntryIds : SameEntry(heap', heap, e)
  BY <1>10, <1>11, <1>12 DEF SameEntry
<1>16. Handles(Head(agenda[t]), 0, 0, 0) /\ Refers(Head(agenda[t]), <<k, v>>)
  BY <1>4, HandlesWhat, RefersWhat
<1>17. Types'
  BY <1>1, <1>3, <1>8, <1>15, TypesDone
<1>18. Drops' /\ Answers' /\ Exact' /\ NewOnes' /\ CacheCoherent'
  BY <1>3, <1>8, <1>15, <1>16, <1>17, TaskDone
<1>19. SettingRefExact'
  BY <1>3, <1>8, <1>14, <1>16, <1>17, TaskPays
<1> QED
  BY <1>17, <1>18, <1>19 DEF ManagerInv

\* The count of an entry changes with its owners.
Counted == \A e \in EntryIds :
  heap'.entry[e].ref = heap.entry[e].ref + (Tabled(e)' - Tabled(e)) + (Cached(e)' - Cached(e))
                       + (Held(e)' - Held(e)) + (Pending(Owning(e))' - Pending(Owning(e)))

\* Then it stays exact.
LEMMA ExactKept ==
  ASSUME Types, Types', Exact, Counted
  PROVE  Exact'
<1>1. ASSUME NEW e \in EntryIds PROVE heap'.entry[e].ref = EntryOwners(e)'
  <2>1. PICK a, b, c, d : /\ a = Tabled(e) /\ b = Cached(e) /\ c = Held(e) /\ d = Pending(Owning(e))
    OBVIOUS
  <2>2. PICK i, j, k, l : /\ i = Tabled(e)' /\ j = Cached(e)' /\ k = Held(e)' /\ l = Pending(Owning(e))'
    OBVIOUS
  <2>3. a \in Nat /\ b \in Nat /\ c \in Nat /\ d \in Nat /\ heap.entry[e].ref = a + b + c + d
    BY <2>1, OwnersAre DEF Exact
  <2>4. i \in Nat /\ j \in Nat /\ k \in Nat /\ l \in Nat /\ EntryOwners(e)' = i + j + k + l
    BY <2>2, OwnersAreNext
  <2>5. heap'.entry[e].ref = heap.entry[e].ref + (i - a) + (j - b) + (k - c) + (l - d)
    BY <2>1, <2>2 DEF Counted
  <2> QED
    BY <2>3, <2>4, <2>5
<1> QED
  BY <1>1 DEF Exact

\* New entries that nobody inserts yet stay so.
Keeps == \A e \in EntryIds :
  heap.entry[e].live /\ heap.entry[e].ref = 0 => heap'.entry[e].live /\ heap'.entry[e].ref = 0
InsertionsUnmoved == \A e \in EntryIds : Pending(Insertions(e))' = Pending(Insertions(e))

\* Then new entries are inserted once and owned by nobody before.
LEMMA NewOnesKept ==
  ASSUME NewOnes, Keeps, InsertionsUnmoved
  PROVE  NewOnes'
BY DEF NewOnes, Keeps, InsertionsUnmoved

\* The counts of versions stay.
Settled == \A k \in Kinds, v \in Versions : Balance(heap', k, v) = Balance(heap, k, v)

\* dec_ref() of an entry somebody owns.
LEMMA DecRefStep ==
  ASSUME Types, NEW e \in EntryIds, heap.entry[e].live, heap.entry[e].ref >= 1, heap' = DecRef(heap, e)
  PROVE  /\ heap' \in Heaps /\ Settled /\ Marks /\ Keeps
         /\ \A x \in EntryIds : heap'.entry[x].ref = heap.entry[x].ref - Is(e, x)
<1>1. PICK h, g : h = heap /\ g = heap'
  OBVIOUS
<1>2. h \in Heaps /\ h.entry[e].live /\ h.entry[e].ref >= 1 /\ g = DecRef(h, e)
  BY <1>1 DEF Types
<1>3. /\ g \in Heaps
      /\ \A k \in Kinds, v \in Versions : Balance(g, k, v) = Balance(h, k, v)
      /\ g.entry[e].ref = h.entry[e].ref - 1
      /\ h.entry[e].ref >= 2 => g.entry[e].live /\ (g.entry[e].deleted <=> h.entry[e].deleted)
      /\ h.entry[e].ref = 1 => ~g.entry[e].live
      /\ \A x \in EntryIds : x # e => g.entry[x] = h.entry[x]
  BY <1>2, DecRefIs
<1>4. h.entry[e].ref \in Int
  BY <1>2, EntryIs
<1>5. h.entry[e].ref = 1 \/ h.entry[e].ref >= 2
  BY <1>2, <1>4
<1>6. ASSUME NEW x \in EntryIds
      PROVE  /\ h.entry[x].deleted => g.entry[x].deleted \/ ~g.entry[x].live
             /\ h.entry[x].live /\ h.entry[x].ref = 0 => g.entry[x].live /\ g.entry[x].ref = 0
             /\ g.entry[x].ref = h.entry[x].ref - Is(e, x)
  <2>1. CASE x = e
    BY <1>2, <1>3, <1>4, <1>5, <2>1 DEF Is
  <2>2. CASE x # e
    <3>1. g.entry[x] = h.entry[x] /\ h.entry[x].ref \in Int /\ Is(e, x) = 0
      BY <1>2, <1>3, <2>2, EntryIs DEF Is
    <3>2. g.entry[x].ref = h.entry[x].ref - Is(e, x)
      BY <3>1
    <3> QED
      BY <3>1, <3>2
  <2> QED
    BY <2>1, <2>2
<1>7. Marks /\ Keeps
  BY <1>1, <1>6 DEF Marks, Keeps
<1>8. Settled
  BY <1>1, <1>3 DEF Settled
<1> QED
  BY <1>1, <1>3, <1>6, <1>7, <1>8

\* inc_ref()
LEMMA IncRefStep ==
  ASSUME Types, NEW e \in EntryIds, heap.entry[e].live, heap' = IncRef(heap, e)
  PROVE  /\ heap' \in Heaps /\ Settled /\ Marks
         /\ \A x \in EntryIds : /\ heap'.entry[x].ref = heap.entry[x].ref + Is(e, x)
                                /\ heap'.entry[x].live <=> heap.entry[x].live
<1>1. PICK h, g : h = heap /\ g = heap'
  OBVIOUS
<1>2. h \in Heaps /\ h.entry[e].live /\ g = IncRef(h, e)
  BY <1>1 DEF Types
<1>3. /\ g \in Heaps /\ SameSettings(g, h)
      /\ g.entry[e].ref = h.entry[e].ref + 1
      /\ g.entry[e].live /\ (g.entry[e].deleted <=> h.entry[e].deleted)
      /\ \A x \in EntryIds : x # e => g.entry[x] = h.entry[x]
  BY <1>2, IncRefIs
<1>4. \A k \in Kinds, v \in Versions : Balance(g, k, v) = Balance(h, k, v)
  BY <1>3, BalanceSame
<1>5. ASSUME NEW x \in EntryIds
      PROVE  /\ h.entry[x].deleted => g.entry[x].deleted
             /\ g.entry[x].live <=> h.entry[x].live
             /\ g.entry[x].ref = h.entry[x].ref + Is(e, x)
  <2>1. CASE x = e
    BY <1>2, <1>3, <2>1 DEF Is
  <2>2. CASE x # e
    <3>1. g.entry[x] = h.entry[x] /\ h.entry[x].ref \in Int /\ Is(e, x) = 0
      BY <1>2, <1>3, <2>2, EntryIs DEF Is
    <3>2. g.entry[x].ref = h.entry[x].ref + Is(e, x)
      BY <3>1
    <3> QED
      BY <3>1, <3>2
  <2> QED
    BY <2>1, <2>2
<1>6. Marks
  BY <1>1, <1>5 DEF Marks
<1>7. Settled
  BY <1>1, <1>4 DEF Settled
<1> QED
  BY <1>1, <1>3, <1>5, <1>6, <1>7

\* Tasks that own d and insert i go, one that retires and drops o comes.
Moves(d, i, o) == \A e \in EntryIds :
  /\ Pending(Owning(e))' = Pending(Owning(e)) + Is(o, e) - Is(d, e)
  /\ Pending(Insertions(e))' = Pending(Insertions(e)) - Is(i, e)
  /\ Pending({Retire(e)})' = Pending({Retire(e)}) + Is(o, e)

\* One that owns d, inserts i and retires r goes.
Leaves(d, i, r) == \A e \in EntryIds :
  /\ Pending(Owning(e))' = Pending(Owning(e)) - Is(d, e)
  /\ Pending(Insertions(e))' = Pending(Insertions(e)) - Is(i, e)
  /\ Pending({Retire(e)})' = Pending({Retire(e)}) - Is(r, e)

\* What a task at the head of an agenda leaves when it is done.
LEMMA Went ==
  ASSUME Types, Types', NEW t \in Threads, agenda[t] # <<>>, Continue(t, <<>>), todo' = todo,
         NEW d, NEW i, NEW r, Handles(Head(agenda[t]), d, i, r)
  PROVE  Leaves(d, i, r)
<1> SUFFICES ASSUME NEW e \in EntryIds
             PROVE  /\ Pending(Owning(e))' = Pending(Owning(e)) - Is(d, e)
                    /\ Pending(Insertions(e))' = Pending(Insertions(e)) - Is(i, e)
                    /\ Pending({Retire(e)})' = Pending({Retire(e)}) - Is(r, e)
  BY DEF Leaves
<1>1. /\ In(Head(agenda[t]), Owning(e)) = Is(d, e) /\ In(Head(agenda[t]), Insertions(e)) = Is(i, e)
      /\ In(Head(agenda[t]), {Retire(e)}) = Is(r, e)
  BY DEF Handles
<1>2. Pending(Owning(e))' = Pending(Owning(e)) - Is(d, e)
  BY <1>1, Gone
<1>3. Pending(Insertions(e))' = Pending(Insertions(e)) - Is(i, e)
  BY <1>1, Gone
<1>4. Pending({Retire(e)})' = Pending({Retire(e)}) - Is(r, e)
  BY <1>1, Gone
<1> QED
  BY <1>2, <1>3, <1>4

\* The table stays.
LEMMA TabledSame ==
  ASSUME table' = table
  PROVE  \A e \in EntryIds : Tabled(e)' = Tabled(e)
BY DEF Tabled, Hits

\* The caches.
LEMMA CachedSame ==
  ASSUME cache' = cache
  PROVE  \A e \in EntryIds : Cached(e)' = Cached(e)
BY DEF Cached, Hits, Flat

\* What the transactions hold.
LEMMA HeldSame ==
  ASSUME txn' = txn
  PROVE  \A e \in EntryIds : Held(e)' = Held(e)
BY DEF Held, Hits

\* Caches that stay hold nothing new.
LEMMA TableFills ==
  ASSUME cache' = cache
  PROVE  Fills
BY DEF Fills

\* A table that stays loses nothing.
LEMMA TableStays ==
  ASSUME table' = table
  PROVE  Removes
BY DEF Removes

\* The first task of a thread is under way.
LEMMA HeadPending ==
  ASSUME Types, NEW t \in Threads, agenda[t] # <<>>, NEW X, Head(agenda[t]) \in X
  PROVE  Pending(X) > 0
<1>1. agenda[t] \in Seq(Tasks)
  BY DEF Types
<1>2. 1 \in DOMAIN agenda[t] /\ agenda[t][1] = Head(agenda[t])
  BY <1>1
<1> QED
  BY <1>2, PendingMember

\* set_entry_deleted_state()
LEMMA SetEntryDeletedStateKeeps ==
  ASSUME ManagerInv, NEW t \in Threads, SetEntryDeletedState(t)
  PROVE  ManagerInv'
<1>1. Types /\ Exact /\ Drops /\ Answers /\ NewOnes /\ CacheCoherent /\ rw_lock \in Threads \cup {NoThread}
      /\ bucket_mutex \in Threads \cup {NoThread} /\ heap \in Heaps
  BY DEF ManagerInv, Types
<1>2. At(t, "set_entry_deleted_state")
  BY DEF SetEntryDeletedState
<1>3. agenda[t] # <<>> /\ Head(agenda[t]) \in Tasks /\ Head(agenda[t]).op = "set_entry_deleted_state"
  BY <1>1, <1>2, HeadIs
<1>4. PICK e \in EntryIds : Head(agenda[t]) = Retire(e)
  BY <1>3, TaskIs
<1>5. Head(agenda[t]).entry = e
  BY <1>4, TaskOp
<1>6. /\ heap' = WithDeleted(heap, e) /\ Continue(t, <<>>)
      /\ bucket_mutex' = bucket_mutex /\ rw_lock' = rw_lock /\ todo' = todo /\ table' = table
      /\ cache' = cache /\ txn' = txn /\ UNCHANGED unsharedVars
  BY <1>5 DEF SetEntryDeletedState, WithDeleted
<1>7. heap.entry[e].live
  <2>1. agenda[t] \in Seq(Tasks)
    BY <1>1 DEF Types
  <2>2. 1 \in DOMAIN agenda[t] /\ agenda[t][1] = Retire(e)
    BY <1>3, <1>4, <2>1
  <2>3. 2 \in DOMAIN agenda[t] /\ agenda[t][2] = Drop(e)
    BY <1>1, <2>2 DEF Drops, Paired
  <2>4. agenda[t][2] \in Owning(e)
    BY <2>3 DEF Owning
  <2>5. Pending(Owning(e)) > 0
    BY <1>1, <2>3, <2>4, PendingMember
  <2> QED
    BY <1>1, <2>5, Owned
<1>8. PICK h, g : h = heap /\ g = heap'
  OBVIOUS
<1>9. /\ g \in Heaps
      /\ \A k \in Kinds, v \in Versions : Balance(g, k, v) = Balance(h, k, v)
      /\ g.entry[e].deleted /\ g.entry[e].live /\ g.entry[e].ref = h.entry[e].ref
      /\ \A x \in EntryIds : x # e => g.entry[x] = h.entry[x]
  <2>1. h \in Heaps /\ h.entry[e].live /\ g = WithDeleted(h, e)
    BY <1>1, <1>6, <1>7, <1>8
  <2> QED
    BY <2>1, DeletedIs
<1>10. Handles(Head(agenda[t]), 0, 0, e) /\ Refers(Head(agenda[t]), Nothing)
  BY <1>4, HandlesWhat, RefersWhat
<1>11. Types'
  BY <1>1, <1>3, <1>6, <1>8, <1>9, TypesDone
<1>12. <<>> \in Seq(Tasks) /\ Paired(<<>>) /\ Num(<<>>, Lookups) = 0
  BY NumEmpty DEF Paired
<1>13. Drops'
  BY <1>1, <1>3, <1>6, <1>12, DropsContinue
<1>14. Answers'
  BY <1>1, <1>3, <1>6, <1>12, AnswersContinue
<1>22. Leaves(0, 0, e)
  BY <1>1, <1>3, <1>6, <1>10, <1>11, Went
<1>15. ASSUME NEW x \in EntryIds
       PROVE  /\ Pending(Owning(x))' = Pending(Owning(x)) /\ Pending(Insertions(x))' = Pending(Insertions(x))
              /\ x # e => Pending({Retire(x)})' = Pending({Retire(x)})
  <2>1. /\ Pending(Owning(x))' = Pending(Owning(x)) - Is(0, x)
        /\ Pending(Insertions(x))' = Pending(Insertions(x)) - Is(0, x)
        /\ Pending({Retire(x)})' = Pending({Retire(x)}) - Is(e, x)
    BY <1>22 DEF Leaves
  <2>2. Is(0, x) = 0 /\ (x # e => Is(e, x) = 0)
    BY DEF Is, EntryIds
  <2>3. Pending(Owning(x)) \in Nat /\ Pending(Insertions(x)) \in Nat /\ Pending({Retire(x)}) \in Nat
    BY <1>1, PendingIs
  <2> QED
    BY <2>1, <2>2, <2>3
<1>16. ASSUME NEW x \in EntryIds
       PROVE  heap'.entry[x].ref = EntryOwners(x)'
  <2>1. Tabled(x)' = Tabled(x) /\ Cached(x)' = Cached(x) /\ Held(x)' = Held(x)
    BY <1>6, TabledSame, CachedSame, HeldSame
  <2>2. EntryOwners(x)' = EntryOwners(x)
    BY <1>1, <1>11, <1>15, <2>1, OwnersAre, OwnersAreNext
  <2>3. heap'.entry[x].ref = heap.entry[x].ref
    BY <1>8, <1>9
  <2> QED
    BY <1>1, <2>2, <2>3 DEF Exact
<1>17. Exact'
  BY <1>16 DEF Exact
<1>18. NewOnes'
  <2>1. Keeps
    BY <1>8, <1>9 DEF Keeps
  <2>2. InsertionsUnmoved
    BY <1>15 DEF InsertionsUnmoved
  <2> QED
    BY <1>1, <2>1, <2>2, NewOnesKept
<1>19. CacheCoherent'
  <2>1. Marks
    BY <1>8, <1>9 DEF Marks
  <2>2. Retires
    <3>1. ASSUME NEW x \in EntryIds
          PROVE  heap'.entry[x].deleted \/ Pending({Retire(x)})' >= Pending({Retire(x)})
      <4>1. CASE x = e
        BY <1>8, <1>9, <4>1
      <4>2. CASE x # e
        BY <1>1, <1>15, <4>2, PendingIs
      <4> QED
        BY <4>1, <4>2
    <3> QED
      BY <3>1 DEF Retires
  <2>3. Fills /\ Removes
    BY <1>6, TableFills, TableStays
  <2> QED
    BY <1>1, <1>11, <1>17, <2>1, <2>2, <2>3, CoherentStep
<1>20. Pays(Nothing)
  <2>1. \A k \in Kinds, v \in Versions : Balance(heap', k, v) = Balance(heap, k, v)
    BY <1>8, <1>9
  <2> QED
    BY <1>1, <2>1, PaysNothing
<1>21. SettingRefExact'
  BY <1>3, <1>6, <1>10, <1>11, <1>20, TaskPays
<1> QED
  BY <1>11, <1>13, <1>14, <1>17, <1>18, <1>19, <1>21 DEF ManagerInv

\* The last task of a removal.
LEMMA DropEntryKeeps ==
  ASSUME ManagerInv, NEW t \in Threads, DropEntry(t)
  PROVE  ManagerInv'
<1>1. Types /\ Exact /\ Drops /\ Answers /\ NewOnes /\ CacheCoherent /\ rw_lock \in Threads \cup {NoThread}
      /\ bucket_mutex \in Threads \cup {NoThread} /\ heap \in Heaps
  BY DEF ManagerInv, Types
<1>2. At(t, "dec_ref")
  BY DEF DropEntry
<1>3. agenda[t] # <<>> /\ Head(agenda[t]) \in Tasks /\ Head(agenda[t]).op = "dec_ref"
  BY <1>1, <1>2, HeadIs
<1>4. PICK e \in EntryIds : Head(agenda[t]) = Drop(e)
  BY <1>3, TaskIs
<1>5. Head(agenda[t]).entry = e
  BY <1>4, TaskOp
<1>6. /\ heap' = DecRef(heap, e) /\ Continue(t, <<>>)
      /\ bucket_mutex' = bucket_mutex /\ rw_lock' = rw_lock /\ todo' = todo /\ table' = table
      /\ cache' = cache /\ txn' = txn /\ UNCHANGED unsharedVars
  BY <1>5 DEF DropEntry
<1>7. heap.entry[e].live /\ heap.entry[e].ref >= 1
  <2>1. Head(agenda[t]) \in Owning(e)
    BY <1>4 DEF Owning
  <2>2. Pending(Owning(e)) > 0
    BY <1>1, <1>3, <2>1, HeadPending
  <2> QED
    BY <1>1, <2>2, Owned
<1>8. /\ heap' \in Heaps /\ Settled /\ Marks /\ Keeps
      /\ \A x \in EntryIds : heap'.entry[x].ref = heap.entry[x].ref - Is(e, x)
  BY <1>1, <1>6, <1>7, DecRefStep
<1>10. Handles(Head(agenda[t]), e, 0, 0) /\ Refers(Head(agenda[t]), Nothing)
  BY <1>4, HandlesWhat, RefersWhat
<1>11. Types'
  BY <1>1, <1>3, <1>6, <1>8, TypesDone
<1>12. <<>> \in Seq(Tasks) /\ Paired(<<>>) /\ Num(<<>>, Lookups) = 0
  BY NumEmpty DEF Paired
<1>13. Drops'
  BY <1>1, <1>3, <1>6, <1>12, DropsContinue
<1>14. Answers'
  BY <1>1, <1>3, <1>6, <1>12, AnswersContinue
<1>15. Leaves(e, 0, 0)
  BY <1>1, <1>3, <1>6, <1>10, <1>11, Went
<1>16. ASSUME NEW x \in EntryIds
       PROVE  /\ Pending(Owning(x))' = Pending(Owning(x)) - Is(e, x)
              /\ Pending(Insertions(x))' = Pending(Insertions(x))
              /\ Pending({Retire(x)})' = Pending({Retire(x)})
  <2>1. /\ Pending(Owning(x))' = Pending(Owning(x)) - Is(e, x)
        /\ Pending(Insertions(x))' = Pending(Insertions(x)) - Is(0, x)
        /\ Pending({Retire(x)})' = Pending({Retire(x)}) - Is(0, x)
    BY <1>15 DEF Leaves
  <2>2. Is(0, x) = 0
    BY DEF Is, EntryIds
  <2>3. Pending(Insertions(x)) \in Nat /\ Pending({Retire(x)}) \in Nat
    BY <1>1, PendingIs
  <2> QED
    BY <2>1, <2>2, <2>3
<1>17. Exact'
  <2>1. ASSUME NEW x \in EntryIds
        PROVE  heap'.entry[x].ref = heap.entry[x].ref + (Tabled(x)' - Tabled(x)) + (Cached(x)' - Cached(x))
                                    + (Held(x)' - Held(x)) + (Pending(Owning(x))' - Pending(Owning(x)))
    <3>1. Tabled(x)' = Tabled(x) /\ Cached(x)' = Cached(x) /\ Held(x)' = Held(x)
      BY <1>6, TabledSame, CachedSame, HeldSame
    <3>2. Tabled(x) \in Nat /\ Cached(x) \in Nat /\ Held(x) \in Nat /\ Pending(Owning(x)) \in Nat
      BY <1>1, OwnersAre
    <3>3. Is(e, x) \in Nat /\ heap.entry[x].ref \in Int
      BY <1>1, IsNat, EntryIs
    <3>4. heap'.entry[x].ref = heap.entry[x].ref - Is(e, x)
      BY <1>8
    <3>5. Pending(Owning(x))' = Pending(Owning(x)) - Is(e, x)
      BY <1>16
    <3> QED
      BY <3>1, <3>2, <3>3, <3>4, <3>5
  <2>2. Counted
    BY <2>1 DEF Counted
  <2> QED
    BY <1>1, <1>11, <2>2, ExactKept
<1>18. NewOnes'
  <2>1. InsertionsUnmoved
    BY <1>16 DEF InsertionsUnmoved
  <2> QED
    BY <1>1, <1>8, <2>1, NewOnesKept
<1>19. CacheCoherent'
  <2>1. Retires
    BY <1>1, <1>16, PendingIs DEF Retires
  <2>2. Fills /\ Removes
    BY <1>6, TableFills, TableStays
  <2> QED
    BY <1>1, <1>8, <1>11, <1>17, <2>1, <2>2, CoherentStep
<1>20. Pays(Nothing)
  <2>1. \A k \in Kinds, v \in Versions : Balance(heap', k, v) = Balance(heap, k, v)
    BY <1>8 DEF Settled
  <2> QED
    BY <1>1, <2>1, PaysNothing
<1>21. SettingRefExact'
  BY <1>3, <1>6, <1>10, <1>11, <1>20, TaskPays
<1> QED
  BY <1>11, <1>13, <1>14, <1>17, <1>18, <1>19, <1>21 DEF ManagerInv

\* Neither the counts nor the holders of versions change.
VersionsUnmoved == \A k \in Kinds, v \in Versions : Pending(Versioned(k, v))' = Pending(Versioned(k, v))

\* Then the counts of versions stay exact.
LEMMA SettledTask ==
  ASSUME ManagerInv, Types', Settled, VersionsUnmoved, txn' = txn, is_inited' = is_inited, global' = global,
         cancels' = cancels
  PROVE  SettingRefExact'
<1>1. Types /\ SettingRefExact
  BY DEF ManagerInv
<1>2. ASSUME NEW k \in Kinds, NEW v \in Versions
      PROVE  Balance(heap', k, v) = Balance(heap, k, v) + (Owed(k, v)' - Owed(k, v))
  <2>1. Owed(k, v)' - Owed(k, v) = Pending(Versioned(k, v))' - Pending(Versioned(k, v))
    BY <1>1, OwedTasks
  <2>2. Pending(Versioned(k, v))' = Pending(Versioned(k, v)) /\ Pending(Versioned(k, v)) \in Nat
    BY <1>1, PendingIs DEF VersionsUnmoved
  <2>3. Owed(k, v)' - Owed(k, v) = 0
    BY <2>1, <2>2
  <2>4. Balance(heap', k, v) = Balance(heap, k, v) /\ Balance(heap, k, v) \in Int
    BY <1>1, BalanceInt DEF Types, Settled
  <2> QED
    BY <2>3, <2>4
<1>3. Balanced
  BY <1>2 DEF Balanced
<1> QED
  BY <1>1, <1>3, SettingsKept

\* run_todo_list() takes the requests over.
LEMMA RunTodoListKeeps ==
  ASSUME ManagerInv, NEW t \in Threads, RunTodoList(t)
  PROVE  ManagerInv'
<1>1. Types /\ Exact /\ Drops /\ Answers /\ NewOnes /\ CacheCoherent
  BY DEF ManagerInv
<1>2. /\ At(t, "run_todo_list") /\ Continue(t, todo) /\ todo' = <<>>
      /\ bucket_mutex' = bucket_mutex /\ rw_lock' = rw_lock /\ table' = table
      /\ cache' = cache /\ txn' = txn /\ heap' = heap /\ UNCHANGED unsharedVars
  BY DEF RunTodoList
<1>3. agenda[t] # <<>> /\ Head(agenda[t]) \in Tasks /\ Head(agenda[t]).op = "run_todo_list"
  BY <1>1, <1>2, HeadIs
<1>4. Head(agenda[t]) = Run
  BY <1>3, TaskIs
<1>5. PICK q : q = todo
  OBVIOUS
<1>6. q \in Seq(Requests) /\ Continue(t, q)
  BY <1>1, <1>2, <1>5 DEF Types, Continue
<1>7. q \in Seq(Tasks)
  BY <1>6, RequestsAreTasks
<1>8. Paired(q)
  BY <1>6, PairedTodo
<1>9. Num(q, Lookups) = 0
  <2>1. ASSUME NEW i \in DOMAIN q PROVE q[i] \notin Lookups
    <3>1. q[i] \in Requests
      BY <1>6
    <3> QED
      BY <3>1, TaskOp DEF Requests, Lookups
  <2> QED
    BY <1>7, <2>1, NumZero
<1>10. Drops' /\ agenda' \in [Threads -> Seq(Tasks)]
  BY <1>1, <1>3, <1>6, <1>7, <1>8, DropsContinue
<1>11. Answers'
  BY <1>1, <1>2, <1>3, <1>6, <1>7, <1>9, AnswersContinue
<1>12. Types'
  BY <1>1, <1>2, <1>10 DEF Types, unsharedVars
<1>13. ASSUME NEW X, Run \notin X PROVE Pending(X)' = Pending(X)
  <2>1. agenda[t] \in Seq(Tasks) /\ agenda \in [Threads -> Seq(Tasks)]
    BY <1>1 DEF Types
  <2>2. agenda'[t] = q \o Tail(agenda[t]) /\ \A u \in Threads : u # t => agenda'[u] = agenda[u]
    BY <1>6, <2>1 DEF Continue
  <2>3. /\ Num(agenda[t], X) = In(Head(agenda[t]), X) + Num(Tail(agenda[t]), X)
        /\ Tail(agenda[t]) \in Seq(Tasks)
    BY <1>3, <2>1, NumHead
  <2>4. Num(q \o Tail(agenda[t]), X) = Num(q, X) + Num(Tail(agenda[t]), X)
    BY <1>7, <2>3, NumConcat
  <2>5. Num(Tail(agenda[t]), X) \in Nat /\ Num(q, X) \in Nat
    BY <1>7, <2>3, NumNat
  <2>6. In(Head(agenda[t]), X) = 0
    BY <1>4, <1>13 DEF In
  <2>7. Pending(X)' = Pending(X) + (Num(agenda'[t], X) - Num(agenda[t], X)) + (Num(todo', X) - Num(todo, X))
    BY <1>1, <1>12, <2>2, PendingStep
  <2>8. Num(todo', X) = 0 /\ Num(todo, X) = Num(q, X)
    BY <1>2, <1>5, NumEmpty
  <2>9. Num(agenda'[t], X) - Num(agenda[t], X) = Num(q, X)
    BY <2>2, <2>3, <2>4, <2>5, <2>6
  <2>10. Pending(X) \in Nat
    BY <1>1, PendingIs
  <2> QED
    BY <2>5, <2>7, <2>8, <2>9, <2>10
<1>14. TasksUnmoved
  <2>1. ASSUME NEW e \in EntryIds
        PROVE  Run \notin Owning(e) /\ Run \notin Insertions(e) /\ Run \notin {Retire(e)}
    BY TaskOp DEF Owning, Insertions
  <2> QED
    BY <1>13, <2>1 DEF TasksUnmoved
<1>15. VersionsUnmoved
  <2>1. ASSUME NEW k \in Kinds, NEW v \in Versions PROVE Run \notin Versioned(k, v)
    BY TaskOp DEF Versioned
  <2> QED
    BY <1>13, <2>1 DEF VersionsUnmoved
<1>16. HeldUnmoved /\ \A e \in EntryIds : SameEntry(heap', heap, e)
  BY <1>2, HeldSame DEF HeldUnmoved, SameEntry
<1>17. Exact' /\ NewOnes' /\ CacheCoherent'
  BY <1>1, <1>2, <1>12, <1>14, <1>16, EntriesKept
<1>18. Settled
  BY <1>2 DEF Settled
<1>19. SettingRefExact'
  BY <1>2, <1>12, <1>15, <1>18, SettledTask DEF unsharedVars
<1> QED
  BY <1>10, <1>11, <1>12, <1>17, <1>19 DEF ManagerInv

\* A thread goes on by retiring what it took out of the table, if anything.
Retiring(old) == IF old = NoEntry THEN <<>> ELSE <<Retire(old), Drop(old)>>

\* What these tasks mean.
LEMMA RetiringIs ==
  ASSUME NEW old \in EntryIds \cup {NoEntry}
  PROVE  /\ Retiring(old) \in Seq(Tasks) /\ Paired(Retiring(old)) /\ Num(Retiring(old), Lookups) = 0
         /\ \A e \in EntryIds : /\ Num(Retiring(old), Owning(e)) = Is(old, e)
                                /\ Num(Retiring(old), Insertions(e)) = 0
                                /\ Num(Retiring(old), {Retire(e)}) = Is(old, e)
         /\ \A k \in Kinds, v \in Versions : Num(Retiring(old), Versioned(k, v)) = 0
<1>1. CASE old = NoEntry
  <2>1. Retiring(old) = <<>>
    BY <1>1 DEF Retiring
  <2>2. \A X : Num(Retiring(old), X) = 0
    BY <2>1, NumEmpty
  <2>3. \A e \in EntryIds : Is(old, e) = 0
    BY <1>1 DEF Is, EntryIds, NoEntry
  <2>4. Retiring(old) \in Seq(Tasks) /\ Paired(Retiring(old))
    BY <2>1 DEF Paired
  <2> QED
    BY <2>2, <2>3, <2>4
<1>2. CASE old \in EntryIds
  <2>1. Retiring(old) = <<Retire(old), Drop(old)>>
    BY <1>2 DEF Retiring, EntryIds, NoEntry
  <2>2. Retire(old) \in Tasks /\ Drop(old) \in Tasks
    BY <1>2, TaskOf
  <2>3. \A X : Num(Retiring(old), X) = In(Retire(old), X) + In(Drop(old), X) /\ Retiring(old) \in Seq(Tasks)
    BY <2>1, <2>2, NumTwo
  <2>4. Paired(Retiring(old))
    BY <1>2, <2>1, PairedRetire
  <2>5. In(Retire(old), Lookups) = 0 /\ In(Drop(old), Lookups) = 0
    BY LooksUp, TaskOp
  <2>6. ASSUME NEW e \in EntryIds
        PROVE  /\ Num(Retiring(old), Owning(e)) = Is(old, e)
               /\ Num(Retiring(old), Insertions(e)) = 0
               /\ Num(Retiring(old), {Retire(e)}) = Is(old, e)
    <3>1. Handles(Retire(old), 0, 0, old) /\ Handles(Drop(old), old, 0, 0)
      BY <1>2, HandlesWhat
    <3>2. Is(0, e) = 0 /\ Is(old, e) \in Nat
      BY IsNat DEF Is, EntryIds
    <3>3. /\ In(Retire(old), Owning(e)) = 0 /\ In(Retire(old), Insertions(e)) = 0
          /\ In(Retire(old), {Retire(e)}) = Is(old, e)
      BY <3>1, <3>2 DEF Handles
    <3>4. /\ In(Drop(old), Owning(e)) = Is(old, e) /\ In(Drop(old), Insertions(e)) = 0
          /\ In(Drop(old), {Retire(e)}) = 0
      BY <3>1, <3>2 DEF Handles
    <3> QED
      BY <2>3, <3>2, <3>3, <3>4
  <2>7. ASSUME NEW k \in Kinds, NEW v \in Versions PROVE Num(Retiring(old), Versioned(k, v)) = 0
    <3>1. Refers(Retire(old), Nothing) /\ Refers(Drop(old), Nothing) /\ Is(Nothing, <<k, v>>) = 0
      BY RefersWhat, NothingIs
    <3>2. In(Retire(old), Versioned(k, v)) = 0 /\ In(Drop(old), Versioned(k, v)) = 0
      BY <3>1 DEF Refers
    <3> QED
      BY <2>3, <3>2
  <2>8. Num(Retiring(old), Lookups) = 0
    BY <2>3, <2>5
  <2> QED
    BY <2>3, <2>4, <2>6, <2>7, <2>8
<1> QED
  BY <1>1, <1>2

\* Then o is retired, and what the task before owned or inserted is gone.
LEMMA Replaced ==
  ASSUME Types, Types', NEW t \in Threads, agenda[t] # <<>>, NEW old \in EntryIds \cup {NoEntry},
         Continue(t, Retiring(old)), todo' = todo,
         NEW d, NEW i, Handles(Head(agenda[t]), d, i, 0), Refers(Head(agenda[t]), Nothing)
  PROVE  Moves(d, i, old) /\ VersionsUnmoved
<1>1. PICK q : q = Retiring(old)
  OBVIOUS
<1>2. q \in Seq(Tasks) /\ Continue(t, q)
  BY <1>1, RetiringIs DEF Continue
<1>3. ASSUME NEW X
      PROVE  Pending(X)' = Pending(X) + (Num(q, X) - In(Head(agenda[t]), X)) /\ Pending(X) \in Nat
  BY <1>2, Continued, PendingIs
<1>4. ASSUME NEW e \in EntryIds
      PROVE  /\ Pending(Owning(e))' = Pending(Owning(e)) + Is(old, e) - Is(d, e)
             /\ Pending(Insertions(e))' = Pending(Insertions(e)) - Is(i, e)
             /\ Pending({Retire(e)})' = Pending({Retire(e)}) + Is(old, e)
  <2>1. /\ In(Head(agenda[t]), Owning(e)) = Is(d, e) /\ In(Head(agenda[t]), Insertions(e)) = Is(i, e)
        /\ In(Head(agenda[t]), {Retire(e)}) = Is(0, e)
    BY DEF Handles
  <2>2. /\ Num(q, Owning(e)) = Is(old, e) /\ Num(q, Insertions(e)) = 0 /\ Num(q, {Retire(e)}) = Is(old, e)
    BY <1>1, RetiringIs
  <2>3. Is(0, e) = 0 /\ Is(old, e) \in Nat /\ Is(d, e) \in Nat /\ Is(i, e) \in Nat
    BY IsNat DEF Is, EntryIds
  <2>4. Pending(Owning(e))' = Pending(Owning(e)) + (Is(old, e) - Is(d, e)) /\ Pending(Owning(e)) \in Nat
    BY <1>3, <2>1, <2>2
  <2>5. Pending(Insertions(e))' = Pending(Insertions(e)) + (0 - Is(i, e)) /\ Pending(Insertions(e)) \in Nat
    BY <1>3, <2>1, <2>2
  <2>6. Pending({Retire(e)})' = Pending({Retire(e)}) + (Is(old, e) - 0) /\ Pending({Retire(e)}) \in Nat
    BY <1>3, <2>1, <2>2, <2>3
  <2> QED
    BY <2>3, <2>4, <2>5, <2>6
<1>5. ASSUME NEW k \in Kinds, NEW v \in Versions
      PROVE  Pending(Versioned(k, v))' = Pending(Versioned(k, v))
  <2>1. In(Head(agenda[t]), Versioned(k, v)) = 0
    BY NothingIs DEF Refers
  <2>2. Num(q, Versioned(k, v)) = 0
    BY <1>1, RetiringIs
  <2>3. Pending(Versioned(k, v))' = Pending(Versioned(k, v)) + (0 - 0) /\ Pending(Versioned(k, v)) \in Nat
    BY <1>3, <2>1, <2>2
  <2> QED
    BY <2>3
<1> QED
  BY <1>4, <1>5 DEF Moves, VersionsUnmoved

\* The table forgets what it holds for s, and e takes its place.
LEMMA TableReplaced ==
  ASSUME Types, Types', CacheCoherent, Exact', NEW s \in Servers, NEW n, table' = [table EXCEPT ![s] = n],
         NEW d, NEW i, Moves(d, i, table[s]), Marks, cache' = cache
  PROVE  CacheCoherent'
<1>1. ASSUME NEW e \in EntryIds
      PROVE  /\ Pending({Retire(e)})' = Pending({Retire(e)}) + Is(table[s], e)
             /\ Pending({Retire(e)}) \in Nat /\ Is(table[s], e) \in Nat
  BY PendingIs, IsNat DEF Moves
<1>2. Retires
  <2>1. ASSUME NEW e \in EntryIds PROVE Pending({Retire(e)})' >= Pending({Retire(e)})
    BY <1>1
  <2> QED
    BY <2>1 DEF Retires
<1>3. Removes
  <2>1. ASSUME NEW j \in Servers, NEW e \in EntryIds, table[j] = e, table'[j] # e
        PROVE  Pending({Retire(e)})' > 0
    <3>1. j = s
      BY <2>1 DEF Types
    <3>2. Is(table[s], e) = 1
      BY <2>1, <3>1 DEF Is
    <3> QED
      BY <1>1, <3>2
  <2> QED
    BY <2>1 DEF Removes
<1>4. Fills
  BY TableFills
<1> QED
  BY <1>2, <1>3, <1>4, CoherentStep

\* revalidate_server() for a server that is gone.
LEMMA RemoveServerKeeps ==
  ASSUME ManagerInv, NEW t \in Threads, RemoveServer(t)
  PROVE  ManagerInv'
<1>1. Types /\ Exact /\ Drops /\ Answers /\ NewOnes /\ CacheCoherent /\ heap \in Heaps
  BY DEF ManagerInv, Types
<1>2. At(t, "revalidate_server")
  BY DEF RemoveServer
<1>3. agenda[t] # <<>> /\ Head(agenda[t]) \in Tasks /\ Head(agenda[t]).op = "revalidate_server"
  BY <1>1, <1>2, HeadIs
<1>4. PICK s \in Servers, st \in States : Head(agenda[t]) = Revalidate(s, st)
  BY <1>3, TaskIs
<1>5. Head(agenda[t]).server = s /\ Head(agenda[t]).state = st
  BY <1>4, TaskOp
<1>6. PICK e : e = table[s]
  OBVIOUS
<1>7. /\ e # NoEntry /\ st = "DELETED" /\ heap' = WithState(heap, e, st)
      /\ table' = [table EXCEPT ![s] = NoEntry]
      /\ Continue(t, <<Retire(e), Drop(e)>>)
      /\ bucket_mutex' = bucket_mutex /\ rw_lock' = rw_lock /\ todo' = todo
      /\ cache' = cache /\ txn' = txn /\ UNCHANGED unsharedVars
  BY <1>5, <1>6 DEF RemoveServer, WithState
<1>8. e \in EntryIds
  BY <1>1, <1>6, <1>7 DEF Types
<1>9. heap.entry[e].live
  BY <1>1, <1>6, <1>8, Owned
<1>10. /\ heap' \in Heaps
       /\ \A k \in Kinds, v \in Versions : Balance(heap', k, v) = Balance(heap, k, v)
       /\ \A x \in EntryIds : SameEntry(heap', heap, x)
  <2>1. PICK h, g : h = heap /\ g = heap'
    OBVIOUS
  <2>2. h \in Heaps /\ h.entry[e].live /\ g = WithState(h, e, st)
    BY <1>1, <1>7, <1>9, <2>1
  <2>3. /\ g \in Heaps /\ \A k \in Kinds, v \in Versions : Balance(g, k, v) = Balance(h, k, v)
        /\ \A x \in EntryIds : SameEntry(g, h, x)
    BY <1>8, <2>2, StateIs
  <2> QED
    BY <2>1, <2>3
<1>11. Handles(Head(agenda[t]), 0, 0, 0) /\ Refers(Head(agenda[t]), Nothing)
  BY <1>4, HandlesWhat, RefersWhat
<1>12. PICK q : q = Retiring(e)
  OBVIOUS
<1>13. Continue(t, Retiring(e)) /\ Continue(t, q) /\ e \in EntryIds \cup {NoEntry}
  BY <1>7, <1>8, <1>12 DEF Retiring, Continue
<1>14. q \in Seq(Tasks) /\ Paired(q) /\ Num(q, Lookups) = 0
  BY <1>12, <1>13, RetiringIs
<1>15. Drops' /\ agenda' \in [Threads -> Seq(Tasks)]
  BY <1>1, <1>3, <1>13, <1>14, DropsContinue
<1>16. Answers'
  BY <1>1, <1>3, <1>7, <1>13, <1>14, AnswersContinue
<1>17. table' \in [Servers -> EntryIds \cup {NoEntry}]
  BY <1>1, <1>7 DEF Types
<1>18. Types'
  BY <1>1, <1>7, <1>10, <1>15, <1>17 DEF Types, unsharedVars
<1>19. Moves(0, 0, e) /\ VersionsUnmoved
  BY <1>1, <1>3, <1>7, <1>11, <1>13, <1>18, Replaced
<1>20. Exact'
  <2>1. ASSUME NEW x \in EntryIds
        PROVE  heap'.entry[x].ref = heap.entry[x].ref + (Tabled(x)' - Tabled(x)) + (Cached(x)' - Cached(x))
                                    + (Held(x)' - Held(x)) + (Pending(Owning(x))' - Pending(Owning(x)))
    <3>1. Cached(x)' = Cached(x) /\ Held(x)' = Held(x)
      BY <1>7, CachedSame, HeldSame
    <3>2. Tabled(x)' = Tabled(x) + Is(NoEntry, x) - Is(e, x)
      BY <1>1, <1>6, <1>7, TabledStep
    <3>3. Pending(Owning(x))' = Pending(Owning(x)) + Is(e, x) - Is(0, x)
      BY <1>19 DEF Moves
    <3>4. Is(0, x) = 0 /\ Is(NoEntry, x) = 0 /\ Is(e, x) \in Nat
      BY IsNat DEF Is, EntryIds, NoEntry
    <3>5. Tabled(x) \in Nat /\ Cached(x) \in Nat /\ Held(x) \in Nat /\ Pending(Owning(x)) \in Nat
      BY <1>1, OwnersAre
    <3>6. heap'.entry[x].ref = heap.entry[x].ref /\ heap.entry[x].ref \in Int
      BY <1>1, <1>10, EntryIs DEF SameEntry
    <3> QED
      BY <3>1, <3>2, <3>3, <3>4, <3>5, <3>6
  <2>2. Counted
    BY <2>1 DEF Counted
  <2> QED
    BY <1>1, <1>18, <2>2, ExactKept
<1>21. NewOnes'
  <2>1. Keeps
    BY <1>10 DEF Keeps, SameEntry
  <2>2. ASSUME NEW x \in EntryIds PROVE Pending(Insertions(x))' = Pending(Insertions(x))
    <3>1. Pending(Insertions(x))' = Pending(Insertions(x)) - Is(0, x)
      BY <1>19 DEF Moves
    <3>2. Is(0, x) = 0
      BY DEF Is, EntryIds
    <3> QED
      BY <1>1, <3>1, <3>2, PendingIs
  <2>3. InsertionsUnmoved
    BY <2>2 DEF InsertionsUnmoved
  <2> QED
    BY <1>1, <2>1, <2>3, NewOnesKept
<1>22. CacheCoherent'
  <2>1. Marks
    BY <1>10 DEF Marks, SameEntry
  <2>2. Moves(0, 0, table[s])
    BY <1>6, <1>19
  <2> QED
    BY <1>1, <1>7, <1>18, <1>20, <2>1, <2>2, TableReplaced
<1>23. SettingRefExact'
  <2>1. Settled
    BY <1>10 DEF Settled
  <2> QED
    BY <1>7, <1>18, <1>19, <2>1, SettledTask DEF unsharedVars
<1> QED
  BY <1>15, <1>16, <1>18, <1>20, <1>21, <1>22, <1>23 DEF ManagerInv

\* insert_entry() replaces what the table has.
LEMMA InsertEntryKeeps ==
  ASSUME ManagerInv, NEW t \in Threads, InsertEntry(t)
  PROVE  ManagerInv'
<1>1. Types /\ Exact /\ Drops /\ Answers /\ NewOnes /\ CacheCoherent /\ heap \in Heaps
  BY DEF ManagerInv, Types
<1>2. At(t, "add_record") \/ At(t, "insert_entry")
  BY DEF InsertEntry
<1>3. agenda[t] # <<>> /\ Head(agenda[t]) \in Tasks
  BY <1>1, <1>2, HeadIs
<1>4. PICK s \in Servers, e \in EntryIds : Head(agenda[t]) = Add(s, e) \/ Head(agenda[t]) = Insert(s, e)
  <2>1. Head(agenda[t]).op = "add_record" \/ Head(agenda[t]).op = "insert_entry"
    BY <1>1, <1>2, HeadIs
  <2> QED
    BY <1>3, <2>1, TaskIs
<1>5. Head(agenda[t]).server = s /\ Head(agenda[t]).entry = e
  BY <1>4, TaskOp
<1>6. PICK old, d, i : old = table[s] /\ d = (IF Head(agenda[t]) = Add(s, e) THEN e ELSE 0)
                       /\ i = (IF Head(agenda[t]) = Add(s, e) THEN 0 ELSE e)
  OBVIOUS
<1>7. /\ heap' = IF Head(agenda[t]).op = "add_record" THEN heap ELSE IncRef(heap, e)
      /\ table' = [table EXCEPT ![s] = e]
      /\ Continue(t, Retiring(old))
      /\ bucket_mutex' = bucket_mutex /\ rw_lock' = rw_lock /\ todo' = todo
      /\ cache' = cache /\ txn' = txn /\ UNCHANGED unsharedVars
  BY <1>5, <1>6 DEF InsertEntry, Retiring
<1>8. old \in EntryIds \cup {NoEntry}
  BY <1>1, <1>6 DEF Types
<1>9. Handles(Head(agenda[t]), d, i, 0) /\ Refers(Head(agenda[t]), Nothing)
  BY <1>4, <1>6, HandlesWhat, RefersWhat
<1>10. /\ heap' \in Heaps /\ Settled /\ Marks
       /\ \A x \in EntryIds : /\ heap'.entry[x].ref = heap.entry[x].ref + Is(i, x)
                              /\ heap'.entry[x].live <=> heap.entry[x].live
  <2>1. CASE Head(agenda[t]) = Add(s, e)
    <3>1. heap' = heap /\ i = 0
      BY <1>6, <1>7, <2>1, TaskOp
    <3>2. \A x \in EntryIds : heap.entry[x].ref \in Int /\ Is(i, x) = 0
      BY <1>1, <3>1, EntryIs DEF Is, EntryIds
    <3>3. Marks
      BY <3>1 DEF Marks
    <3>4. Settled
      BY <3>1 DEF Settled
    <3> QED
      BY <1>1, <3>1, <3>2, <3>3, <3>4
  <2>2. CASE Head(agenda[t]) = Insert(s, e)
    <3>1. Head(agenda[t]).op = "insert_entry"
      BY <2>2, TaskOp
    <3>2. heap' = IncRef(heap, e) /\ i = e
      BY <1>6, <1>7, <3>1, TaskOp
    <3>3. Head(agenda[t]) \in Insertions(e)
      BY <2>2 DEF Insertions
    <3>4. Pending(Insertions(e)) > 0
      BY <1>1, <1>3, <3>3, HeadPending
    <3>5. heap.entry[e].live
      BY <1>1, <3>4, PendingIs DEF NewOnes
    <3> QED
      BY <1>1, <3>2, <3>5, IncRefStep
  <2> QED
    BY <1>4, <2>1, <2>2
<1>12. PICK q : q = Retiring(old)
  OBVIOUS
<1>13. Continue(t, q)
  BY <1>7, <1>12 DEF Continue
<1>14. q \in Seq(Tasks) /\ Paired(q) /\ Num(q, Lookups) = 0
  BY <1>8, <1>12, RetiringIs
<1>15. Drops' /\ agenda' \in [Threads -> Seq(Tasks)]
  BY <1>1, <1>3, <1>13, <1>14, DropsContinue
<1>16. Answers'
  BY <1>1, <1>3, <1>7, <1>13, <1>14, AnswersContinue
<1>17. table' \in [Servers -> EntryIds \cup {NoEntry}]
  BY <1>1, <1>7 DEF Types
<1>18. Types'
  BY <1>1, <1>7, <1>10, <1>15, <1>17 DEF Types, unsharedVars
<1>19. Moves(d, i, old) /\ VersionsUnmoved
  BY <1>1, <1>3, <1>7, <1>8, <1>9, <1>18, Replaced
<1>20. Exact'
  <2>1. ASSUME NEW x \in EntryIds
        PROVE  heap'.entry[x].ref = heap.entry[x].ref + (Tabled(x)' - Tabled(x)) + (Cached(x)' - Cached(x))
                                    + (Held(x)' - Held(x)) + (Pending(Owning(x))' - Pending(Owning(x)))
    <3>1. Cached(x)' = Cached(x) /\ Held(x)' = Held(x)
      BY <1>7, CachedSame, HeldSame
    <3>2. Tabled(x)' = Tabled(x) + Is(e, x) - Is(old, x)
      BY <1>1, <1>6, <1>7, TabledStep
    <3>3. Pending(Owning(x))' = Pending(Owning(x)) + Is(old, x) - Is(d, x)
      BY <1>19 DEF Moves
    <3>4. Is(e, x) = Is(d, x) + Is(i, x) /\ Is(d, x) \in Nat /\ Is(i, x) \in Nat /\ Is(old, x) \in Nat
      BY <1>6, IsNat DEF Is, EntryIds
    <3>5. Tabled(x) \in Nat /\ Cached(x) \in Nat /\ Held(x) \in Nat /\ Pending(Owning(x)) \in Nat
      BY <1>1, OwnersAre
    <3>6. heap'.entry[x].ref = heap.entry[x].ref + Is(i, x) /\ heap.entry[x].ref \in Int
      BY <1>1, <1>10, EntryIs
    <3> QED
      BY <3>1, <3>2, <3>3, <3>4, <3>5, <3>6
  <2>2. Counted
    BY <2>1 DEF Counted
  <2> QED
    BY <1>1, <1>18, <2>2, ExactKept
<1>21. NewOnes'
  <2>1. ASSUME NEW x \in EntryIds
        PROVE  /\ Pending(Insertions(x))' <= 1
               /\ Pending(Insertions(x))' # 0 => heap'.entry[x].live /\ heap'.entry[x].ref = 0
    <3>1. /\ Pending(Insertions(x))' = Pending(Insertions(x)) - Is(i, x) /\ Is(i, x) \in Nat
          /\ Pending(Insertions(x)) \in Nat /\ Pending(Insertions(x))' \in Nat
      BY <1>1, <1>18, <1>19, IsNat, PendingIs, PendingIsNext DEF Moves
    <3>2. /\ Pending(Insertions(x)) <= 1
          /\ Pending(Insertions(x)) # 0 => heap.entry[x].live /\ heap.entry[x].ref = 0
      BY <1>1 DEF NewOnes
    <3>3. /\ heap'.entry[x].ref = heap.entry[x].ref + Is(i, x)
          /\ heap'.entry[x].live <=> heap.entry[x].live
      BY <1>10
    <3>4. CASE i = x
      <4>1. Is(i, x) = 1
        BY <3>4 DEF Is
      <4> QED
        BY <3>1, <3>2, <4>1
    <3>5. CASE i # x
      <4>1. Is(i, x) = 0
        BY <3>5 DEF Is
      <4>2. Pending(Insertions(x))' = Pending(Insertions(x))
        BY <3>1, <4>1
      <4>3. heap.entry[x].ref = 0 => heap'.entry[x].ref = 0
        BY <3>3, <4>1
      <4> QED
        BY <3>2, <3>3, <4>2, <4>3
    <3> QED
      BY <3>4, <3>5
  <2> QED
    BY <2>1 DEF NewOnes
<1>22. CacheCoherent'
  <2>1. Moves(d, i, table[s])
    BY <1>6, <1>19
  <2> QED
    BY <1>1, <1>7, <1>10, <1>18, <1>20, <2>1, TableReplaced
<1>23. SettingRefExact'
  BY <1>7, <1>10, <1>18, <1>19, SettledTask DEF unsharedVars
<1> QED
  BY <1>15, <1>16, <1>18, <1>20, <1>21, <1>22, <1>23 DEF ManagerInv

\* remove_entry() for one entry, or for none.
LEMMA RemoveAllKeeps ==
  ASSUME ManagerInv, NEW t \in Threads, RemoveAllEntries(t)
  PROVE  ManagerInv'
<1>1. Types /\ Exact /\ Drops /\ Answers /\ NewOnes /\ CacheCoherent /\ heap \in Heaps
      /\ rw_lock \in Threads \cup {NoThread} /\ bucket_mutex \in Threads \cup {NoThread}
  BY DEF ManagerInv, Types
<1>2. /\ At(t, "remove_all") /\ bucket_mutex' = bucket_mutex /\ rw_lock' = rw_lock /\ todo' = todo
      /\ cache' = cache /\ txn' = txn /\ heap' = heap /\ UNCHANGED unsharedVars
  BY DEF RemoveAllEntries
<1>3. agenda[t] # <<>> /\ Head(agenda[t]) \in Tasks /\ Head(agenda[t]).op = "remove_all"
  BY <1>1, <1>2, HeadIs
<1>4. Head(agenda[t]) = RemoveAll
  BY <1>3, TaskIs
<1>5. Handles(Head(agenda[t]), 0, 0, 0) /\ Refers(Head(agenda[t]), Nothing)
  BY <1>4, HandlesWhat, RefersWhat
<1>6. \A e \in EntryIds : SameEntry(heap', heap, e)
  BY <1>2 DEF SameEntry
<1>7. \A k \in Kinds, v \in Versions : Balance(heap', k, v) = Balance(heap, k, v)
  BY <1>2
<1>8. CASE Continue(t, <<>>) /\ table' = table
  <2>1. Types'
    BY <1>1, <1>2, <1>3, <1>8, TypesDone
  <2>2. Drops' /\ Answers' /\ Exact' /\ NewOnes' /\ CacheCoherent'
    BY <1>2, <1>3, <1>5, <1>6, <1>8, <2>1, TaskDone
  <2>3. Pays(Nothing)
    BY <1>1, <1>7, PaysNothing
  <2>4. SettingRefExact'
    BY <1>2, <1>3, <1>5, <1>8, <2>1, <2>3, TaskPays
  <2> QED
    BY <2>1, <2>2, <2>4 DEF ManagerInv
<1>9. ASSUME NEW s \in Servers, table[s] # NoEntry, table' = [table EXCEPT ![s] = NoEntry],
             agenda' = [agenda EXCEPT ![t] = <<Retire(table[s]), Drop(table[s])>> \o @]
      PROVE  ManagerInv'
  <2>1. PICK e : e = table[s]
    OBVIOUS
  <2>2. e \in EntryIds
    BY <1>1, <1>9, <2>1 DEF Types
  <2>3. PICK p, q : p = Retiring(e) /\ q = p \o <<RemoveAll>>
    OBVIOUS
  <2>4. p = <<Retire(e), Drop(e)>> /\ p \in Seq(Tasks) /\ Paired(p)
    BY <2>2, <2>3, RetiringIs DEF Retiring, EntryIds, NoEntry
  <2>5. RemoveAll \in Tasks /\ <<RemoveAll>> \in Seq(Tasks) /\ Paired(<<RemoveAll>>)
    <3>1. RemoveAll \in Tasks
      BY TaskOf
    <3>2. PICK a : a = <<RemoveAll>>
      OBVIOUS
    <3>3. \A i \in DOMAIN a : a[i].op # "set_entry_deleted_state"
      BY <3>2, TaskOp
    <3>4. Paired(a)
      BY <3>3, PairedPlain
    <3> QED
      BY <3>1, <3>2, <3>4
  <2>6. q \in Seq(Tasks) /\ Paired(q)
    <3>1. PICK a : a = <<RemoveAll>>
      OBVIOUS
    <3>2. a \in Seq(Tasks) /\ Paired(a)
      BY <2>5, <3>1
    <3>3. Paired(p \o a)
      BY <2>4, <3>2, PairedJoin
    <3>4. p \o a \in Seq(Tasks)
      BY <2>4, <3>2
    <3> QED
      BY <2>3, <3>1, <3>3, <3>4
  <2>7. ASSUME NEW X
        PROVE  Num(q, X) = Num(p, X) + In(Head(agenda[t]), X) /\ Num(p, X) \in Nat
    <3>1. PICK a : a = <<RemoveAll>>
      OBVIOUS
    <3>2. Num(p \o a, X) = Num(p, X) + Num(a, X)
      BY <2>4, <2>5, <3>1, NumConcat
    <3>3. Num(a, X) = In(RemoveAll, X)
      BY <3>1, NumOne
    <3>4. Num(p, X) \in Nat
      BY <2>4, NumNat
    <3> QED
      BY <1>4, <2>3, <3>1, <3>2, <3>3, <3>4
  <2>8. Continue(t, q)
    <3>1. PICK a : a = agenda[t]
      OBVIOUS
    <3>2. a \in Seq(Tasks) /\ a # <<>> /\ Head(a) = RemoveAll
      BY <1>1, <1>3, <1>4, <3>1 DEF Types
    <3>3. Tail(a) \in Seq(Tasks) /\ a = <<RemoveAll>> \o Tail(a)
      BY <3>2, HeadTailProperties
    <3>4. p \o a = (p \o <<RemoveAll>>) \o Tail(a)
      BY <2>4, <2>5, <3>3, ConcatAssociative
    <3>5. agenda' = [agenda EXCEPT ![t] = p \o agenda[t]]
      BY <1>9, <2>1, <2>4
    <3> QED
      BY <2>3, <3>1, <3>4, <3>5 DEF Continue
  <2>9. Drops' /\ agenda' \in [Threads -> Seq(Tasks)]
    BY <1>1, <1>3, <2>6, <2>8, DropsContinue
  <2>10. Answers'
    <3>1. Num(p, Lookups) = 0
      BY <2>2, <2>3, RetiringIs
    <3>2. In(Head(agenda[t]), Lookups) = 0
      BY <1>3, LooksUp
    <3>3. Num(q, Lookups) = 0
      BY <2>7, <3>1, <3>2
    <3> QED
      BY <1>1, <1>2, <1>3, <2>6, <2>8, <3>3, AnswersContinue
  <2>11. table' \in [Servers -> EntryIds \cup {NoEntry}]
    BY <1>1, <1>9 DEF Types
  <2>12. Types'
    BY <1>1, <1>2, <2>9, <2>11 DEF Types, unsharedVars
  <2>13. ASSUME NEW X PROVE Pending(X)' = Pending(X) + Num(p, X) /\ Pending(X) \in Nat
    <3>1. Pending(X)' = Pending(X) + (Num(q, X) - In(Head(agenda[t]), X))
      BY <1>1, <1>2, <1>3, <2>6, <2>8, <2>12, Continued
    <3>2. Pending(X) \in Nat /\ In(Head(agenda[t]), X) \in Nat
      BY <1>1, InNat, PendingIs
    <3> QED
      BY <2>7, <3>1, <3>2
  <2>14. Moves(0, 0, e)
    <3>1. ASSUME NEW x \in EntryIds
          PROVE  /\ Pending(Owning(x))' = Pending(Owning(x)) + Is(e, x) - Is(0, x)
                 /\ Pending(Insertions(x))' = Pending(Insertions(x)) - Is(0, x)
                 /\ Pending({Retire(x)})' = Pending({Retire(x)}) + Is(e, x)
      <4>1. Num(p, Owning(x)) = Is(e, x) /\ Num(p, Insertions(x)) = 0 /\ Num(p, {Retire(x)}) = Is(e, x)
        BY <2>2, <2>3, RetiringIs
      <4>2. Is(0, x) = 0
        BY DEF Is, EntryIds
      <4>3. Is(e, x) \in Nat
        BY IsNat
      <4>4. Pending(Owning(x))' = Pending(Owning(x)) + Is(e, x) /\ Pending(Owning(x)) \in Nat
        BY <2>13, <4>1
      <4>5. Pending(Insertions(x))' = Pending(Insertions(x)) + 0 /\ Pending(Insertions(x)) \in Nat
        BY <2>13, <4>1
      <4>6. Pending({Retire(x)})' = Pending({Retire(x)}) + Is(e, x)
        BY <2>13, <4>1
      <4> QED
        BY <4>2, <4>3, <4>4, <4>5, <4>6
    <3> QED
      BY <3>1 DEF Moves
  <2>15. VersionsUnmoved
    <3>1. ASSUME NEW k \in Kinds, NEW v \in Versions
          PROVE  Pending(Versioned(k, v))' = Pending(Versioned(k, v))
      <4>1. Num(p, Versioned(k, v)) = 0
        BY <2>2, <2>3, RetiringIs
      <4>2. Pending(Versioned(k, v))' = Pending(Versioned(k, v)) + 0 /\ Pending(Versioned(k, v)) \in Nat
        BY <2>13, <4>1
      <4> QED
        BY <4>2
    <3> QED
      BY <3>1 DEF VersionsUnmoved
  <2>16. Exact'
    <3>1. ASSUME NEW x \in EntryIds
          PROVE  heap'.entry[x].ref = heap.entry[x].ref + (Tabled(x)' - Tabled(x)) + (Cached(x)' - Cached(x))
                                      + (Held(x)' - Held(x)) + (Pending(Owning(x))' - Pending(Owning(x)))
      <4>1. Cached(x)' = Cached(x) /\ Held(x)' = Held(x)
        BY <1>2, CachedSame, HeldSame
      <4>2. Tabled(x)' = Tabled(x) + Is(NoEntry, x) - Is(e, x)
        BY <1>1, <1>9, <2>1, TabledStep
      <4>3. Pending(Owning(x))' = Pending(Owning(x)) + Is(e, x) - Is(0, x)
        BY <2>14 DEF Moves
      <4>4. Is(0, x) = 0 /\ Is(NoEntry, x) = 0 /\ Is(e, x) \in Nat
        BY IsNat DEF Is, EntryIds, NoEntry
      <4>5. Tabled(x) \in Nat /\ Cached(x) \in Nat /\ Held(x) \in Nat /\ Pending(Owning(x)) \in Nat
        BY <1>1, OwnersAre
      <4>6. heap'.entry[x].ref = heap.entry[x].ref /\ heap.entry[x].ref \in Int
        BY <1>1, <1>2, EntryIs
      <4> QED
        BY <4>1, <4>2, <4>3, <4>4, <4>5, <4>6
    <3>2. Counted
      BY <3>1 DEF Counted
    <3> QED
      BY <1>1, <2>12, <3>2, ExactKept
  <2>17. NewOnes'
    <3>1. Keeps
      BY <1>2 DEF Keeps
    <3>2. ASSUME NEW x \in EntryIds PROVE Pending(Insertions(x))' = Pending(Insertions(x))
      <4>1. Pending(Insertions(x))' = Pending(Insertions(x)) - Is(0, x)
        BY <2>14 DEF Moves
      <4>2. Is(0, x) = 0
        BY DEF Is, EntryIds
      <4> QED
        BY <1>1, <4>1, <4>2, PendingIs
    <3>3. InsertionsUnmoved
      BY <3>2 DEF InsertionsUnmoved
    <3> QED
      BY <1>1, <3>1, <3>3, NewOnesKept
  <2>18. CacheCoherent'
    <3>1. Marks
      BY <1>2 DEF Marks
    <3>2. Moves(0, 0, table[s])
      BY <2>1, <2>14
    <3> QED
      BY <1>1, <1>2, <1>9, <2>12, <2>16, <3>1, <3>2, TableReplaced
  <2>19. SettingRefExact'
    <3>1. Settled
      BY <1>7 DEF Settled
    <3> QED
      BY <1>2, <2>12, <2>15, <3>1, SettledTask DEF unsharedVars
  <2> QED
    BY <2>9, <2>10, <2>12, <2>16, <2>17, <2>18, <2>19 DEF ManagerInv
<1> QED
  BY <1>8, <1>9 DEF RemoveAllEntries

\* Agendas of four tasks, none of which retires an entry.
LEMMA PairedFour ==
  ASSUME NEW a, NEW b, NEW c, NEW d, NEW q, q = <<a, b, c, d>>,
         \A x \in {a, b, c, d} : x.op # "set_entry_deleted_state"
  PROVE  Paired(q)
<1>1. \A i \in DOMAIN q : q[i] \in {a, b, c, d}
  OBVIOUS
<1>2. \A i \in DOMAIN q : q[i].op # "set_entry_deleted_state"
  BY <1>1
<1> QED
  BY <1>2, PairedPlain

\* add_new_server() for a server that is not in the table.
LEMMA AddNewServerKeeps ==
  ASSUME ManagerInv, NEW t \in Threads, AddNewServer(t)
  PROVE  ManagerInv'
<1>1. Types /\ Exact /\ Drops /\ Answers /\ NewOnes /\ CacheCoherent /\ SettingRefExact /\ heap \in Heaps
  BY DEF ManagerInv, Types
<1>2. At(t, "revalidate_server") /\ HasSpare(heap)
  BY DEF AddNewServer
<1>3. agenda[t] # <<>> /\ Head(agenda[t]) \in Tasks /\ Head(agenda[t]).op = "revalidate_server"
  BY <1>1, <1>2, HeadIs
<1>4. PICK s \in Servers, st \in States : Head(agenda[t]) = Revalidate(s, st)
  BY <1>3, TaskIs
<1>5. Head(agenda[t]).server = s /\ Head(agenda[t]).state = st
  BY <1>4, TaskOp
<1>6. PICK e, a, b, h, n, f, g : /\ e = Spare(heap) /\ a = global["config"] /\ b = global["zone"] /\ h = heap
                                 /\ n = NewEntry(heap, e, st) /\ f = GetSetting(n, "config", a) /\ g = heap'
  OBVIOUS
<1>7. PICK q : q = <<Run, Insert(s, e), Put("zone", b), Put("config", a)>>
  OBVIOUS
<1>8. /\ g = GetSetting(f, "zone", b) /\ Continue(t, q)
      /\ bucket_mutex' = bucket_mutex /\ rw_lock' = rw_lock /\ todo' = todo /\ table' = table
      /\ cache' = cache /\ txn' = txn /\ UNCHANGED unsharedVars
  BY <1>5, <1>6, <1>7 DEF AddNewServer
<1>9. e \in EntryIds /\ ~h.entry[e].live
  BY <1>2, <1>6 DEF HasSpare, Spare
<1>10. a \in Versions /\ b \in Versions /\ "config" \in Kinds /\ "zone" \in Kinds
  BY <1>1, <1>6 DEF Types, Kinds
<1>11. /\ n \in Heaps
       /\ \A k \in Kinds, v \in Versions : Balance(n, k, v) = Balance(h, k, v)
       /\ n.entry[e].live /\ n.entry[e].ref = 0 /\ ~n.entry[e].deleted
       /\ \A x \in EntryIds : x # e => n.entry[x] = h.entry[x]
  <2>1. h \in Heaps /\ n = NewEntry(h, e, st) /\ st \in States \cup {"ACTIVE"}
    BY <1>1, <1>6
  <2> QED
    BY <1>1, <1>9, <2>1, NewEntryIs
<1>12. /\ f \in Heaps /\ f.entry = n.entry
       /\ \A k \in Kinds, v \in Versions : Balance(f, k, v) = Balance(n, k, v) + Of("config", a, k, v)
  <2>1. n \in Heaps /\ f = GetSetting(n, "config", a)
    BY <1>6, <1>11
  <2> QED
    BY <1>10, <2>1, GetIs
<1>13. /\ g \in Heaps /\ g.entry = f.entry
       /\ \A k \in Kinds, v \in Versions : Balance(g, k, v) = Balance(f, k, v) + Of("zone", b, k, v)
  <2>1. f \in Heaps
    BY <1>12
  <2> QED
    BY <1>8, <1>10, <2>1, GetIs
<1>14. ASSUME NEW x \in EntryIds
       PROVE  /\ g.entry[x].ref = h.entry[x].ref /\ h.entry[x].ref \in Int
              /\ x # e => g.entry[x] = h.entry[x]
              /\ x = e => g.entry[x].live /\ g.entry[x].ref = 0 /\ ~h.entry[x].deleted
  <2>1. h \in Heaps
    BY <1>1, <1>6
  <2> QED
    BY <1>9, <1>11, <1>12, <1>13, <2>1, EntryIs
<1>15. Run \in Tasks /\ Insert(s, e) \in Tasks /\ Put("zone", b) \in Tasks /\ Put("config", a) \in Tasks
  BY <1>9, <1>10, TaskOf
<1>16. ASSUME NEW X
       PROVE  /\ Num(q, X) = In(Run, X) + In(Insert(s, e), X) + In(Put("zone", b), X) + In(Put("config", a), X)
              /\ q \in Seq(Tasks)
  BY <1>7, <1>15, NumFour
<1>17. q \in Seq(Tasks)
  BY <1>16
<1>18. Paired(q)
  <2>1. /\ Run.op # "set_entry_deleted_state" /\ Insert(s, e).op # "set_entry_deleted_state"
        /\ Put("zone", b).op # "set_entry_deleted_state" /\ Put("config", a).op # "set_entry_deleted_state"
    BY TaskOp
  <2> QED
    BY <1>7, <2>1, PairedFour
<1>19. Num(q, Lookups) = 0
  <2>1. /\ In(Run, Lookups) = 0 /\ In(Insert(s, e), Lookups) = 0
        /\ In(Put("zone", b), Lookups) = 0 /\ In(Put("config", a), Lookups) = 0
    BY TaskOp, LooksUp
  <2> QED
    BY <1>16, <2>1
<1>20. Drops' /\ agenda' \in [Threads -> Seq(Tasks)]
  BY <1>1, <1>3, <1>8, <1>17, <1>18, DropsContinue
<1>21. Answers'
  BY <1>1, <1>3, <1>8, <1>17, <1>19, AnswersContinue
<1>22. Types'
  BY <1>1, <1>6, <1>8, <1>13, <1>20 DEF Types, unsharedVars
<1>23. ASSUME NEW X
       PROVE  Pending(X)' = Pending(X) + (Num(q, X) - In(Head(agenda[t]), X)) /\ Pending(X) \in Nat
  BY <1>1, <1>3, <1>8, <1>17, <1>22, Continued, PendingIs
<1>24. ASSUME NEW x \in EntryIds
       PROVE  /\ Pending(Owning(x))' = Pending(Owning(x))
              /\ Pending(Insertions(x))' = Pending(Insertions(x)) + Is(e, x)
              /\ Pending({Retire(x)})' = Pending({Retire(x)})
  <2>1. /\ Handles(Run, 0, 0, 0) /\ Handles(Insert(s, e), 0, e, 0) /\ Handles(Put("zone", b), 0, 0, 0)
        /\ Handles(Put("config", a), 0, 0, 0) /\ Handles(Head(agenda[t]), 0, 0, 0)
    BY <1>4, <1>9, HandlesWhat
  <2>2. Is(0, x) = 0
    BY DEF Is, EntryIds
  <2>3. Is(e, x) \in Nat
    BY IsNat
  <2>10. /\ In(Run, Owning(x)) = 0 /\ In(Run, Insertions(x)) = 0 /\ In(Run, {Retire(x)}) = 0
         /\ In(Head(agenda[t]), Owning(x)) = 0 /\ In(Head(agenda[t]), Insertions(x)) = 0
         /\ In(Head(agenda[t]), {Retire(x)}) = 0
    BY <2>1, <2>2 DEF Handles
  <2>11. /\ In(Insert(s, e), Owning(x)) = 0 /\ In(Insert(s, e), Insertions(x)) = Is(e, x)
         /\ In(Insert(s, e), {Retire(x)}) = 0
    BY <2>1, <2>2 DEF Handles
  <2>12. /\ In(Put("zone", b), Owning(x)) = 0 /\ In(Put("zone", b), Insertions(x)) = 0
         /\ In(Put("zone", b), {Retire(x)}) = 0 /\ In(Put("config", a), Owning(x)) = 0
         /\ In(Put("config", a), Insertions(x)) = 0 /\ In(Put("config", a), {Retire(x)}) = 0
    BY <2>1, <2>2 DEF Handles
  <2>4. Num(q, Owning(x)) = 0 /\ In(Head(agenda[t]), Owning(x)) = 0
    BY <1>16, <2>10, <2>11, <2>12
  <2>5. Num(q, Insertions(x)) = Is(e, x) /\ In(Head(agenda[t]), Insertions(x)) = 0
    BY <1>16, <2>3, <2>10, <2>11, <2>12
  <2>6. Num(q, {Retire(x)}) = 0 /\ In(Head(agenda[t]), {Retire(x)}) = 0
    BY <1>16, <2>10, <2>11, <2>12
  <2>7. Pending(Owning(x))' = Pending(Owning(x)) + (0 - 0) /\ Pending(Owning(x)) \in Nat
    BY <1>23, <2>4
  <2>8. Pending(Insertions(x))' = Pending(Insertions(x)) + (Is(e, x) - 0) /\ Pending(Insertions(x)) \in Nat
    BY <1>23, <2>5
  <2>9. Pending({Retire(x)})' = Pending({Retire(x)}) + (0 - 0) /\ Pending({Retire(x)}) \in Nat
    BY <1>23, <2>6
  <2> QED
    BY <2>3, <2>7, <2>8, <2>9
<1>25. Exact'
  <2>1. ASSUME NEW x \in EntryIds
        PROVE  heap'.entry[x].ref = heap.entry[x].ref + (Tabled(x)' - Tabled(x)) + (Cached(x)' - Cached(x))
                                    + (Held(x)' - Held(x)) + (Pending(Owning(x))' - Pending(Owning(x)))
    <3>1. Tabled(x)' = Tabled(x) /\ Cached(x)' = Cached(x) /\ Held(x)' = Held(x)
      BY <1>8, TabledSame, CachedSame, HeldSame
    <3>2. Tabled(x) \in Nat /\ Cached(x) \in Nat /\ Held(x) \in Nat /\ Pending(Owning(x)) \in Nat
      BY <1>1, OwnersAre
    <3>3. Pending(Owning(x))' = Pending(Owning(x))
      BY <1>24
    <3>4. heap'.entry[x].ref = heap.entry[x].ref /\ heap.entry[x].ref \in Int
      BY <1>6, <1>14
    <3> QED
      BY <3>1, <3>2, <3>3, <3>4
  <2>2. Counted
    BY <2>1 DEF Counted
  <2> QED
    BY <1>1, <1>22, <2>2, ExactKept
<1>26. NewOnes'
  <2>1. ASSUME NEW x \in EntryIds
        PROVE  /\ Pending(Insertions(x))' <= 1
               /\ Pending(Insertions(x))' # 0 => heap'.entry[x].live /\ heap'.entry[x].ref = 0
    <3>1. /\ Pending(Insertions(x)) <= 1
          /\ Pending(Insertions(x)) # 0 => heap.entry[x].live /\ heap.entry[x].ref = 0
      BY <1>1 DEF NewOnes
    <3>2. Pending(Insertions(x))' = Pending(Insertions(x)) + Is(e, x) /\ Pending(Insertions(x)) \in Nat
      BY <1>23, <1>24
    <3>3. CASE x = e
      <4>1. Pending(Insertions(x)) = 0
        BY <1>6, <1>9, <3>1, <3>3
      <4>2. Is(e, x) = 1
        BY <3>3 DEF Is
      <4>3. heap'.entry[x].live /\ heap'.entry[x].ref = 0
        BY <1>6, <1>14, <3>3
      <4> QED
        BY <3>2, <4>1, <4>2, <4>3
    <3>4. CASE x # e
      <4>1. Is(e, x) = 0
        BY <3>4 DEF Is
      <4>2. Pending(Insertions(x))' = Pending(Insertions(x))
        BY <3>2, <4>1
      <4>3. heap'.entry[x] = heap.entry[x]
        BY <1>6, <1>14, <3>4
      <4> QED
        BY <3>1, <4>2, <4>3
    <3> QED
      BY <3>3, <3>4
  <2> QED
    BY <2>1 DEF NewOnes
<1>27. CacheCoherent'
  <2>1. Marks
    BY <1>6, <1>14 DEF Marks
  <2>2. Retires
    BY <1>23, <1>24 DEF Retires
  <2>3. Fills /\ Removes
    BY <1>8, TableFills, TableStays
  <2> QED
    BY <1>1, <1>22, <1>25, <2>1, <2>2, <2>3, CoherentStep
<1>28. SettingRefExact'
  <2>1. is_inited' = is_inited /\ global' = global /\ cancels' = cancels
    BY <1>8 DEF unsharedVars
  <2>2. ASSUME NEW k \in Kinds, NEW v \in Versions
        PROVE  Balance(heap', k, v) = Balance(heap, k, v) + (Owed(k, v)' - Owed(k, v))
    <3>1. /\ Refers(Run, Nothing) /\ Refers(Insert(s, e), Nothing) /\ Refers(Head(agenda[t]), Nothing)
          /\ Refers(Put("zone", b), <<"zone", b>>) /\ Refers(Put("config", a), <<"config", a>>)
      BY <1>4, <1>10, RefersWhat
    <3>2. PICK i, j : i = Of("config", a, k, v) /\ j = Of("zone", b, k, v)
      OBVIOUS
    <3>3. i \in Nat /\ j \in Nat /\ i = Is(<<"config", a>>, <<k, v>>) /\ j = Is(<<"zone", b>>, <<k, v>>)
      BY <3>2 DEF Of, Is
    <3>4. /\ In(Run, Versioned(k, v)) = 0 /\ In(Insert(s, e), Versioned(k, v)) = 0
          /\ In(Head(agenda[t]), Versioned(k, v)) = 0
      <4>1. Is(Nothing, <<k, v>>) = 0
        BY NothingIs
      <4> QED
        BY <3>1, <4>1 DEF Refers
    <3>5. In(Put("zone", b), Versioned(k, v)) = j /\ In(Put("config", a), Versioned(k, v)) = i
      BY <3>1, <3>3 DEF Refers
    <3>6. Num(q, Versioned(k, v)) = i + j
      BY <1>16, <3>3, <3>4, <3>5
    <3>7. Pending(Versioned(k, v))' = Pending(Versioned(k, v)) + (i + j - 0) /\ Pending(Versioned(k, v)) \in Nat
      <4>2. /\ Pending(Versioned(k, v))' = Pending(Versioned(k, v)) + (Num(q, Versioned(k, v)) - In(Head(agenda[t]), Versioned(k, v)))
            /\ Pending(Versioned(k, v)) \in Nat
        BY <1>23
      <4> QED
        BY <3>3, <3>4, <3>6, <4>2
    <3>8. Owed(k, v)' - Owed(k, v) = Pending(Versioned(k, v))' - Pending(Versioned(k, v))
      BY <1>1, <1>8, <1>22, <2>1, OwedTasks
    <3>9. Owed(k, v)' - Owed(k, v) = i + j
      BY <3>3, <3>7, <3>8
    <3>10. Balance(g, k, v) = Balance(f, k, v) + j /\ Balance(f, k, v) = Balance(n, k, v) + i
           /\ Balance(n, k, v) = Balance(h, k, v)
      BY <1>11, <1>12, <1>13, <3>2
    <3>11. Balance(h, k, v) \in Int
      BY <1>1, <1>6, BalanceInt
    <3>12. Balance(g, k, v) = Balance(h, k, v) + (i + j)
      BY <3>3, <3>10, <3>11
    <3> QED
      BY <1>6, <3>9, <3>12
  <2>3. Balanced
    BY <2>2 DEF Balanced
  <2> QED
    BY <1>1, <1>22, <2>1, <2>3, SettingsKept
<1> QED
  BY <1>20, <1>21, <1>22, <1>25, <1>26, <1>27, <1>28 DEF ManagerInv

\* The heap after a lookup found e in the table and old in the cache.
Found(h, e, old) == IncRef(IF old = NoEntry THEN IncRef(h, e) ELSE DecRef(IncRef(h, e), old), e)
\* Somebody owns the entry, if it is one.
Counting(h, x) == x # NoEntry => h.entry[x].live /\ h.entry[x].ref >= 1

\* The entry that is found is counted twice, the one the cache had once less.
LEMMA LookupHeap ==
  ASSUME NEW h \in Heaps, NEW e \in EntryIds, Counting(h, e),
         NEW old \in EntryIds \cup {NoEntry}, Counting(h, old), NEW n, n = Found(h, e, old)
  PROVE  /\ n \in Heaps
         /\ \A k \in Kinds, v \in Versions : Balance(n, k, v) = Balance(h, k, v)
         /\ \A x \in EntryIds : /\ n.entry[x].ref = h.entry[x].ref + Is(e, x) + Is(e, x) - Is(old, x)
                                /\ h.entry[x].deleted => n.entry[x].deleted \/ ~n.entry[x].live
                                /\ x # e /\ x # old => n.entry[x] = h.entry[x]
<1>9. PICK f, g : f = IncRef(h, e) /\ g = (IF old = NoEntry THEN f ELSE DecRef(f, old))
  OBVIOUS
<1>10. n = IncRef(g, e)
  BY <1>9 DEF Found
<1>11. h.entry[e].live /\ h.entry[e].ref >= 1
  BY DEF Counting, EntryIds, NoEntry
<1>1. /\ f \in Heaps /\ SameSettings(f, h)
      /\ f.entry[e].ref = h.entry[e].ref + 1
      /\ f.entry[e].live /\ (f.entry[e].deleted <=> h.entry[e].deleted)
      /\ \A x \in EntryIds : x # e => f.entry[x] = h.entry[x]
  BY <1>9, <1>11, IncRefIs
<1>2. \A x \in EntryIds : h.entry[x].ref \in Int
  BY EntryIs
<1>3. \A k \in Kinds, v \in Versions : Balance(f, k, v) = Balance(h, k, v)
  BY <1>1, BalanceSame
<1>4. /\ g \in Heaps
      /\ \A k \in Kinds, v \in Versions : Balance(g, k, v) = Balance(f, k, v)
      /\ \A x \in EntryIds : /\ g.entry[x].ref = f.entry[x].ref - Is(old, x)
                             /\ f.entry[x].deleted => g.entry[x].deleted \/ ~g.entry[x].live
                             /\ x # old => g.entry[x] = f.entry[x]
      /\ g.entry[e].live
  <2>1. CASE old = NoEntry
    <3>1. g = f
      BY <1>9, <2>1
    <3>2. ASSUME NEW x \in EntryIds PROVE Is(old, x) = 0 /\ f.entry[x].ref \in Int
      BY <1>1, <2>1, EntryIs DEF Is, EntryIds, NoEntry
    <3>3. \A x \in EntryIds : g.entry[x].ref = f.entry[x].ref - Is(old, x)
      BY <3>1, <3>2
    <3> QED
      BY <1>1, <3>1, <3>3
  <2>2. CASE old # NoEntry
    <3>1. old \in EntryIds /\ g = DecRef(f, old) /\ h.entry[old].live /\ h.entry[old].ref >= 1
      BY <1>9, <2>2 DEF Counting
    <3>2. f.entry[old].live /\ f.entry[old].ref >= 1 /\ (old = e => f.entry[old].ref >= 2)
      BY <1>1, <1>2, <1>11, <3>1
    <3>3. /\ g \in Heaps
          /\ \A k \in Kinds, v \in Versions : Balance(g, k, v) = Balance(f, k, v)
          /\ g.entry[old].ref = f.entry[old].ref - 1
          /\ f.entry[old].ref >= 2 => g.entry[old].live /\ (g.entry[old].deleted <=> f.entry[old].deleted)
          /\ f.entry[old].ref = 1 => ~g.entry[old].live
          /\ \A x \in EntryIds : x # old => g.entry[x] = f.entry[x]
      <4>1. f \in Heaps
        BY <1>1
      <4> QED
        BY <3>1, <3>2, <4>1, DecRefIs
    <3>4. ASSUME NEW x \in EntryIds
          PROVE  /\ g.entry[x].ref = f.entry[x].ref - Is(old, x)
                 /\ f.entry[x].deleted => g.entry[x].deleted \/ ~g.entry[x].live
      <4>1. f.entry[x].ref \in Int
        BY <1>1, EntryIs
      <4>2. CASE x = old
        <5>1. f.entry[old].ref = 1 \/ f.entry[old].ref >= 2
          BY <3>2, <4>1, <4>2
        <5>2. Is(old, x) = 1
          BY <4>2 DEF Is
        <5> QED
          BY <3>3, <4>2, <5>1, <5>2
      <4>3. CASE x # old
        <5>1. Is(old, x) = 0
          BY <4>3 DEF Is
        <5>2. g.entry[x] = f.entry[x]
          BY <3>3, <4>3
        <5>3. g.entry[x].ref = f.entry[x].ref - Is(old, x)
          BY <4>1, <5>1, <5>2
        <5> QED
          BY <5>2, <5>3
      <4> QED
        BY <4>2, <4>3
    <3>5. g.entry[e].live
      BY <1>1, <3>2, <3>3
    <3> QED
      BY <3>3, <3>4, <3>5
  <2> QED
    BY <2>1, <2>2
<1>5. /\ n \in Heaps /\ SameSettings(n, g)
      /\ n.entry[e].ref = g.entry[e].ref + 1
      /\ n.entry[e].live /\ (n.entry[e].deleted <=> g.entry[e].deleted)
      /\ \A x \in EntryIds : x # e => n.entry[x] = g.entry[x]
  <2>1. g \in Heaps /\ g.entry[e].live
    BY <1>4
  <2> QED
    BY <1>10, <2>1, IncRefIs
<1>6. \A k \in Kinds, v \in Versions : Balance(n, k, v) = Balance(g, k, v)
  BY <1>5, BalanceSame
<1>7. ASSUME NEW x \in EntryIds
      PROVE  /\ n.entry[x].ref = h.entry[x].ref + Is(e, x) + Is(e, x) - Is(old, x)
             /\ h.entry[x].deleted => n.entry[x].deleted \/ ~n.entry[x].live
             /\ x # e /\ x # old => n.entry[x] = h.entry[x]
  <2>1. /\ g.entry[x].ref = f.entry[x].ref - Is(old, x)
        /\ f.entry[x].deleted => g.entry[x].deleted \/ ~g.entry[x].live
        /\ x # old => g.entry[x] = f.entry[x]
    BY <1>4
  <2>2. h.entry[x].ref \in Int /\ Is(old, x) \in Nat
    BY <1>2, IsNat
  <2>3. CASE x = e
    <3>1. Is(e, x) = 1
      BY <2>3 DEF Is
    <3>2. n.entry[x].ref = g.entry[x].ref + 1 /\ f.entry[x].ref = h.entry[x].ref + 1
      BY <1>1, <1>5, <2>3
    <3>3. n.entry[x].ref = h.entry[x].ref + 1 + 1 - Is(old, x)
      BY <2>1, <2>2, <3>2
    <3>4. h.entry[x].deleted => n.entry[x].deleted \/ ~n.entry[x].live
      BY <1>1, <1>4, <1>5, <2>1, <2>3
    <3> QED
      BY <2>3, <3>1, <3>3, <3>4
  <2>4. CASE x # e
    <3>1. Is(e, x) = 0
      BY <2>4 DEF Is
    <3>2. n.entry[x] = g.entry[x] /\ f.entry[x] = h.entry[x]
      BY <1>1, <1>5, <2>4
    <3>3. n.entry[x].ref = h.entry[x].ref + 0 + 0 - Is(old, x)
      BY <2>1, <2>2, <3>2
    <3> QED
      BY <2>1, <3>1, <3>2, <3>3
  <2> QED
    BY <2>3, <2>4
<1>8. \A k \in Kinds, v \in Versions : Balance(n, k, v) = Balance(h, k, v)
  BY <1>3, <1>4, <1>6
<1> QED
  BY <1>5, <1>7, <1>8

\* A transaction that goes from one state without a lookup to another.
LEMMA OwedSame ==
  ASSUME Types, Types', is_inited' = is_inited, global' = global, NEW t \in Threads, NEW n,
         txn' = [txn EXCEPT ![t] = n], \A v \in Versions : In(n, Waits(v)) = In(txn[t], Waits(v)),
         NEW k \in Kinds, NEW v \in Versions
  PROVE  Owed(k, v)' - Owed(k, v) = Pending(Versioned(k, v))' - Pending(Versioned(k, v))
<1>1. Current(k, v)' = Current(k, v)
  BY DEF Current
<1>2. Waiters(k, v)' = Waiters(k, v)
  <2>1. CASE k = "config"
    <3>1. Waiters("config", v)' = Waiters("config", v) + In(n, Waits(v)) - In(txn[t], Waits(v))
      BY TxnStep
    <3>2. In(n, Waits(v)) = In(txn[t], Waits(v)) /\ In(txn[t], Waits(v)) \in Nat
      BY InNat
    <3>3. Waiters("config", v) \in Nat
      BY <2>1, OwedIs
    <3>4. Waiters("config", v)' = Waiters("config", v)
      BY <3>1, <3>2, <3>3
    <3> QED
      BY <2>1, <3>4
  <2>2. CASE k # "config"
    BY <2>2 DEF Waiters
  <2> QED
    BY <2>1, <2>2
<1>3. /\ Owed(k, v) = Current(k, v) + Pending(Versioned(k, v)) + Waiters(k, v)
      /\ Owed(k, v)' = Current(k, v)' + Pending(Versioned(k, v))' + Waiters(k, v)'
  BY DEF Owed
<1> QED
  BY <1>1, <1>2, <1>3, OwedIs, OwedIsNext

\* get_congest_entry() in the table.
LEMMA LookupEntryKeeps ==
  ASSUME ManagerInv, NEW t \in Threads, LookupEntry(t)
  PROVE  ManagerInv'
<1>1. Types /\ Exact /\ Drops /\ Answers /\ NewOnes /\ CacheCoherent /\ SettingRefExact /\ heap \in Heaps
      /\ rw_lock \in Threads \cup {NoThread} /\ bucket_mutex \in Threads \cup {NoThread}
  BY DEF ManagerInv, Types
<1>2. At(t, "lookup_entry")
  BY DEF LookupEntry
<1>3. agenda[t] # <<>> /\ Head(agenda[t]) \in Tasks /\ Head(agenda[t]).op = "lookup_entry"
  BY <1>1, <1>2, HeadIs
<1>4. PICK s \in Servers : Head(agenda[t]) = Lookup(s)
  BY <1>3, TaskIs
<1>5. Head(agenda[t]).server = s
  BY <1>4, TaskOp
<1>6. PICK e, old : e = table[s] /\ old = cache[t][s]
  OBVIOUS
<1>7. /\ Continue(t, <<>>) /\ bucket_mutex' = bucket_mutex /\ rw_lock' = rw_lock /\ todo' = todo
      /\ table' = table /\ UNCHANGED unsharedVars
  BY DEF LookupEntry
<1>8. Handles(Head(agenda[t]), 0, 0, 0) /\ Refers(Head(agenda[t]), Nothing)
  BY <1>4, HandlesWhat, RefersWhat
<1>9. agenda[t] \in Seq(Tasks) /\ agenda \in [Threads -> Seq(Tasks)] /\ txn \in [Threads -> Txns]
  BY <1>1 DEF Types
<1>10. Num(agenda[t], Lookups) = 1 + Num(Tail(agenda[t]), Lookups) /\ Num(Tail(agenda[t]), Lookups) \in Nat
  <2>1. /\ Num(agenda[t], Lookups) = In(Head(agenda[t]), Lookups) + Num(Tail(agenda[t]), Lookups)
        /\ Tail(agenda[t]) \in Seq(Tasks)
    BY <1>3, <1>9, NumHead
  <2> QED
    BY <1>4, <2>1, LooksUp, NumNat
<1>11. txn[t] = NoTxn /\ Num(Tail(agenda[t]), Lookups) = 0
  <2>1. Num(agenda[t], Lookups) <= 1 /\ (Num(agenda[t], Lookups) # 0 => txn[t] = NoTxn)
    BY <1>1 DEF Answers
  <2> QED
    BY <1>10, <2>1
<1>12. CASE e = NoEntry
  <2>1. heap' = heap /\ cache' = cache /\ txn' = [txn EXCEPT ![t] = NoTxn]
    BY <1>5, <1>6, <1>12 DEF LookupEntry
  <2>2. txn' = txn
    BY <1>9, <1>11, <2>1
  <2>3. Types'
    BY <1>1, <1>3, <1>7, <2>1, <2>2, TypesDone
  <2>4. \A x \in EntryIds : SameEntry(heap', heap, x)
    BY <2>1 DEF SameEntry
  <2>5. Drops' /\ Answers' /\ Exact' /\ NewOnes' /\ CacheCoherent'
    BY <1>3, <1>7, <1>8, <2>1, <2>2, <2>3, <2>4, TaskDone
  <2>6. \A k \in Kinds, v \in Versions : Balance(heap', k, v) = Balance(heap, k, v)
    BY <2>1
  <2>7. Pays(Nothing)
    BY <1>1, <2>6, PaysNothing
  <2>8. SettingRefExact'
    BY <1>3, <1>7, <1>8, <2>2, <2>3, <2>7, TaskPays
  <2> QED
    BY <2>3, <2>5, <2>8 DEF ManagerInv
<1>13. CASE e # NoEntry
  <2>1. PICK f, g : f = IncRef(heap, e) /\ g = (IF old = NoEntry THEN f ELSE DecRef(f, old))
    OBVIOUS
  <2>2. /\ heap' = IncRef(g, e) /\ cache' = [cache EXCEPT ![t][s] = e] /\ txn' = [txn EXCEPT ![t] = Holding(e)]
    BY <1>5, <1>6, <1>13, <2>1 DEF LookupEntry
  <2>3. e \in EntryIds /\ old \in EntryIds \cup {NoEntry}
    BY <1>1, <1>6, <1>13 DEF Types
  <2>4. heap.entry[e].live /\ heap.entry[e].ref >= 1
    BY <1>1, <1>6, <2>3, Owned
  <2>5. ASSUME old # NoEntry PROVE heap.entry[old].live /\ heap.entry[old].ref >= 1
    <3>1. old \in EntryIds /\ cache[t][s] = old
      BY <1>6, <2>3, <2>5
    <3> QED
      BY <1>1, <3>1, Owned
  <2>6. PICK h, n : h = heap /\ n = heap'
    OBVIOUS
  <2>7. /\ n \in Heaps
        /\ \A k \in Kinds, v \in Versions : Balance(n, k, v) = Balance(h, k, v)
        /\ \A x \in EntryIds : /\ n.entry[x].ref = h.entry[x].ref + Is(e, x) + Is(e, x) - Is(old, x)
                               /\ h.entry[x].deleted => n.entry[x].deleted \/ ~n.entry[x].live
                               /\ x # e /\ x # old => n.entry[x] = h.entry[x]
    <3>1. h \in Heaps /\ Counting(h, e) /\ Counting(h, old)
      BY <1>1, <2>4, <2>5, <2>6 DEF Counting
    <3>2. n = Found(h, e, old)
      BY <2>1, <2>2, <2>6 DEF Found
    <3> QED
      BY <2>3, <3>1, <3>2, LookupHeap
  <2>8. <<>> \in Seq(Tasks) /\ Paired(<<>>)
    BY DEF Paired
  <2>9. Drops' /\ agenda' \in [Threads -> Seq(Tasks)]
    BY <1>1, <1>3, <1>7, <2>8, DropsContinue
  <2>10. cache' \in [Threads -> [Servers -> EntryIds \cup {NoEntry}]]
    <3>1. cache \in [Threads -> [Servers -> EntryIds \cup {NoEntry}]]
      BY <1>1 DEF Types
    <3> QED
      BY <2>2, <2>3, <3>1
  <2>11. txn' \in [Threads -> Txns]
    <3>1. Holding(e) \in Txns
      BY <2>3 DEF Txns
    <3> QED
      BY <1>9, <2>2, <3>1
  <2>12. Types'
    BY <1>1, <1>7, <2>6, <2>7, <2>9, <2>10, <2>11 DEF Types, unsharedVars
  <2>13. Answers'
    <3>1. PICK q : q = Tail(agenda[t])
      OBVIOUS
    <3>2. Begin(t, q)
      <4>1. Tail(agenda[t]) \in Seq(Tasks)
        BY <1>3, <1>9, HeadTailProperties
      <4>2. <<>> \o Tail(agenda[t]) = Tail(agenda[t])
        BY <4>1
      <4> QED
        BY <1>7, <3>1, <4>2 DEF Continue, Begin
    <3>3. Num(q, Lookups) = 0
      BY <1>11, <3>1
    <3>4. OtherTxnsStay(t)
      BY <1>9, <2>2 DEF OtherTxnsStay
    <3> QED
      BY <1>1, <3>2, <3>3, <3>4, AnswersBegin
  <2>14. Leaves(0, 0, 0)
    BY <1>1, <1>3, <1>7, <1>8, <2>12, Went
  <2>15. ASSUME NEW x \in EntryIds
         PROVE  /\ Pending(Owning(x))' = Pending(Owning(x)) /\ Pending(Insertions(x))' = Pending(Insertions(x))
                /\ Pending({Retire(x)})' = Pending({Retire(x)})
    <3>1. /\ Pending(Owning(x))' = Pending(Owning(x)) - Is(0, x)
          /\ Pending(Insertions(x))' = Pending(Insertions(x)) - Is(0, x)
          /\ Pending({Retire(x)})' = Pending({Retire(x)}) - Is(0, x)
      BY <2>14 DEF Leaves
    <3>2. Is(0, x) = 0
      BY DEF Is, EntryIds
    <3>3. Pending(Owning(x)) \in Nat /\ Pending(Insertions(x)) \in Nat /\ Pending({Retire(x)}) \in Nat
      BY <1>1, PendingIs
    <3> QED
      BY <3>1, <3>2, <3>3
  <2>16. Exact'
    <3>1. ASSUME NEW x \in EntryIds
          PROVE  heap'.entry[x].ref = heap.entry[x].ref + (Tabled(x)' - Tabled(x)) + (Cached(x)' - Cached(x))
                                      + (Held(x)' - Held(x)) + (Pending(Owning(x))' - Pending(Owning(x)))
      <4>1. Tabled(x)' = Tabled(x) /\ Pending(Owning(x))' = Pending(Owning(x))
        BY <1>7, <2>15, TabledSame
      <4>2. Cached(x)' = Cached(x) + Is(e, x) - Is(old, x)
        BY <1>1, <1>6, <2>2, CachedStep
      <4>3. Held(x)' = Held(x) + Is(Holding(e), Holding(x)) - Is(txn[t], Holding(x))
        BY <1>1, <2>2, TxnStep
      <4>4. Is(Holding(e), Holding(x)) = Is(e, x) /\ Is(txn[t], Holding(x)) = 0
        BY <1>11, TxnIs
      <4>5. Is(e, x) \in Nat /\ Is(old, x) \in Nat
        BY IsNat
      <4>6. Tabled(x) \in Nat /\ Cached(x) \in Nat /\ Held(x) \in Nat /\ Pending(Owning(x)) \in Nat
        BY <1>1, OwnersAre
      <4>7. heap'.entry[x].ref = heap.entry[x].ref + Is(e, x) + Is(e, x) - Is(old, x)
        BY <2>6, <2>7
      <4>8. heap.entry[x].ref \in Int
        BY <1>1, EntryIs
      <4>9. Held(x)' - Held(x) = Is(e, x) /\ Cached(x)' - Cached(x) = Is(e, x) - Is(old, x)
        BY <4>2, <4>3, <4>4, <4>5, <4>6
      <4>10. Tabled(x)' - Tabled(x) = 0 /\ Pending(Owning(x))' - Pending(Owning(x)) = 0
        BY <4>1, <4>6
      <4> QED
        BY <4>5, <4>7, <4>8, <4>9, <4>10
    <3>2. Counted
      BY <3>1 DEF Counted
    <3> QED
      BY <1>1, <2>12, <3>2, ExactKept
  <2>17. NewOnes'
    <3>1. Keeps
      <4>1. ASSUME NEW x \in EntryIds, heap.entry[x].live, heap.entry[x].ref = 0
            PROVE  heap'.entry[x] = heap.entry[x]
        <5>1. x # e
          BY <2>4, <4>1
        <5>2. x # old
          BY <2>5, <4>1 DEF EntryIds, NoEntry
        <5> QED
          BY <2>6, <2>7, <5>1, <5>2
      <4> QED
        BY <4>1 DEF Keeps
    <3>2. InsertionsUnmoved
      BY <2>15 DEF InsertionsUnmoved
    <3> QED
      BY <1>1, <3>1, <3>2, NewOnesKept
  <2>18. CacheCoherent'
    <3>1. Marks
      BY <2>6, <2>7 DEF Marks
    <3>2. Retires
      BY <1>1, <2>15, PendingIs DEF Retires
    <3>3. Removes
      BY <1>7, TableStays
    <3>4. Fills
      <4>1. ASSUME NEW u \in Threads, NEW j \in Servers
            PROVE  cache'[u][j] = cache[u][j] \/ cache'[u][j] = table'[j]
        <5>1. cache \in [Threads -> [Servers -> EntryIds \cup {NoEntry}]]
          BY <1>1 DEF Types
        <5> QED
          BY <1>6, <1>7, <2>2, <5>1
      <4> QED
        BY <4>1 DEF Fills
    <3> QED
      BY <1>1, <2>12, <2>16, <3>1, <3>2, <3>3, <3>4, CoherentStep
  <2>19. SettingRefExact'
    <3>1. is_inited' = is_inited /\ global' = global /\ cancels' = cancels
      BY <1>7 DEF unsharedVars
    <3>2. \A v \in Versions : In(Holding(e), Waits(v)) = In(txn[t], Waits(v))
      BY <1>11, TxnIs
    <3>3. ASSUME NEW k \in Kinds, NEW v \in Versions
          PROVE  Balance(heap', k, v) = Balance(heap, k, v) + (Owed(k, v)' - Owed(k, v))
      <4>1. Owed(k, v)' - Owed(k, v) = Pending(Versioned(k, v))' - Pending(Versioned(k, v))
        BY <1>1, <2>2, <2>12, <3>1, <3>2, OwedSame
      <4>2. In(Head(agenda[t]), Versioned(k, v)) = 0
        BY <1>8, NothingIs DEF Refers
      <4>3. Pending(Versioned(k, v))' = Pending(Versioned(k, v)) - 0 /\ Pending(Versioned(k, v)) \in Nat
        BY <1>1, <1>3, <1>7, <2>12, <4>2, Gone
      <4>4. Owed(k, v)' - Owed(k, v) = 0
        BY <4>1, <4>3
      <4>5. Balance(heap', k, v) = Balance(heap, k, v) /\ Balance(heap, k, v) \in Int
        BY <1>1, <2>6, <2>7, BalanceInt
      <4> QED
        BY <4>4, <4>5
    <3>4. Balanced
      BY <3>3 DEF Balanced
    <3> QED
      BY <1>1, <2>12, <3>1, <3>4, SettingsKept
  <2> QED
    BY <2>9, <2>12, <2>13, <2>16, <2>17, <2>18, <2>19 DEF ManagerInv
<1> QED
  BY <1>12, <1>13

(***************************************************************************)
(* Calls                                                                   *)
(***************************************************************************)

\* No task starts or ends.
LEMMA TasksStay ==
  ASSUME Drops, todo' = todo, agenda' = agenda
  PROVE  TasksUnmoved /\ VersionsUnmoved /\ Drops'
<1>1. \A X : Pending(X)' = Pending(X)
  BY DEF Pending, Places
<1>2. TasksUnmoved /\ VersionsUnmoved
  BY <1>1 DEF TasksUnmoved, VersionsUnmoved
<1> QED
  BY <1>2 DEF Drops, Paired

\* The transaction of a thread changes while it is idle.
LEMMA AnswersIdle ==
  ASSUME Types, Answers, NEW t \in Threads, Idle(t), agenda' = agenda,
         OtherTxnsStay(t)
  PROVE  Answers'
<1>1. Begin(t, <<>>)
  BY DEF Types, Idle, Begin
<1>2. Num(<<>>, Lookups) = 0
  BY NumEmpty
<1> QED
  BY <1>1, <1>2, AnswersBegin

\* What is counted and who counts stay.
LEMMA NothingMoves ==
  ASSUME ManagerInv, Types', todo' = todo, agenda' = agenda, table' = table, cache' = cache,
         txn' = txn, heap' = heap, global' = global, is_inited' = is_inited, cancels' = cancels
  PROVE  ManagerInv'
<1>1. Types /\ Exact /\ Drops /\ Answers /\ NewOnes /\ CacheCoherent
  BY DEF ManagerInv
<1>2. TasksUnmoved /\ VersionsUnmoved /\ Drops'
  BY <1>1, TasksStay
<1>3. Answers'
  BY <1>1 DEF Answers, Num, Places
<1>4. HeldUnmoved /\ Settled /\ \A e \in EntryIds : SameEntry(heap', heap, e)
  BY HeldSame DEF HeldUnmoved, SameEntry, Settled
<1>5. Exact' /\ NewOnes' /\ CacheCoherent'
  BY <1>1, <1>2, <1>4, EntriesKept
<1>6. SettingRefExact'
  BY <1>2, <1>4, SettledTask
<1> QED
  BY <1>2, <1>3, <1>5, <1>6 DEF ManagerInv

\* set_base_servers_added()
LEMMA SetBaseServersAddedKeeps ==
  ASSUME ManagerInv, SetBaseServersAdded
  PROVE  ManagerInv'
<1>1. Types'
  BY DEF SetBaseServersAdded, ManagerInv, Types
<1> QED
  BY <1>1, NothingMoves DEF SetBaseServersAdded

\* A lookup that finds congestion control turned off.
LEMMA LookupDisabledKeeps ==
  ASSUME ManagerInv, NEW t \in Threads, LookupDisabled(t)
  PROVE  ManagerInv'
<1>1. Types'
  BY DEF LookupDisabled, ManagerInv, Types
<1> QED
  BY <1>1, NothingMoves DEF LookupDisabled

\* Nothing happens.
LEMMA StutterKeeps ==
  ASSUME ManagerInv, UNCHANGED vars
  PROVE  ManagerInv'
<1>1. Types'
  BY DEF vars, ManagerInv, Types
<1> QED
  BY <1>1, NothingMoves DEF vars

\* Four tasks and the one after them.
LEMMA NumFive ==
  ASSUME NEW a \in Tasks, NEW b \in Tasks, NEW c \in Tasks, NEW d \in Tasks, NEW e \in Tasks, NEW X
  PROVE  /\ Num(<<a, b, c, d, e>>, X) = In(a, X) + In(b, X) + In(c, X) + In(d, X) + In(e, X)
         /\ <<a, b, c, d, e>> \in Seq(Tasks)
<1>1. /\ <<a, b, c, d>> \in Seq(Tasks) /\ <<a, b, c, d, e>> = Append(<<a, b, c, d>>, e)
      /\ <<a, b, c, d, e>> \in Seq(Tasks)
  OBVIOUS
<1>2. Num(Append(<<a, b, c, d>>, e), X) = Num(<<a, b, c, d>>, X) + In(e, X)
  BY <1>1, NumAppend
<1>3. Num(<<a, b, c, d>>, X) = In(a, X) + In(b, X) + In(c, X) + In(d, X)
  BY NumFour
<1> QED
  BY <1>1, <1>2, <1>3

\* The tasks around a request.
LEMMA Locked ==
  ASSUME NEW request \in Requests, NEW rest \in Seq(Tasks), NEW X
  PROVE  /\ Num(<<Run, request, Unlock>> \o rest, X)
              = In(Run, X) + In(request, X) + In(Unlock, X) + Num(rest, X)
         /\ <<Run, request, Unlock>> \o rest \in Seq(Tasks)
         /\ Paired(rest) => Paired(<<Run, request, Unlock>> \o rest)
<1>1. Run \in Tasks /\ Unlock \in Tasks /\ request \in Tasks
  BY TaskOf
<1>2. PICK a : a = <<Run, request, Unlock>>
  OBVIOUS
<1>3. Num(a, X) = In(Run, X) + In(request, X) + In(Unlock, X) /\ a \in Seq(Tasks)
  BY <1>1, <1>2, NumThree
<1>4. Num(a \o rest, X) = Num(a, X) + Num(rest, X) /\ a \o rest \in Seq(Tasks)
  BY <1>3, NumConcat
<1>5. Paired(a)
  <2>1. request.op # "set_entry_deleted_state"
    BY TaskOp DEF Requests
  <2>2. \A i \in DOMAIN a : a[i] \in {Run, request, Unlock}
    BY <1>2
  <2>3. \A i \in DOMAIN a : a[i].op # "set_entry_deleted_state"
    BY <2>1, <2>2, TaskOp
  <2> QED
    BY <2>3, PairedPlain
<1>6. Paired(rest) => Paired(a \o rest)
  BY <1>3, <1>5, PairedJoin
<1> QED
  BY <1>2, <1>3, <1>4, <1>6

\* Requests are no lookups.
LEMMA NoLookups ==
  /\ In(Run, Lookups) = 0 /\ In(Unlock, Lookups) = 0 /\ In(RemoveAll, Lookups) = 0
  /\ \A x \in Requests : In(x, Lookups) = 0
  /\ \A k, v : In(Put(k, v), Lookups) = 0 /\ In(EndUpdate(k, v), Lookups) = 0
<1>1. \A x \in Requests : x.op # "lookup_entry"
  BY TaskOp DEF Requests
<1> QED
  BY <1>1, TaskOp, LooksUp

\* MUTEX_TRY_LOCK: the request is made at once or left behind.
LEMMA LockOrQueueIs ==
  ASSUME Types, Drops, Answers, NEW t \in Threads, Idle(t), NEW request \in Requests,
         NEW rest \in Seq(Tasks), Paired(rest), Num(rest, Lookups) = 0,
         LockOrQueue(t, request, rest), txn' = txn
  PROVE  /\ bucket_mutex' \in Threads \cup {NoThread} /\ todo' \in Seq(Requests)
         /\ agenda' \in [Threads -> Seq(Tasks)] /\ Drops' /\ Answers'
<1>1. todo \in Seq(Requests) /\ bucket_mutex \in Threads \cup {NoThread}
  BY DEF Types
<1>2. CASE bucket_mutex = NoThread
  <2>1. bucket_mutex' = t /\ todo' = todo /\ Begin(t, <<Run, request, Unlock>> \o rest)
    BY <1>2 DEF LockOrQueue
  <2>2. PICK a : a = <<Run, request, Unlock>> \o rest
    OBVIOUS
  <2>3. /\ Num(a, Lookups) = In(Run, Lookups) + In(request, Lookups) + In(Unlock, Lookups) + Num(rest, Lookups)
        /\ a \in Seq(Tasks) /\ Paired(a)
    BY <2>2, Locked
  <2>4. Num(a, Lookups) = 0
    BY <2>3, NoLookups
  <2>5. Begin(t, a)
    BY <2>1, <2>2
  <2>6. Drops' /\ agenda' \in [Threads -> Seq(Tasks)]
    BY <2>3, <2>5, DropsBegin
  <2>7. OtherTxnsStay(t)
    BY DEF OtherTxnsStay
  <2>8. Answers'
    BY <2>4, <2>5, <2>7, AnswersBegin
  <2> QED
    BY <1>1, <2>1, <2>6, <2>8
<1>3. CASE bucket_mutex # NoThread
  <2>1. bucket_mutex' = bucket_mutex /\ todo' = Append(todo, request) /\ Begin(t, rest)
    BY <1>3 DEF LockOrQueue
  <2>2. Drops' /\ agenda' \in [Threads -> Seq(Tasks)]
    BY <2>1, DropsBegin
  <2>3. OtherTxnsStay(t)
    BY DEF OtherTxnsStay
  <2>4. Answers'
    BY <2>1, <2>3, AnswersBegin
  <2>5. todo' \in Seq(Requests)
    BY <1>1, <2>1
  <2> QED
    BY <1>1, <2>1, <2>2, <2>4, <2>5
<1> QED
  BY <1>2, <1>3

\* Either way it is under way, with what comes after it.
LEMMA LockOrQueuePending ==
  ASSUME Types, Types', NEW t \in Threads, Idle(t), NEW request \in Requests,
         NEW rest \in Seq(Tasks), LockOrQueue(t, request, rest), NEW X, Run \notin X, Unlock \notin X
  PROVE  /\ Pending(X)' = Pending(X) + In(request, X) + Num(rest, X)
         /\ Pending(X) \in Nat /\ Num(rest, X) \in Nat
<1>1. todo \in Seq(Requests)
  BY DEF Types
<1>2. Pending(X) \in Nat /\ Num(rest, X) \in Nat /\ In(request, X) \in Nat /\ Num(todo, X) \in Nat
  BY <1>1, PendingIs, NumNat, InNat
<1>3. CASE bucket_mutex = NoThread
  <2>1. todo' = todo /\ Begin(t, <<Run, request, Unlock>> \o rest)
    BY <1>3 DEF LockOrQueue
  <2>2. PICK a : a = <<Run, request, Unlock>> \o rest
    OBVIOUS
  <2>3. /\ Num(a, X) = In(Run, X) + In(request, X) + In(Unlock, X) + Num(rest, X)
        /\ a \in Seq(Tasks)
    BY <2>2, Locked
  <2>4. In(Run, X) = 0 /\ In(Unlock, X) = 0
    BY DEF In
  <2>5. Begin(t, a)
    BY <2>1, <2>2
  <2>6. Pending(X)' = Pending(X) + Num(a, X) + (Num(todo', X) - Num(todo, X))
    BY <2>3, <2>5, Begun
  <2>7. Num(todo', X) - Num(todo, X) = 0
    BY <1>2, <2>1
  <2>8. Num(a, X) = In(request, X) + Num(rest, X)
    BY <1>2, <2>3, <2>4
  <2> QED
    BY <1>2, <2>6, <2>7, <2>8
<1>4. CASE bucket_mutex # NoThread
  <2>1. todo' = Append(todo, request) /\ Begin(t, rest)
    BY <1>4 DEF LockOrQueue
  <2>2. Num(Append(todo, request), X) = Num(todo, X) + In(request, X)
    BY <1>1, NumAppend
  <2>3. Pending(X)' = Pending(X) + Num(rest, X) + (Num(todo', X) - Num(todo, X))
    BY <2>1, Begun
  <2>4. Num(todo', X) - Num(todo, X) = In(request, X)
    BY <1>2, <2>1, <2>2
  <2> QED
    BY <1>2, <2>3, <2>4
<1> QED
  BY <1>2, <1>3, <1>4

\* Taking and freeing the mutex means nothing to entries and versions.
LEMMA PlainTasks ==
  /\ \A e : Run \notin Owning(e) /\ Run \notin Insertions(e) /\ Run \notin {Retire(e)}
  /\ \A e : Unlock \notin Owning(e) /\ Unlock \notin Insertions(e) /\ Unlock \notin {Retire(e)}
  /\ \A k, v : Run \notin Versioned(k, v) /\ Unlock \notin Versioned(k, v)
BY TaskOp DEF Owning, Insertions, Versioned

\* A request that has nothing to do with entries, with tasks that have not.
LEMMA PlainRequest ==
  ASSUME Types, Types', NEW t \in Threads, Idle(t), NEW request \in Requests, Handles(request, 0, 0, 0),
         NEW rest \in Seq(Tasks), \A i \in DOMAIN rest : Handles(rest[i], 0, 0, 0),
         LockOrQueue(t, request, rest)
  PROVE  TasksUnmoved
<1> SUFFICES ASSUME NEW e \in EntryIds
             PROVE  /\ Pending(Owning(e))' = Pending(Owning(e))
                    /\ Pending(Insertions(e))' = Pending(Insertions(e))
                    /\ Pending({Retire(e)})' = Pending({Retire(e)})
  BY DEF TasksUnmoved
<1>1. ASSUME NEW x, Handles(x, 0, 0, 0)
      PROVE  In(x, Owning(e)) = 0 /\ In(x, Insertions(e)) = 0 /\ In(x, {Retire(e)}) = 0
  BY <1>1 DEF Handles, Is, EntryIds
<1>2. ASSUME NEW X, Run \notin X, Unlock \notin X, In(request, X) = 0,
             \A i \in DOMAIN rest : In(rest[i], X) = 0
      PROVE  Pending(X)' = Pending(X)
  <2>1. \A i \in DOMAIN rest : rest[i] \notin X
    BY <1>2 DEF In
  <2>2. Num(rest, X) = 0
    BY <2>1, NumZero
  <2>3. Pending(X)' = Pending(X) + In(request, X) + Num(rest, X) /\ Pending(X) \in Nat
    BY <1>2, LockOrQueuePending
  <2> QED
    BY <1>2, <2>2, <2>3
<1>3. Pending(Owning(e))' = Pending(Owning(e))
  BY <1>1, <1>2, PlainTasks
<1>4. Pending(Insertions(e))' = Pending(Insertions(e))
  BY <1>1, <1>2, PlainTasks
<1>5. Pending({Retire(e)})' = Pending({Retire(e)})
  BY <1>1, <1>2, PlainTasks
<1> QED
  BY <1>3, <1>4, <1>5

\* update_server()
LEMMA UpdateServerKeeps ==
  ASSUME ManagerInv, NEW t \in Threads, NEW s \in Servers, NEW st \in States, UpdateServer(t, s, st)
  PROVE  ManagerInv'
<1>1. Types /\ Exact /\ Drops /\ Answers /\ NewOnes /\ CacheCoherent
  BY DEF ManagerInv
<1>2. /\ Idle(t) /\ LockOrQueue(t, Revalidate(s, st), <<>>)
      /\ rw_lock' = rw_lock /\ table' = table /\ cache' = cache /\ txn' = txn /\ heap' = heap
      /\ global' = global /\ is_inited' = is_inited /\ cancels' = cancels
      /\ updates < MaxUpdates /\ updates' = updates + 1 /\ issued' = [issued EXCEPT ![s] = st]
      /\ is_congestion_enabled' = is_congestion_enabled /\ is_base_servers_added' = is_base_servers_added
  BY DEF UpdateServer
<1>3. PICK r, q : r = Revalidate(s, st) /\ q = <<>>
  OBVIOUS
<1>4. r \in Requests /\ q \in Seq(Tasks) /\ Paired(q) /\ Num(q, Lookups) = 0
  BY <1>3, TaskOf, NumEmpty DEF Paired
<1>5. LockOrQueue(t, r, q)
  BY <1>2, <1>3
<1>6. /\ bucket_mutex' \in Threads \cup {NoThread} /\ todo' \in Seq(Requests)
      /\ agenda' \in [Threads -> Seq(Tasks)] /\ Drops' /\ Answers'
  BY <1>1, <1>2, <1>4, <1>5, LockOrQueueIs
<1>7. Types'
  <2>1. updates' \in 0 .. MaxUpdates
    BY <1>1, <1>2, ManagerAssumption DEF Types
  <2>2. issued' \in [Servers -> States \cup {"ACTIVE", "DELETED"}]
    BY <1>1, <1>2 DEF Types
  <2> QED
    BY <1>1, <1>2, <1>6, <2>1, <2>2 DEF Types
<1>8. TasksUnmoved
  <2>1. Handles(r, 0, 0, 0)
    BY <1>3, HandlesWhat
  <2>2. DOMAIN q = {}
    BY <1>3
  <2> QED
    BY <1>1, <1>2, <1>4, <1>5, <1>7, <2>1, <2>2, PlainRequest
<1>9. VersionsUnmoved
  <2>1. ASSUME NEW k \in Kinds, NEW v \in Versions PROVE Pending(Versioned(k, v))' = Pending(Versioned(k, v))
    <3>1. In(r, Versioned(k, v)) = 0
      <4>1. Refers(r, Nothing)
        BY <1>3, RefersWhat
      <4>2. In(r, Versioned(k, v)) = Is(Nothing, <<k, v>>)
        BY <4>1 DEF Refers
      <4> QED
        BY <4>2, NothingIs
    <3>2. Num(q, Versioned(k, v)) = 0
      BY <1>3, NumEmpty
    <3>3. /\ Pending(Versioned(k, v))' = Pending(Versioned(k, v)) + In(r, Versioned(k, v)) + Num(q, Versioned(k, v))
          /\ Pending(Versioned(k, v)) \in Nat
      BY <1>1, <1>2, <1>4, <1>5, <1>7, PlainTasks, LockOrQueuePending
    <3> QED
      BY <3>1, <3>2, <3>3
  <2> QED
    BY <2>1 DEF VersionsUnmoved
<1>10. HeldUnmoved /\ Settled /\ \A e \in EntryIds : SameEntry(heap', heap, e)
  BY <1>2, HeldSame DEF HeldUnmoved, SameEntry, Settled
<1>11. Exact' /\ NewOnes' /\ CacheCoherent'
  BY <1>1, <1>2, <1>7, <1>8, <1>10, EntriesKept
<1>12. SettingRefExact'
  BY <1>2, <1>7, <1>9, <1>10, SettledTask
<1> QED
  BY <1>6, <1>7, <1>11, <1>12 DEF ManagerInv

\* One if it is that version of that kind.
LEMMA IsOf == \A k, v, j, w : Is(<<k, v>>, <<j, w>>) = Of(k, v, j, w)
BY DEF Is, Of

\* One or zero.
LEMMA OfNat == \A k, v, j, w : Of(k, v, j, w) \in Nat
BY DEF Of

\* The pointer to a version is replaced.
LEMMA CurrentStep ==
  ASSUME Types, is_inited, is_inited' = is_inited, NEW k \in Kinds, NEW v \in Versions,
         global' = [global EXCEPT ![k] = v], NEW j \in Kinds, NEW w \in Versions
  PROVE  Current(j, w)' = Current(j, w) + (Of(k, v, j, w) - Of(k, global[k], j, w))
<1>1. global \in [Kinds -> Versions] /\ global'[k] = v
  BY DEF Types
<1>2. CASE j = k
  BY <1>1, <1>2 DEF Current, Of
<1>3. CASE j # k
  BY <1>1, <1>3 DEF Current, Of
<1> QED
  BY <1>2, <1>3

\* References to the old and the new version, after the pointer is replaced.
Replaces(h, k, o, v) == GetSetting(GetSetting(PutSetting(h, k, o), k, v), k, v)

\* Their counts.
LEMMA ReplacesIs ==
  ASSUME NEW h \in Heaps, NEW k \in Kinds, NEW o \in Versions, NEW v \in Versions,
         NEW g, g = Replaces(h, k, o, v)
  PROVE  /\ g \in Heaps /\ g.entry = h.entry
         /\ \A j \in Kinds, w \in Versions :
              Balance(g, j, w) = Balance(h, j, w) + 2 * Of(k, v, j, w) - Of(k, o, j, w)
<1>1. PICK a : a = PutSetting(h, k, o)
  OBVIOUS
<1>2. PICK b : b = GetSetting(a, k, v)
  OBVIOUS
<1>3. g = GetSetting(b, k, v)
  BY <1>1, <1>2 DEF Replaces
<1>4. /\ a \in Heaps /\ a.entry = h.entry
      /\ \A j \in Kinds, w \in Versions : Balance(a, j, w) = Balance(h, j, w) - Of(k, o, j, w)
  BY <1>1, PutIs
<1>5. /\ b \in Heaps /\ b.entry = a.entry
      /\ \A j \in Kinds, w \in Versions : Balance(b, j, w) = Balance(a, j, w) + Of(k, v, j, w)
  BY <1>2, <1>4, GetIs
<1>6. /\ g \in Heaps /\ g.entry = b.entry
      /\ \A j \in Kinds, w \in Versions : Balance(g, j, w) = Balance(b, j, w) + Of(k, v, j, w)
  BY <1>3, <1>5, GetIs
<1>7. ASSUME NEW j \in Kinds, NEW w \in Versions
      PROVE  Balance(g, j, w) = Balance(h, j, w) + 2 * Of(k, v, j, w) - Of(k, o, j, w)
  <2>1. Balance(h, j, w) \in Int /\ Of(k, v, j, w) \in Nat /\ Of(k, o, j, w) \in Nat
    BY BalanceInt, OfNat
  <2>2. /\ Balance(a, j, w) = Balance(h, j, w) - Of(k, o, j, w)
        /\ Balance(b, j, w) = Balance(a, j, w) + Of(k, v, j, w)
        /\ Balance(g, j, w) = Balance(b, j, w) + Of(k, v, j, w)
    BY <1>4, <1>5, <1>6
  <2> QED
    BY <2>1, <2>2
<1> QED
  BY <1>4, <1>5, <1>6, <1>7

\* update_congestion_config(), update_zone(), once servers can be there.
LEMMA UpdateSettingKeeps ==
  ASSUME ManagerInv, NEW t \in Threads, NEW k \in Kinds, UpdateSetting(t, k)
  PROVE  ManagerInv'
<1>1. /\ Types /\ Exact /\ Drops /\ Answers /\ NewOnes /\ CacheCoherent /\ SettingRefExact
      /\ heap \in Heaps /\ global \in [Kinds -> Versions]
  BY DEF ManagerInv, Types
<1>2. PICK o, v : o = global[k] /\ v = global[k] + 1
  OBVIOUS
<1>3. /\ is_inited /\ Idle(t) /\ o \in Versions /\ v \in Versions /\ global' = [global EXCEPT ![k] = v]
      /\ table' = table /\ cache' = cache /\ txn' = txn /\ is_inited' = is_inited /\ cancels' = cancels
      /\ is_congestion_enabled' = is_congestion_enabled /\ is_base_servers_added' = is_base_servers_added
      /\ issued' = issued /\ updates' = updates
  BY <1>1, <1>2 DEF UpdateSetting
<1>4. PICK h, g : h = heap /\ g = Replaces(heap, k, o, v)
  OBVIOUS
<1>5. \/ /\ rw_lock' = t /\ heap' = GetSetting(g, k, v)
         /\ LockOrQueue(t, Bucket(k, v), <<EndUpdate(k, v)>>)
      \/ /\ heap' = PutSetting(g, k, v) /\ UNCHANGED <<rw_lock, bucket_mutex, todo, agenda>>
  BY <1>2, <1>4 DEF UpdateSetting, Replaces
<1>6. /\ g \in Heaps /\ g.entry = h.entry
      /\ \A j \in Kinds, w \in Versions :
              Balance(g, j, w) = Balance(h, j, w) + 2 * Of(k, v, j, w) - Of(k, o, j, w)
  BY <1>1, <1>3, <1>4, ReplacesIs
<1>7. global' \in [Kinds -> Versions]
  BY <1>1, <1>3
<1>8. ASSUME NEW j \in Kinds, NEW w \in Versions, Types'
      PROVE  Owed(j, w)' - Owed(j, w) = (Of(k, v, j, w) - Of(k, o, j, w))
                                        + (Pending(Versioned(j, w))' - Pending(Versioned(j, w)))
  <2>1. Waiters(j, w)' = Waiters(j, w)
    BY <1>3 DEF Waiters, Hits
  <2>2. Current(j, w)' = Current(j, w) + (Of(k, v, j, w) - Of(k, o, j, w))
    BY <1>1, <1>2, <1>3, CurrentStep
  <2>3. /\ Owed(j, w) = Current(j, w) + Pending(Versioned(j, w)) + Waiters(j, w)
        /\ Owed(j, w)' = Current(j, w)' + Pending(Versioned(j, w))' + Waiters(j, w)'
    BY DEF Owed
  <2>4. Current(j, w) \in Nat /\ Pending(Versioned(j, w)) \in Nat /\ Waiters(j, w) \in Nat
    BY <1>1, OwedIs
  <2>5. Pending(Versioned(j, w))' \in Nat
    BY <1>8, OwedIsNext
  <2>6. Of(k, v, j, w) \in Nat /\ Of(k, o, j, w) \in Nat
    BY OfNat
  <2> QED
    BY <2>1, <2>2, <2>3, <2>4, <2>5, <2>6
<1>9. CASE /\ rw_lock' = t /\ heap' = GetSetting(g, k, v)
           /\ LockOrQueue(t, Bucket(k, v), <<EndUpdate(k, v)>>)
  <2>1. PICK r, q, f : r = Bucket(k, v) /\ q = <<EndUpdate(k, v)>> /\ f = heap'
    OBVIOUS
  <2>2. r \in Requests /\ q \in Seq(Tasks) /\ Paired(q) /\ Num(q, Lookups) = 0
    <3>1. EndUpdate(k, v) \in Tasks /\ r \in Requests
      BY <1>3, <2>1, TaskOf
    <3>2. q \in Seq(Tasks) /\ \A i \in DOMAIN q : q[i] = EndUpdate(k, v)
      BY <2>1, <3>1
    <3>3. Paired(q)
      BY <3>2, TaskOp, PairedPlain
    <3>4. Num(q, Lookups) = 0
      BY <2>1, NumOne, NoLookups
    <3> QED
      BY <3>1, <3>2, <3>3, <3>4
  <2>3. LockOrQueue(t, r, q)
    BY <1>9, <2>1
  <2>4. /\ bucket_mutex' \in Threads \cup {NoThread} /\ todo' \in Seq(Requests)
        /\ agenda' \in [Threads -> Seq(Tasks)] /\ Drops' /\ Answers'
    BY <1>1, <1>3, <2>2, <2>3, LockOrQueueIs
  <2>5. /\ f \in Heaps /\ f.entry = g.entry
        /\ \A j \in Kinds, w \in Versions : Balance(f, j, w) = Balance(g, j, w) + Of(k, v, j, w)
    BY <1>3, <1>6, <1>9, <2>1, GetIs
  <2>6. Types'
    BY <1>1, <1>3, <1>7, <1>9, <2>1, <2>4, <2>5 DEF Types
  <2>7. TasksUnmoved
    <3>1. Handles(r, 0, 0, 0)
      BY <2>1, HandlesWhat
    <3>2. \A i \in DOMAIN q : Handles(q[i], 0, 0, 0)
      BY <2>1, HandlesWhat
    <3> QED
      BY <1>1, <1>3, <2>2, <2>3, <2>6, <3>1, <3>2, PlainRequest
  <2>8. HeldUnmoved /\ \A e \in EntryIds : SameEntry(heap', heap, e)
    BY <1>3, <1>4, <1>6, <2>1, <2>5, HeldSame DEF HeldUnmoved, SameEntry
  <2>9. Exact' /\ NewOnes' /\ CacheCoherent'
    BY <1>1, <1>3, <2>6, <2>7, <2>8, EntriesKept
  <2>10. ASSUME NEW j \in Kinds, NEW w \in Versions
         PROVE  Balance(heap', j, w) = Balance(heap, j, w) + (Owed(j, w)' - Owed(j, w))
    <3>1. In(r, Versioned(j, w)) = Of(k, v, j, w)
      <4>1. Refers(r, <<k, v>>)
        BY <1>3, <2>1, RefersWhat
      <4>2. In(r, Versioned(j, w)) = Is(<<k, v>>, <<j, w>>)
        BY <4>1 DEF Refers
      <4> QED
        BY <4>2, IsOf
    <3>2. Num(q, Versioned(j, w)) = Of(k, v, j, w)
      <4>1. Refers(EndUpdate(k, v), <<k, v>>)
        BY <1>3, RefersWhat
      <4>2. In(EndUpdate(k, v), Versioned(j, w)) = Is(<<k, v>>, <<j, w>>)
        BY <4>1 DEF Refers
      <4> QED
        BY <2>1, <4>2, IsOf, NumOne
    <3>3. /\ Pending(Versioned(j, w))' = Pending(Versioned(j, w)) + In(r, Versioned(j, w)) + Num(q, Versioned(j, w))
          /\ Pending(Versioned(j, w)) \in Nat
      BY <1>1, <1>3, <2>2, <2>3, <2>6, PlainTasks, LockOrQueuePending
    <3>4. Of(k, v, j, w) \in Nat /\ Of(k, o, j, w) \in Nat /\ Balance(h, j, w) \in Int
      BY <1>1, <1>4, OfNat, BalanceInt
    <3>5. Pending(Versioned(j, w))' - Pending(Versioned(j, w)) = 2 * Of(k, v, j, w)
      BY <3>1, <3>2, <3>3, <3>4
    <3>6. Owed(j, w)' - Owed(j, w) = (Of(k, v, j, w) - Of(k, o, j, w)) + 2 * Of(k, v, j, w)
      BY <1>8, <2>6, <3>5
    <3>7. Balance(f, j, w) = Balance(h, j, w) + 2 * Of(k, v, j, w) - Of(k, o, j, w) + Of(k, v, j, w)
      BY <1>6, <2>5
    <3>8. Balance(f, j, w) = Balance(h, j, w) + (Owed(j, w)' - Owed(j, w))
      BY <3>4, <3>6, <3>7
    <3> QED
      BY <1>4, <2>1, <3>8
  <2>11. Balanced
    BY <2>10 DEF Balanced
  <2>12. SettingRefExact'
    BY <1>1, <1>3, <2>6, <2>11, SettingsKept
  <2> QED
    BY <2>4, <2>6, <2>9, <2>12 DEF ManagerInv
<1>10. CASE heap' = PutSetting(g, k, v) /\ UNCHANGED <<rw_lock, bucket_mutex, todo, agenda>>
  <2>1. PICK f : f = heap'
    OBVIOUS
  <2>2. /\ f \in Heaps /\ f.entry = g.entry
        /\ \A j \in Kinds, w \in Versions : Balance(f, j, w) = Balance(g, j, w) - Of(k, v, j, w)
    BY <1>3, <1>6, <1>10, <2>1, PutIs
  <2>3. Types'
    BY <1>1, <1>3, <1>7, <1>10, <2>1, <2>2 DEF Types
  <2>4. TasksUnmoved /\ VersionsUnmoved /\ Drops'
    BY <1>1, <1>10, TasksStay
  <2>5. Answers'
    BY <1>1, <1>3, <1>10 DEF Answers, Num, Places
  <2>6. HeldUnmoved /\ \A e \in EntryIds : SameEntry(heap', heap, e)
    BY <1>3, <1>4, <1>6, <2>1, <2>2, HeldSame DEF HeldUnmoved, SameEntry
  <2>7. Exact' /\ NewOnes' /\ CacheCoherent'
    BY <1>1, <1>3, <2>3, <2>4, <2>6, EntriesKept
  <2>8. ASSUME NEW j \in Kinds, NEW w \in Versions
        PROVE  Balance(heap', j, w) = Balance(heap, j, w) + (Owed(j, w)' - Owed(j, w))
    <3>1. Pending(Versioned(j, w))' = Pending(Versioned(j, w)) /\ Pending(Versioned(j, w)) \in Nat
      BY <1>1, <2>4, PendingIs DEF VersionsUnmoved
    <3>2. Of(k, v, j, w) \in Nat /\ Of(k, o, j, w) \in Nat /\ Balance(h, j, w) \in Int
      BY <1>1, <1>4, OfNat, BalanceInt
    <3>3. Pending(Versioned(j, w))' - Pending(Versioned(j, w)) = 0
      BY <3>1
    <3>4. Owed(j, w)' - Owed(j, w) = (Of(k, v, j, w) - Of(k, o, j, w)) + 0
      BY <1>8, <2>3, <3>3
    <3>5. Balance(g, j, w) = Balance(h, j, w) + 2 * Of(k, v, j, w) - Of(k, o, j, w)
      BY <1>6
    <3>7. Balance(f, j, w) = Balance(g, j, w) - Of(k, v, j, w)
      BY <2>2
    <3>6. Balance(f, j, w) = Balance(h, j, w) + (Owed(j, w)' - Owed(j, w))
      BY <3>2, <3>4, <3>5, <3>7
    <3> QED
      BY <1>4, <2>1, <3>6
  <2>9. Balanced
    BY <2>8 DEF Balanced
  <2>10. SettingRefExact'
    BY <1>1, <1>3, <2>3, <2>9, SettingsKept
  <2> QED
    BY <2>3, <2>4, <2>5, <2>7, <2>10 DEF ManagerInv
<1> QED
  BY <1>5, <1>9, <1>10

\* What versions are owed when a transaction changes too.
LEMMA OwedTxn ==
  ASSUME Types, Types', is_inited' = is_inited, global' = global, NEW t \in Threads, NEW n,
         txn' = [txn EXCEPT ![t] = n], NEW k \in Kinds, NEW v \in Versions
  PROVE  Owed(k, v)' - Owed(k, v) = (Pending(Versioned(k, v))' - Pending(Versioned(k, v)))
            + (IF k = "config" THEN In(n, Waits(v)) - In(txn[t], Waits(v)) ELSE 0)
<1>1. Current(k, v)' = Current(k, v)
  BY DEF Current
<1>2. PICK d : d = IF k = "config" THEN In(n, Waits(v)) - In(txn[t], Waits(v)) ELSE 0
  OBVIOUS
<1>3. In(n, Waits(v)) \in Nat /\ In(txn[t], Waits(v)) \in Nat
  BY InNat
<1>4. d \in Int
  BY <1>2, <1>3
<1>5. Waiters(k, v)' = Waiters(k, v) + d
  <2>1. CASE k = "config"
    <3>1. Waiters("config", v)' = Waiters("config", v) + In(n, Waits(v)) - In(txn[t], Waits(v))
      BY TxnStep
    <3>2. Waiters("config", v) \in Nat
      BY <2>1, OwedIs
    <3>3. Waiters("config", v)' = Waiters("config", v) + d
      BY <1>2, <1>3, <2>1, <3>1, <3>2
    <3> QED
      BY <2>1, <3>3
  <2>2. CASE k # "config"
    BY <1>2, <2>2 DEF Waiters
  <2> QED
    BY <2>1, <2>2
<1>6. /\ Owed(k, v) = Current(k, v) + Pending(Versioned(k, v)) + Waiters(k, v)
      /\ Owed(k, v)' = Current(k, v)' + Pending(Versioned(k, v))' + Waiters(k, v)'
  BY DEF Owed
<1>7. Current(k, v) \in Nat /\ Pending(Versioned(k, v)) \in Nat /\ Waiters(k, v) \in Nat
  BY OwedIs
<1>8. Pending(Versioned(k, v))' \in Nat
  BY OwedIsNext
<1>9. Owed(k, v)' - Owed(k, v) = (Pending(Versioned(k, v))' - Pending(Versioned(k, v))) + d
  BY <1>1, <1>4, <1>5, <1>6, <1>7, <1>8
<1> QED
  BY <1>2, <1>9

\* Neither waits.
NoWait(n) == \A v \in Versions : In(n, Waits(v)) = 0

\* A transaction that does not wait changes.
LEMMA SettledTxn ==
  ASSUME ManagerInv, Types', Settled, VersionsUnmoved, is_inited' = is_inited, global' = global,
         cancels' = cancels, NEW t \in Threads, NEW n, txn' = [txn EXCEPT ![t] = n], NoWait(n), NoWait(txn[t])
  PROVE  SettingRefExact'
<1>1. Types /\ SettingRefExact
  BY DEF ManagerInv
<1>2. ASSUME NEW k \in Kinds, NEW v \in Versions
      PROVE  Balance(heap', k, v) = Balance(heap, k, v) + (Owed(k, v)' - Owed(k, v))
  <2>1. Owed(k, v)' - Owed(k, v) = (Pending(Versioned(k, v))' - Pending(Versioned(k, v)))
            + (IF k = "config" THEN In(n, Waits(v)) - In(txn[t], Waits(v)) ELSE 0)
    BY <1>1, OwedTxn
  <2>2. Pending(Versioned(k, v))' = Pending(Versioned(k, v)) /\ Pending(Versioned(k, v)) \in Nat
    BY <1>1, PendingIs DEF VersionsUnmoved
  <2>3. In(n, Waits(v)) = 0 /\ In(txn[t], Waits(v)) = 0
    BY DEF NoWait
  <2>4. Owed(k, v)' - Owed(k, v) = 0
    BY <2>1, <2>2, <2>3
  <2>5. Balance(heap', k, v) = Balance(heap, k, v) /\ Balance(heap, k, v) \in Int
    BY <1>1, BalanceInt DEF Types, Settled
  <2> QED
    BY <2>4, <2>5
<1>3. Balanced
  BY <1>2 DEF Balanced
<1> QED
  BY <1>1, <1>3, SettingsKept

\* An idle thread changes what it has found.
LEMMA IdleStep ==
  ASSUME ManagerInv, Types', NEW t \in Threads, Idle(t), OtherTxnsStay(t), todo' = todo, agenda' = agenda,
         table' = table, Fills, Marks, Keeps, Counted
  PROVE  Drops' /\ Answers' /\ NewOnes' /\ Exact' /\ CacheCoherent' /\ VersionsUnmoved
<1>1. Types /\ Exact /\ Drops /\ Answers /\ NewOnes /\ CacheCoherent
  BY DEF ManagerInv
<1>2. TasksUnmoved /\ VersionsUnmoved /\ Drops'
  BY <1>1, TasksStay
<1>3. Answers'
  BY <1>1, AnswersIdle
<1>4. Exact'
  BY <1>1, ExactKept
<1>5. NewOnes'
  <2>1. InsertionsUnmoved
    BY <1>2 DEF InsertionsUnmoved, TasksUnmoved
  <2> QED
    BY <1>1, <2>1, NewOnesKept
<1>6. CacheCoherent'
  <2>1. Retires
    <3>1. ASSUME NEW e \in EntryIds PROVE Pending({Retire(e)})' >= Pending({Retire(e)})
      <4>1. Pending({Retire(e)})' = Pending({Retire(e)})
        BY <1>2 DEF TasksUnmoved
      <4>2. Pending({Retire(e)}) \in Nat
        BY <1>1, PendingIs
      <4> QED
        BY <4>1, <4>2
    <3> QED
      BY <3>1 DEF Retires
  <2>2. Removes
    BY TableStays
  <2> QED
    BY <1>1, <1>4, <2>1, <2>2, CoherentStep
<1> QED
  BY <1>2, <1>3, <1>4, <1>5, <1>6

\* get_congest_entry() that finds the entry in the thread's cache.
LEMMA LookupInCacheKeeps ==
  ASSUME ManagerInv, NEW t \in Threads, NEW s \in Servers, LookupInCache(t, s)
  PROVE  ManagerInv'
<1>1. /\ Types /\ Exact /\ heap \in Heaps /\ cache \in [Threads -> [Servers -> EntryIds \cup {NoEntry}]]
      /\ txn \in [Threads -> Txns] /\ Drops
  BY DEF ManagerInv, Types
<1>2. PICK e : e = cache[t][s]
  OBVIOUS
<1>3. /\ Idle(t) /\ txn[t] = NoTxn /\ e # NoEntry /\ heap' = IncRef(heap, e)
      /\ txn' = [txn EXCEPT ![t] = Holding(e)]
      /\ bucket_mutex' = bucket_mutex /\ rw_lock' = rw_lock /\ todo' = todo /\ agenda' = agenda
      /\ table' = table /\ cache' = cache /\ global' = global
      /\ is_congestion_enabled' = is_congestion_enabled /\ is_base_servers_added' = is_base_servers_added
      /\ is_inited' = is_inited /\ issued' = issued /\ updates' = updates /\ cancels' = cancels
  BY <1>2 DEF LookupInCache, CanLookup, CacheHit
<1>4. e \in EntryIds
  BY <1>1, <1>2, <1>3
<1>5. heap.entry[e].live /\ heap.entry[e].ref >= 1
  BY <1>1, <1>2, <1>4, Owned
<1>6. /\ heap' \in Heaps /\ Settled /\ Marks
      /\ \A x \in EntryIds : /\ heap'.entry[x].ref = heap.entry[x].ref + Is(e, x)
                             /\ heap'.entry[x].live <=> heap.entry[x].live
  BY <1>1, <1>3, <1>4, <1>5, IncRefStep
<1>7. txn' \in [Threads -> Txns]
  BY <1>1, <1>3, <1>4 DEF Txns
<1>8. Types'
  BY <1>1, <1>3, <1>6, <1>7 DEF Types
<1>9. Keeps
  <2>1. ASSUME NEW x \in EntryIds, heap.entry[x].live, heap.entry[x].ref = 0
        PROVE  heap'.entry[x].live /\ heap'.entry[x].ref = 0
    <3>1. Is(e, x) = 0
      BY <1>5, <2>1 DEF Is
    <3> QED
      BY <1>6, <2>1, <3>1
  <2> QED
    BY <2>1 DEF Keeps
<1>10. OtherTxnsStay(t) /\ Fills
  BY <1>1, <1>3, TableFills DEF OtherTxnsStay
<1>11. ASSUME NEW x \in EntryIds
       PROVE  heap'.entry[x].ref = heap.entry[x].ref + (Tabled(x)' - Tabled(x)) + (Cached(x)' - Cached(x))
                                   + (Held(x)' - Held(x)) + (Pending(Owning(x))' - Pending(Owning(x)))
  <2>1. Tabled(x)' = Tabled(x) /\ Cached(x)' = Cached(x)
    BY <1>3, TabledSame, CachedSame
  <2>2. Tabled(x) \in Nat /\ Cached(x) \in Nat /\ Held(x) \in Nat /\ Pending(Owning(x)) \in Nat
    BY <1>1, OwnersAre
  <2>3. Is(e, x) \in Nat /\ heap.entry[x].ref \in Int
    BY <1>1, IsNat, EntryIs
  <2>4. heap'.entry[x].ref = heap.entry[x].ref + Is(e, x)
    BY <1>6
  <2>5. Pending(Owning(x))' = Pending(Owning(x))
    BY <1>1, <1>3, TasksStay DEF TasksUnmoved
  <2>6. Held(x)' = Held(x) + Is(Holding(e), Holding(x)) - Is(NoTxn, Holding(x))
    BY <1>1, <1>3, TxnStep
  <2>7. Is(Holding(e), Holding(x)) = Is(e, x) /\ Is(NoTxn, Holding(x)) = 0
    BY TxnIs
  <2> QED
    BY <2>1, <2>2, <2>3, <2>4, <2>5, <2>6, <2>7
<1>12. Counted
  BY <1>11 DEF Counted
<1>13. Drops' /\ Answers' /\ NewOnes' /\ Exact' /\ CacheCoherent' /\ VersionsUnmoved
  BY <1>3, <1>6, <1>8, <1>9, <1>10, <1>12, IdleStep
<1>14. SettingRefExact'
  <2>1. PICK n : n = Holding(e)
    OBVIOUS
  <2>2. NoWait(n) /\ NoWait(txn[t])
    BY <1>3, <2>1, TxnIs DEF NoWait
  <2>3. txn' = [txn EXCEPT ![t] = n]
    BY <1>3, <2>1
  <2> QED
    BY <1>3, <1>6, <1>8, <1>13, <2>2, <2>3, SettledTxn
<1> QED
  BY <1>8, <1>13, <1>14 DEF ManagerInv

\* What a transaction is doing.
LEMMA TxnAt ==
  ASSUME NEW x \in Txns
  PROVE  /\ x.at = "holding" => \E e \in EntryIds : x = Holding(e) /\ x.entry = e
         /\ x.at = "waiting" => \E s \in Servers, v \in Versions :
                                   x = Waiting(s, v) /\ x.server = s /\ x.version = v
BY DEF Txns, NoTxn, Holding, Waiting

\* reset_congestion_entry()
LEMMA ReleaseEntryKeeps ==
  ASSUME ManagerInv, NEW t \in Threads, ReleaseEntry(t)
  PROVE  ManagerInv'
<1>1. /\ Types /\ Exact /\ heap \in Heaps /\ txn \in [Threads -> Txns] /\ Drops
  BY DEF ManagerInv, Types
<1>2. txn[t] \in Txns /\ txn[t].at = "holding"
  BY <1>1 DEF ReleaseEntry
<1>3. PICK e \in EntryIds : txn[t] = Holding(e) /\ txn[t].entry = e
  BY <1>2, TxnAt
<1>4. /\ Idle(t) /\ heap' = DecRef(heap, e) /\ txn' = [txn EXCEPT ![t] = NoTxn]
      /\ bucket_mutex' = bucket_mutex /\ rw_lock' = rw_lock /\ todo' = todo /\ agenda' = agenda
      /\ table' = table /\ cache' = cache /\ global' = global
      /\ is_congestion_enabled' = is_congestion_enabled /\ is_base_servers_added' = is_base_servers_added
      /\ is_inited' = is_inited /\ issued' = issued /\ updates' = updates /\ cancels' = cancels
  BY <1>3 DEF ReleaseEntry
<1>5. heap.entry[e].live /\ heap.entry[e].ref >= 1
  BY <1>1, <1>3, Owned
<1>6. /\ heap' \in Heaps /\ Settled /\ Marks /\ Keeps
      /\ \A x \in EntryIds : heap'.entry[x].ref = heap.entry[x].ref - Is(e, x)
  BY <1>1, <1>4, <1>5, DecRefStep
<1>7. txn' \in [Threads -> Txns]
  BY <1>1, <1>4 DEF Txns
<1>8. Types'
  BY <1>1, <1>4, <1>6, <1>7 DEF Types
<1>9. OtherTxnsStay(t) /\ Fills
  BY <1>1, <1>4, TableFills DEF OtherTxnsStay
<1>10. ASSUME NEW x \in EntryIds
       PROVE  heap'.entry[x].ref = heap.entry[x].ref + (Tabled(x)' - Tabled(x)) + (Cached(x)' - Cached(x))
                                   + (Held(x)' - Held(x)) + (Pending(Owning(x))' - Pending(Owning(x)))
  <2>1. Tabled(x)' = Tabled(x) /\ Cached(x)' = Cached(x)
    BY <1>4, TabledSame, CachedSame
  <2>2. Tabled(x) \in Nat /\ Cached(x) \in Nat /\ Held(x) \in Nat /\ Pending(Owning(x)) \in Nat
    BY <1>1, OwnersAre
  <2>3. Is(e, x) \in Nat /\ heap.entry[x].ref \in Int
    BY <1>1, IsNat, EntryIs
  <2>4. heap'.entry[x].ref = heap.entry[x].ref - Is(e, x)
    BY <1>6
  <2>5. Pending(Owning(x))' = Pending(Owning(x))
    BY <1>1, <1>4, TasksStay DEF TasksUnmoved
  <2>6. Held(x)' = Held(x) + Is(NoTxn, Holding(x)) - Is(txn[t], Holding(x))
    BY <1>1, <1>4, TxnStep
  <2>7. Is(txn[t], Holding(x)) = Is(e, x) /\ Is(NoTxn, Holding(x)) = 0
    BY <1>3, TxnIs
  <2> QED
    BY <2>1, <2>2, <2>3, <2>4, <2>5, <2>6, <2>7
<1>11. Counted
  BY <1>10 DEF Counted
<1>12. Drops' /\ Answers' /\ NewOnes' /\ Exact' /\ CacheCoherent' /\ VersionsUnmoved
  BY <1>4, <1>6, <1>8, <1>9, <1>11, IdleStep
<1>13. SettingRefExact'
  <2>1. PICK n : n = NoTxn
    OBVIOUS
  <2>2. NoWait(n) /\ NoWait(txn[t])
    BY <1>3, <2>1, TxnIs DEF NoWait
  <2>3. txn' = [txn EXCEPT ![t] = n]
    BY <1>4, <2>1
  <2> QED
    BY <1>4, <1>6, <1>8, <1>12, <2>2, <2>3, SettledTxn
<1> QED
  BY <1>8, <1>12, <1>13 DEF ManagerInv

\* clean_hash_map()
LEMMA CleanCacheKeeps ==
  ASSUME ManagerInv, NEW t \in Threads, NEW s \in Servers, CleanCache(t, s)
  PROVE  ManagerInv'
<1>1. /\ Types /\ Exact /\ heap \in Heaps /\ cache \in [Threads -> [Servers -> EntryIds \cup {NoEntry}]] /\ Drops
  BY DEF ManagerInv, Types
<1>2. PICK e : e = cache[t][s]
  OBVIOUS
<1>3. /\ Idle(t) /\ e # NoEntry /\ heap' = DecRef(heap, e) /\ cache' = [cache EXCEPT ![t][s] = NoEntry]
      /\ bucket_mutex' = bucket_mutex /\ rw_lock' = rw_lock /\ todo' = todo /\ agenda' = agenda
      /\ table' = table /\ txn' = txn /\ global' = global
      /\ is_congestion_enabled' = is_congestion_enabled /\ is_base_servers_added' = is_base_servers_added
      /\ is_inited' = is_inited /\ issued' = issued /\ updates' = updates /\ cancels' = cancels
  BY <1>2 DEF CleanCache
<1>4. e \in EntryIds
  BY <1>1, <1>2, <1>3
<1>5. heap.entry[e].live /\ heap.entry[e].ref >= 1
  BY <1>1, <1>2, <1>4, Owned
<1>6. /\ heap' \in Heaps /\ Settled /\ Marks /\ Keeps
      /\ \A x \in EntryIds : heap'.entry[x].ref = heap.entry[x].ref - Is(e, x)
  BY <1>1, <1>3, <1>4, <1>5, DecRefStep
<1>7. cache' \in [Threads -> [Servers -> EntryIds \cup {NoEntry}]]
  BY <1>1, <1>3
<1>8. Types'
  BY <1>1, <1>3, <1>6, <1>7 DEF Types
<1>9. OtherTxnsStay(t)
  BY <1>3 DEF OtherTxnsStay
<1>10. Fills
  BY <1>1, <1>3 DEF Fills
<1>11. ASSUME NEW x \in EntryIds
       PROVE  heap'.entry[x].ref = heap.entry[x].ref + (Tabled(x)' - Tabled(x)) + (Cached(x)' - Cached(x))
                                   + (Held(x)' - Held(x)) + (Pending(Owning(x))' - Pending(Owning(x)))
  <2>1. Tabled(x)' = Tabled(x) /\ Held(x)' = Held(x)
    BY <1>3, TabledSame, HeldSame
  <2>2. Tabled(x) \in Nat /\ Cached(x) \in Nat /\ Held(x) \in Nat /\ Pending(Owning(x)) \in Nat
    BY <1>1, OwnersAre
  <2>3. Is(e, x) \in Nat /\ heap.entry[x].ref \in Int
    BY <1>1, IsNat, EntryIs
  <2>4. heap'.entry[x].ref = heap.entry[x].ref - Is(e, x)
    BY <1>6
  <2>5. Pending(Owning(x))' = Pending(Owning(x))
    BY <1>1, <1>3, TasksStay DEF TasksUnmoved
  <2>6. Cached(x)' = Cached(x) + Is(NoEntry, x) - Is(cache[t][s], x)
    BY <1>1, <1>3, CachedStep
  <2>7. Is(cache[t][s], x) = Is(e, x) /\ Is(NoEntry, x) = 0
    BY <1>2 DEF Is, NoEntry, EntryIds
  <2> QED
    BY <2>1, <2>2, <2>3, <2>4, <2>5, <2>6, <2>7
<1>12. Counted
  BY <1>11 DEF Counted
<1>13. Drops' /\ Answers' /\ NewOnes' /\ Exact' /\ CacheCoherent' /\ VersionsUnmoved
  BY <1>3, <1>6, <1>8, <1>9, <1>10, <1>12, IdleStep
<1>14. SettingRefExact'
  BY <1>3, <1>6, <1>8, <1>13, SettledTask
<1> QED
  BY <1>8, <1>13, <1>14 DEF ManagerInv

\* Tasks that have nothing to do with entries.
Plain(tasks) == \A i \in DOMAIN tasks : Handles(tasks[i], 0, 0, 0)

\* A thread starts with such tasks.
LEMMA PlainBegin ==
  ASSUME Types, Types', NEW t \in Threads, Idle(t), NEW tasks \in Seq(Tasks), Plain(tasks),
         Begin(t, tasks), todo' = todo
  PROVE  TasksUnmoved
<1> SUFFICES ASSUME NEW e \in EntryIds
             PROVE  /\ Pending(Owning(e))' = Pending(Owning(e))
                    /\ Pending(Insertions(e))' = Pending(Insertions(e))
                    /\ Pending({Retire(e)})' = Pending({Retire(e)})
  BY DEF TasksUnmoved
<1>1. ASSUME NEW i \in DOMAIN tasks
      PROVE  tasks[i] \notin Owning(e) /\ tasks[i] \notin Insertions(e) /\ tasks[i] \notin {Retire(e)}
  BY DEF Plain, Handles, Is, In, EntryIds
<1>2. ASSUME NEW X, \A i \in DOMAIN tasks : tasks[i] \notin X
      PROVE  Pending(X)' = Pending(X)
  <2>1. Num(tasks, X) = 0
    BY <1>2, NumZero
  <2>2. Pending(X)' = Pending(X) + Num(tasks, X) + (Num(todo', X) - Num(todo, X)) /\ Num(todo, X) \in Nat
    BY Begun
  <2>3. Pending(X) \in Nat /\ Num(todo', X) = Num(todo, X)
    BY PendingIs
  <2> QED
    BY <2>1, <2>2, <2>3
<1>3. Pending(Owning(e))' = Pending(Owning(e))
  BY <1>1, <1>2
<1>4. Pending(Insertions(e))' = Pending(Insertions(e))
  BY <1>1, <1>2
<1>5. Pending({Retire(e)})' = Pending({Retire(e)})
  BY <1>1, <1>2
<1> QED
  BY <1>3, <1>4, <1>5

\* They retire nothing.
LEMMA PlainPaired ==
  ASSUME NEW tasks, Plain(tasks)
  PROVE  Paired(tasks)
<1>1. ASSUME NEW i \in DOMAIN tasks, NEW e \in EntryIds PROVE tasks[i] # Retire(e)
  BY DEF Plain, Handles, Is, In, EntryIds
<1> QED
  BY <1>1 DEF Paired

\* The versions a thread gets to hold when it starts.
LEMMA VersionsBegin ==
  ASSUME Types, Types', NEW t \in Threads, Idle(t), NEW tasks \in Seq(Tasks), Begin(t, tasks), todo' = todo,
         NEW X
  PROVE  Pending(X)' - Pending(X) = Num(tasks, X) /\ Num(tasks, X) \in Nat
<1>1. Pending(X)' = Pending(X) + Num(tasks, X) + (Num(todo', X) - Num(todo, X)) /\ Num(todo, X) \in Nat
  BY Begun
<1>2. Pending(X) \in Nat /\ Num(todo', X) = Num(todo, X) /\ Num(tasks, X) \in Nat
  BY PendingIs, NumNat
<1> QED
  BY <1>1, <1>2

\* Tasks of a lookup.
LEMMA LookupTasks ==
  ASSUME NEW s \in Servers, NEW v \in Versions,
         NEW tasks \in {<<Run, Lookup(s), Unlock, Put("config", v)>>, <<Run, Lookup(s), Put("config", v), Unlock>>}
  PROVE  /\ tasks \in Seq(Tasks) /\ Plain(tasks) /\ Num(tasks, Lookups) = 1
         /\ \A j \in Kinds, w \in Versions : Num(tasks, Versioned(j, w)) = Of("config", v, j, w)
<1>1. Run \in Tasks /\ Lookup(s) \in Tasks /\ Unlock \in Tasks /\ Put("config", v) \in Tasks
  BY TaskOf DEF Kinds
<1>2. \A X : Num(tasks, X) = In(Run, X) + In(Lookup(s), X) + In(Unlock, X) + In(Put("config", v), X)
  <2> SUFFICES ASSUME NEW X
               PROVE  Num(tasks, X) = In(Run, X) + In(Lookup(s), X) + In(Unlock, X) + In(Put("config", v), X)
    OBVIOUS
  <2>1. In(Run, X) \in Nat /\ In(Lookup(s), X) \in Nat /\ In(Unlock, X) \in Nat /\ In(Put("config", v), X) \in Nat
    BY InNat
  <2>2. CASE tasks = <<Run, Lookup(s), Unlock, Put("config", v)>>
    BY <1>1, <2>2, NumFour
  <2>3. CASE tasks = <<Run, Lookup(s), Put("config", v), Unlock>>
    <3>1. Num(tasks, X) = In(Run, X) + In(Lookup(s), X) + In(Put("config", v), X) + In(Unlock, X)
      BY <1>1, <2>3, NumFour
    <3> QED
      BY <2>1, <3>1
  <2> QED
    BY <2>2, <2>3
<1>3. tasks \in Seq(Tasks)
  BY <1>1, NumFour
<1>4. Plain(tasks)
  <2>1. /\ Handles(Run, 0, 0, 0) /\ Handles(Lookup(s), 0, 0, 0) /\ Handles(Unlock, 0, 0, 0)
        /\ Handles(Put("config", v), 0, 0, 0)
    BY HandlesWhat
  <2>2. \A i \in DOMAIN tasks : tasks[i] \in {Run, Lookup(s), Unlock, Put("config", v)}
    OBVIOUS
  <2> QED
    BY <2>1, <2>2 DEF Plain
<1>5. Num(tasks, Lookups) = 1
  <2>1. In(Run, Lookups) = 0 /\ In(Unlock, Lookups) = 0 /\ In(Put("config", v), Lookups) = 0
    BY NoLookups
  <2>2. In(Lookup(s), Lookups) = 1
    BY LooksUp
  <2>3. Num(tasks, Lookups) = In(Run, Lookups) + In(Lookup(s), Lookups) + In(Unlock, Lookups) + In(Put("config", v), Lookups)
    BY <1>2
  <2> QED
    BY <2>1, <2>2, <2>3
<1>6. ASSUME NEW j \in Kinds, NEW w \in Versions
      PROVE  Num(tasks, Versioned(j, w)) = Of("config", v, j, w)
  <2>1. PICK X : X = Versioned(j, w)
    OBVIOUS
  <2>2. Refers(Run, Nothing) /\ Refers(Unlock, Nothing) /\ Refers(Lookup(s), Nothing) /\ Refers(Put("config", v), <<"config", v>>)
    BY RefersWhat DEF Kinds
  <2>3. In(Run, X) = 0 /\ In(Unlock, X) = 0 /\ In(Lookup(s), X) = 0
    <3>1. /\ In(Run, X) = Is(Nothing, <<j, w>>) /\ In(Unlock, X) = Is(Nothing, <<j, w>>)
          /\ In(Lookup(s), X) = Is(Nothing, <<j, w>>)
      BY <2>1, <2>2 DEF Refers
    <3> QED
      BY <3>1, NothingIs
  <2>4. In(Put("config", v), X) = Of("config", v, j, w)
    <3>1. In(Put("config", v), X) = Is(<<"config", v>>, <<j, w>>)
      BY <2>1, <2>2 DEF Refers
    <3> QED
      BY <3>1, IsOf
  <2>5. Of("config", v, j, w) \in Nat
    BY OfNat
  <2>6. Num(tasks, X) = In(Run, X) + In(Lookup(s), X) + In(Unlock, X) + In(Put("config", v), X)
    BY <1>2
  <2>7. Num(tasks, X) = Of("config", v, j, w)
    BY <2>3, <2>4, <2>5, <2>6
  <2> QED
    BY <2>1, <2>7
<1> QED
  BY <1>3, <1>4, <1>5, <1>6

\* ObCongestionManagerCont::get_congest_entry()
LEMMA RetryLookupKeeps ==
  ASSUME ManagerInv, NEW t \in Threads, RetryLookup(t)
  PROVE  ManagerInv'
<1>1. /\ Types /\ Exact /\ Drops /\ Answers /\ NewOnes /\ CacheCoherent /\ SettingRefExact
      /\ heap \in Heaps /\ txn \in [Threads -> Txns]
  BY DEF ManagerInv, Types
<1>2. txn[t] \in Txns /\ txn[t].at = "waiting"
  BY <1>1 DEF RetryLookup
<1>3. PICK s \in Servers, v \in Versions : txn[t] = Waiting(s, v) /\ txn[t].server = s /\ txn[t].version = v
  BY <1>2, TxnAt
<1>4. /\ Idle(t) /\ bucket_mutex' = t /\ Begin(t, <<Run, Lookup(s), Put("config", v), Unlock>>)
      /\ txn' = [txn EXCEPT ![t] = NoTxn]
      /\ rw_lock' = rw_lock /\ todo' = todo /\ table' = table /\ cache' = cache /\ heap' = heap /\ global' = global
      /\ is_congestion_enabled' = is_congestion_enabled /\ is_base_servers_added' = is_base_servers_added
      /\ is_inited' = is_inited /\ issued' = issued /\ updates' = updates /\ cancels' = cancels
  BY <1>3 DEF RetryLookup
<1>5. PICK q, n : q = <<Run, Lookup(s), Put("config", v), Unlock>> /\ n = NoTxn
  OBVIOUS
<1>6. /\ q \in Seq(Tasks) /\ Plain(q) /\ Num(q, Lookups) = 1
      /\ \A j \in Kinds, w \in Versions : Num(q, Versioned(j, w)) = Of("config", v, j, w)
  BY <1>5, LookupTasks
<1>7. Begin(t, q) /\ txn' = [txn EXCEPT ![t] = n] /\ Paired(q)
  BY <1>4, <1>5, <1>6, PlainPaired
<1>8. Drops' /\ agenda' \in [Threads -> Seq(Tasks)]
  BY <1>1, <1>6, <1>7, DropsBegin
<1>9. txn' \in [Threads -> Txns] /\ OtherTxnsStay(t) /\ txn'[t] = NoTxn
  BY <1>1, <1>4 DEF Txns, OtherTxnsStay
<1>10. Types'
  BY <1>1, <1>4, <1>8, <1>9 DEF Types
<1>11. Answers'
  BY <1>1, <1>6, <1>7, <1>9, AnswersLookup
<1>12. TasksUnmoved
  BY <1>1, <1>4, <1>6, <1>7, <1>10, PlainBegin
<1>13. HeldUnmoved
  <2>1. ASSUME NEW x \in EntryIds PROVE Held(x)' = Held(x)
    <3>1. Held(x)' = Held(x) + Is(NoTxn, Holding(x)) - Is(txn[t], Holding(x))
      BY <1>1, <1>4, TxnStep
    <3>2. Is(txn[t], Holding(x)) = 0 /\ Is(NoTxn, Holding(x)) = 0
      BY <1>3, TxnIs
    <3>3. Held(x) \in Nat
      BY <1>1, OwnersAre
    <3> QED
      BY <3>1, <3>2, <3>3
  <2> QED
    BY <2>1 DEF HeldUnmoved
<1>14. \A e \in EntryIds : SameEntry(heap', heap, e)
  BY <1>4 DEF SameEntry
<1>15. Exact' /\ NewOnes' /\ CacheCoherent'
  BY <1>1, <1>4, <1>10, <1>12, <1>13, <1>14, EntriesKept
<1>16. ASSUME NEW j \in Kinds, NEW w \in Versions
       PROVE  Balance(heap', j, w) = Balance(heap, j, w) + (Owed(j, w)' - Owed(j, w))
  <2>1. Owed(j, w)' - Owed(j, w) = (Pending(Versioned(j, w))' - Pending(Versioned(j, w)))
            + (IF j = "config" THEN In(n, Waits(w)) - In(txn[t], Waits(w)) ELSE 0)
    <3>1. is_inited' = is_inited /\ global' = global
      BY <1>4
    <3> QED
      BY <1>1, <1>7, <1>10, <3>1, OwedTxn
  <2>2. Pending(Versioned(j, w))' - Pending(Versioned(j, w)) = Of("config", v, j, w)
    <3>1. Pending(Versioned(j, w))' - Pending(Versioned(j, w)) = Num(q, Versioned(j, w))
      BY <1>1, <1>4, <1>6, <1>7, <1>10, VersionsBegin
    <3> QED
      BY <1>6, <3>1
  <2>3. In(n, Waits(w)) = 0 /\ In(txn[t], Waits(w)) = Is(v, w)
    BY <1>3, <1>5, TxnIs
  <2>4. Of("config", v, j, w) = IF j = "config" THEN Is(v, w) ELSE 0
    BY DEF Of, Is
  <2>5. Is(v, w) \in Nat /\ Balance(heap, j, w) \in Int
    BY <1>1, IsNat, BalanceInt
  <2>6. Owed(j, w)' - Owed(j, w) = 0
    BY <2>1, <2>2, <2>3, <2>4, <2>5
  <2> QED
    BY <1>4, <2>5, <2>6
<1>17. Balanced
  BY <1>16 DEF Balanced
<1>18. SettingRefExact'
  BY <1>1, <1>4, <1>10, <1>17, SettingsKept
<1> QED
  BY <1>8, <1>10, <1>11, <1>15, <1>18 DEF ManagerInv

\* get_congest_entry() that does not: the lookup starts, or waits for the mutex.
LEMMA LookupInTableKeeps ==
  ASSUME ManagerInv, NEW t \in Threads, NEW s \in Servers, LookupInTable(t, s)
  PROVE  ManagerInv'
<1>1. /\ Types /\ Exact /\ Drops /\ Answers /\ NewOnes /\ CacheCoherent /\ SettingRefExact
      /\ heap \in Heaps /\ txn \in [Threads -> Txns] /\ global["config"] \in Versions
  BY DEF ManagerInv, Types, Kinds
<1>2. PICK v \in Versions : v = global["config"]
  BY <1>1
<1>3. /\ Idle(t) /\ txn[t] = NoTxn /\ heap' = GetSetting(heap, "config", v)
      /\ rw_lock' = rw_lock /\ todo' = todo /\ table' = table /\ cache' = cache /\ global' = global
      /\ is_congestion_enabled' = is_congestion_enabled /\ is_base_servers_added' = is_base_servers_added
      /\ is_inited' = is_inited /\ issued' = issued /\ updates' = updates /\ cancels' = cancels
  BY <1>2 DEF LookupInTable, CanLookup
<1>4. \/ /\ bucket_mutex' = t /\ Begin(t, <<Run, Lookup(s), Unlock, Put("config", v)>>) /\ txn' = txn
      \/ /\ txn' = [txn EXCEPT ![t] = Waiting(s, v)] /\ bucket_mutex' = bucket_mutex /\ agenda' = agenda
  BY <1>2 DEF LookupInTable
<1>5. PICK h, g : h = heap /\ g = heap'
  OBVIOUS
<1>6. h \in Heaps /\ g = GetSetting(h, "config", v) /\ "config" \in Kinds
  BY <1>1, <1>3, <1>5 DEF Kinds
<1>7. /\ g \in Heaps /\ g.entry = h.entry
      /\ \A j \in Kinds, w \in Versions : Balance(g, j, w) = Balance(h, j, w) + Of("config", v, j, w)
  BY <1>6, GetIs
<1>8. \A e \in EntryIds : SameEntry(heap', heap, e)
  BY <1>5, <1>7 DEF SameEntry
<1>9. CASE bucket_mutex' = t /\ Begin(t, <<Run, Lookup(s), Unlock, Put("config", v)>>) /\ txn' = txn
  <2>1. PICK q : q = <<Run, Lookup(s), Unlock, Put("config", v)>>
    OBVIOUS
  <2>2. /\ q \in Seq(Tasks) /\ Plain(q) /\ Num(q, Lookups) = 1
        /\ \A j \in Kinds, w \in Versions : Num(q, Versioned(j, w)) = Of("config", v, j, w)
    BY <2>1, LookupTasks
  <2>3. Begin(t, q) /\ Paired(q)
    BY <1>9, <2>1, <2>2, PlainPaired
  <2>4. Drops' /\ agenda' \in [Threads -> Seq(Tasks)]
    BY <1>1, <2>2, <2>3, DropsBegin
  <2>5. Types'
    BY <1>1, <1>3, <1>5, <1>7, <1>9, <2>4 DEF Types
  <2>6. OtherTxnsStay(t) /\ txn'[t] = NoTxn
    BY <1>3, <1>9 DEF OtherTxnsStay
  <2>7. Answers'
    BY <1>1, <2>2, <2>3, <2>6, AnswersLookup
  <2>8. TasksUnmoved
    BY <1>1, <1>3, <2>2, <2>3, <2>5, PlainBegin
  <2>9. HeldUnmoved
    BY <1>9, HeldSame DEF HeldUnmoved
  <2>10. Exact' /\ NewOnes' /\ CacheCoherent'
    BY <1>1, <1>3, <1>8, <2>5, <2>8, <2>9, EntriesKept
  <2>11. ASSUME NEW j \in Kinds, NEW w \in Versions
         PROVE  Balance(heap', j, w) = Balance(heap, j, w) + (Owed(j, w)' - Owed(j, w))
    <3>1. Owed(j, w)' - Owed(j, w) = Pending(Versioned(j, w))' - Pending(Versioned(j, w))
      BY <1>1, <1>3, <1>9, <2>5, OwedTasks
    <3>2. Pending(Versioned(j, w))' - Pending(Versioned(j, w)) = Num(q, Versioned(j, w))
      BY <1>1, <1>3, <2>2, <2>3, <2>5, VersionsBegin
    <3>3. Num(q, Versioned(j, w)) = Of("config", v, j, w)
      BY <2>2
    <3> QED
      BY <1>5, <1>7, <3>1, <3>2, <3>3
  <2>12. Balanced
    BY <2>11 DEF Balanced
  <2>13. SettingRefExact'
    BY <1>1, <1>3, <2>5, <2>12, SettingsKept
  <2> QED
    BY <2>4, <2>5, <2>7, <2>10, <2>13 DEF ManagerInv
<1>10. CASE txn' = [txn EXCEPT ![t] = Waiting(s, v)] /\ bucket_mutex' = bucket_mutex /\ agenda' = agenda
  <2>1. PICK n : n = Waiting(s, v)
    OBVIOUS
  <2>2. txn' = [txn EXCEPT ![t] = n]
    BY <1>10, <2>1
  <2>3. txn' \in [Threads -> Txns] /\ OtherTxnsStay(t)
    BY <1>1, <1>10 DEF Txns, OtherTxnsStay
  <2>4. Types'
    BY <1>1, <1>3, <1>5, <1>7, <1>10, <2>3 DEF Types
  <2>5. TasksUnmoved /\ VersionsUnmoved /\ Drops'
    BY <1>1, <1>3, <1>10, TasksStay
  <2>6. Answers'
    BY <1>1, <1>3, <1>10, <2>3, AnswersIdle
  <2>7. HeldUnmoved
    <3>1. ASSUME NEW x \in EntryIds PROVE Held(x)' = Held(x)
      <4>1. Held(x)' = Held(x) + Is(n, Holding(x)) - Is(txn[t], Holding(x))
        BY <1>1, <2>2, TxnStep
      <4>2. Is(n, Holding(x)) = 0 /\ Is(txn[t], Holding(x)) = 0
        BY <1>3, <2>1, TxnIs
      <4>3. Held(x) \in Nat
        BY <1>1, OwnersAre
      <4> QED
        BY <4>1, <4>2, <4>3
    <3> QED
      BY <3>1 DEF HeldUnmoved
  <2>8. Exact' /\ NewOnes' /\ CacheCoherent'
    BY <1>1, <1>3, <1>8, <2>4, <2>5, <2>7, EntriesKept
  <2>9. ASSUME NEW j \in Kinds, NEW w \in Versions
        PROVE  Balance(heap', j, w) = Balance(heap, j, w) + (Owed(j, w)' - Owed(j, w))
    <3>1. Owed(j, w)' - Owed(j, w) = (Pending(Versioned(j, w))' - Pending(Versioned(j, w)))
              + (IF j = "config" THEN In(n, Waits(w)) - In(txn[t], Waits(w)) ELSE 0)
      BY <1>1, <1>3, <2>2, <2>4, OwedTxn
    <3>2. Pending(Versioned(j, w))' = Pending(Versioned(j, w)) /\ Pending(Versioned(j, w)) \in Nat
      BY <1>1, <2>5, PendingIs DEF VersionsUnmoved
    <3>3. In(n, Waits(w)) = Is(v, w) /\ In(txn[t], Waits(w)) = 0
      BY <1>3, <2>1, TxnIs
    <3>4. Of("config", v, j, w) = IF j = "config" THEN Is(v, w) ELSE 0
      BY DEF Of, Is
    <3>5. Is(v, w) \in Nat
      BY IsNat
    <3>6. Owed(j, w)' - Owed(j, w) = Of("config", v, j, w)
      BY <3>1, <3>2, <3>3, <3>4, <3>5
    <3> QED
      BY <1>5, <1>7, <3>6
  <2>10. Balanced
    BY <2>9 DEF Balanced
  <2>11. SettingRefExact'
    BY <1>1, <1>3, <2>4, <2>10, SettingsKept
  <2> QED
    BY <2>4, <2>5, <2>6, <2>8, <2>11 DEF ManagerInv
<1> QED
  BY <1>4, <1>9, <1>10

\* The transaction goes before its answer: the reference to the
\* configuration stays behind.
LEMMA CancelLookupKeeps ==
  ASSUME ManagerInv, NEW t \in Threads, CancelLookup(t)
  PROVE  ManagerInv'
<1>1. /\ Types /\ Exact /\ Drops /\ Answers /\ NewOnes /\ CacheCoherent /\ SettingRefExact
      /\ heap \in Heaps /\ txn \in [Threads -> Txns]
  BY DEF ManagerInv, Types
<1>2. txn[t] \in Txns /\ txn[t].at = "waiting"
  BY <1>1 DEF CancelLookup
<1>3. PICK s \in Servers, v \in Versions : txn[t] = Waiting(s, v)
  BY <1>2, TxnAt
<1>4. /\ Idle(t) /\ cancels < MaxCancels /\ cancels' = cancels + 1 /\ txn' = [txn EXCEPT ![t] = NoTxn]
      /\ bucket_mutex' = bucket_mutex /\ rw_lock' = rw_lock /\ todo' = todo /\ agenda' = agenda
      /\ table' = table /\ cache' = cache /\ heap' = heap /\ global' = global
      /\ is_congestion_enabled' = is_congestion_enabled /\ is_base_servers_added' = is_base_servers_added
      /\ is_inited' = is_inited /\ issued' = issued /\ updates' = updates
  BY DEF CancelLookup
<1>5. txn' \in [Threads -> Txns] /\ OtherTxnsStay(t)
  BY <1>1, <1>4 DEF Txns, OtherTxnsStay
<1>6. cancels \in Nat /\ cancels' \in 0 .. MaxCancels
  BY <1>1, <1>4, ManagerAssumption DEF Types
<1>7. Types'
  BY <1>1, <1>4, <1>5, <1>6 DEF Types
<1>8. TasksUnmoved /\ VersionsUnmoved /\ Drops'
  BY <1>1, <1>4, TasksStay
<1>9. Answers'
  BY <1>1, <1>4, <1>5, AnswersIdle
<1>10. HeldUnmoved
  <2>1. ASSUME NEW x \in EntryIds PROVE Held(x)' = Held(x)
    <3>1. Held(x)' = Held(x) + Is(NoTxn, Holding(x)) - Is(txn[t], Holding(x))
      BY <1>1, <1>4, TxnStep
    <3>2. Is(txn[t], Holding(x)) = 0 /\ Is(NoTxn, Holding(x)) = 0
      BY <1>3, TxnIs
    <3>3. Held(x) \in Nat
      BY <1>1, OwnersAre
    <3> QED
      BY <3>1, <3>2, <3>3
  <2> QED
    BY <2>1 DEF HeldUnmoved
<1>11. \A e \in EntryIds : SameEntry(heap', heap, e)
  BY <1>4 DEF SameEntry
<1>12. Exact' /\ NewOnes' /\ CacheCoherent'
  BY <1>1, <1>4, <1>7, <1>8, <1>10, <1>11, EntriesKept
<1>13. ASSUME NEW j \in Kinds, NEW w \in Versions
       PROVE  heap'.refs[j][w] - SettingOwners(j, w)' \in 0 .. (IF j = "config" THEN cancels' ELSE 0)
  <2>1. PICK n : n = NoTxn
    OBVIOUS
  <2>2. txn' = [txn EXCEPT ![t] = n] /\ is_inited' = is_inited /\ global' = global
    BY <1>4, <2>1
  <2>3. Owed(j, w)' - Owed(j, w) = (Pending(Versioned(j, w))' - Pending(Versioned(j, w)))
            + (IF j = "config" THEN In(n, Waits(w)) - In(txn[t], Waits(w)) ELSE 0)
    BY <1>1, <1>7, <2>2, OwedTxn
  <2>4. Pending(Versioned(j, w))' = Pending(Versioned(j, w)) /\ Pending(Versioned(j, w)) \in Nat
    BY <1>1, <1>8, PendingIs DEF VersionsUnmoved
  <2>5. In(n, Waits(w)) = 0 /\ In(txn[t], Waits(w)) \in {0, 1}
    BY <2>1, TxnIs DEF In
  <2>6. PICK d \in {0, 1} : /\ Owed(j, w)' - Owed(j, w) = 0 - d
                            /\ j # "config" => d = 0
    <3>1. CASE j = "config"
      <4>1. Owed(j, w)' - Owed(j, w) = 0 - In(txn[t], Waits(w))
        BY <2>3, <2>4, <2>5, <3>1
      <4> QED
        BY <2>5, <3>1, <4>1
    <3>2. CASE j # "config"
      BY <2>3, <2>4, <3>2
    <3> QED
      BY <3>1, <3>2
  <2>7. heap.refs[j][w] - SettingOwners(j, w) \in 0 .. (IF j = "config" THEN cancels ELSE 0)
    BY <1>1 DEF SettingRefExact
  <2>8. heap.refs[j][w] - SettingOwners(j, w) = Balance(heap, j, w) - Owed(j, w) /\ Owed(j, w) \in Nat
    BY <1>1, OwedIs
  <2>9. heap'.refs[j][w] - SettingOwners(j, w)' = Balance(heap', j, w) - Owed(j, w)' /\ Owed(j, w)' \in Nat
    BY <1>7, OwedIsNext
  <2>10. Balance(heap, j, w) \in Int /\ Balance(heap', j, w) = Balance(heap, j, w)
    BY <1>1, <1>4, BalanceInt
  <2>11. Balance(heap', j, w) - Owed(j, w)' = (Balance(heap, j, w) - Owed(j, w)) + d
    BY <2>6, <2>8, <2>9, <2>10
  <2>12. PICK b : b = Balance(heap, j, w) - Owed(j, w)
    OBVIOUS
  <2>13. b \in 0 .. (IF j = "config" THEN cancels ELSE 0)
    BY <2>7, <2>8, <2>12
  <2>14. b + d \in 0 .. (IF j = "config" THEN cancels + 1 ELSE 0)
    BY <1>6, <2>6, <2>13
  <2>15. heap'.refs[j][w] - SettingOwners(j, w)' = b + d
    BY <2>9, <2>11, <2>12
  <2> QED
    BY <1>4, <2>14, <2>15
<1>14. SettingRefExact'
  BY <1>13 DEF SettingRefExact
<1> QED
  BY <1>7, <1>8, <1>9, <1>12, <1>14 DEF ManagerInv

\* show proxycongestion runs the todo list.
LEMMA ShowCongestionKeeps ==
  ASSUME ManagerInv, NEW t \in Threads, ShowCongestion(t)
  PROVE  ManagerInv'
<1>1. Types /\ Exact /\ Drops /\ Answers /\ NewOnes /\ CacheCoherent
  BY DEF ManagerInv
<1>2. /\ Idle(t) /\ bucket_mutex' = t /\ Begin(t, <<Run, Unlock>>)
      /\ rw_lock' = rw_lock /\ todo' = todo /\ table' = table /\ cache' = cache /\ txn' = txn
      /\ heap' = heap /\ global' = global
      /\ is_congestion_enabled' = is_congestion_enabled /\ is_base_servers_added' = is_base_servers_added
      /\ is_inited' = is_inited /\ issued' = issued /\ updates' = updates /\ cancels' = cancels
  BY DEF ShowCongestion
<1>3. PICK q : q = <<Run, Unlock>>
  OBVIOUS
<1>4. Run \in Tasks /\ Unlock \in Tasks
  BY TaskOf
<1>5. q \in Seq(Tasks) /\ \A X : Num(q, X) = In(Run, X) + In(Unlock, X)
  BY <1>3, <1>4, NumTwo
<1>6. Plain(q)
  <2>1. \A i \in DOMAIN q : q[i] \in {Run, Unlock}
    BY <1>3
  <2> QED
    BY <2>1, HandlesWhat DEF Plain
<1>7. Begin(t, q) /\ Paired(q)
  BY <1>2, <1>3, <1>6, PlainPaired
<1>8. Num(q, Lookups) = 0
  BY <1>5, NoLookups
<1>9. Drops' /\ agenda' \in [Threads -> Seq(Tasks)]
  BY <1>1, <1>5, <1>7, DropsBegin
<1>10. Types'
  BY <1>1, <1>2, <1>9 DEF Types
<1>11. Answers'
  <2>1. OtherTxnsStay(t)
    BY <1>2 DEF OtherTxnsStay
  <2> QED
    BY <1>1, <1>7, <1>8, <2>1, AnswersBegin
<1>12. TasksUnmoved
  BY <1>1, <1>2, <1>5, <1>6, <1>7, <1>10, PlainBegin
<1>13. VersionsUnmoved
  <2>1. ASSUME NEW k \in Kinds, NEW v \in Versions PROVE Pending(Versioned(k, v))' = Pending(Versioned(k, v))
    <3>1. In(Run, Versioned(k, v)) = 0 /\ In(Unlock, Versioned(k, v)) = 0
      BY PlainTasks DEF In
    <3>2. Num(q, Versioned(k, v)) = 0
      BY <1>5, <3>1
    <3>3. Pending(Versioned(k, v))' - Pending(Versioned(k, v)) = Num(q, Versioned(k, v))
      BY <1>1, <1>2, <1>5, <1>7, <1>10, VersionsBegin
    <3>4. Pending(Versioned(k, v))' \in Nat /\ Pending(Versioned(k, v)) \in Nat
      BY <1>1, <1>10, PendingIs, PendingIsNext
    <3> QED
      BY <3>2, <3>3, <3>4
  <2> QED
    BY <2>1 DEF VersionsUnmoved
<1>14. HeldUnmoved /\ Settled /\ \A e \in EntryIds : SameEntry(heap', heap, e)
  BY <1>2, HeldSame DEF HeldUnmoved, SameEntry, Settled
<1>15. Exact' /\ NewOnes' /\ CacheCoherent'
  BY <1>1, <1>2, <1>10, <1>12, <1>14, EntriesKept
<1>16. SettingRefExact'
  BY <1>2, <1>10, <1>13, <1>14, SettledTask
<1> QED
  BY <1>9, <1>10, <1>11, <1>15, <1>16 DEF ManagerInv

\* destroy()
LEMMA DestroyKeeps ==
  ASSUME ManagerInv, NEW t \in Threads, Destroy(t)
  PROVE  ManagerInv'
<1>1. /\ Types /\ Exact /\ Drops /\ Answers /\ NewOnes /\ CacheCoherent /\ SettingRefExact
      /\ heap \in Heaps /\ global["config"] \in Versions /\ global["zone"] \in Versions
  BY DEF ManagerInv, Types, Kinds
<1>2. PICK c, z : c = Put("config", global["config"]) /\ z = Put("zone", global["zone"])
  OBVIOUS
<1>3. /\ Idle(t) /\ is_inited /\ ~is_inited' /\ bucket_mutex' = t /\ Begin(t, <<Run, RemoveAll, Unlock, c, z>>)
      /\ is_inited' = FALSE /\ is_base_servers_added' = FALSE /\ is_congestion_enabled' = TRUE
      /\ rw_lock' = rw_lock /\ todo' = todo /\ table' = table /\ cache' = cache /\ txn' = txn
      /\ heap' = heap /\ global' = global /\ issued' = issued /\ updates' = updates /\ cancels' = cancels
  BY <1>2 DEF Destroy
<1>4. PICK q : q = <<Run, RemoveAll, Unlock, c, z>>
  OBVIOUS
<1>5. Run \in Tasks /\ RemoveAll \in Tasks /\ Unlock \in Tasks /\ c \in Tasks /\ z \in Tasks
  BY <1>1, <1>2, TaskOf DEF Kinds
<1>6. q \in Seq(Tasks) /\ \A X : Num(q, X) = In(Run, X) + In(RemoveAll, X) + In(Unlock, X) + In(c, X) + In(z, X)
  BY <1>4, <1>5, NumFive
<1>7. Plain(q)
  <2>1. \A i \in DOMAIN q : q[i] \in {Run, RemoveAll, Unlock, c, z}
    BY <1>4
  <2>2. Handles(c, 0, 0, 0) /\ Handles(z, 0, 0, 0)
    BY <1>2, HandlesWhat
  <2> QED
    BY <2>1, <2>2, HandlesWhat DEF Plain
<1>8. Begin(t, q) /\ Paired(q)
  BY <1>3, <1>4, <1>7, PlainPaired
<1>9. Num(q, Lookups) = 0
  <2>1. In(c, Lookups) = 0 /\ In(z, Lookups) = 0
    BY <1>2, NoLookups
  <2> QED
    BY <1>6, <2>1, NoLookups
<1>10. Drops' /\ agenda' \in [Threads -> Seq(Tasks)]
  BY <1>1, <1>6, <1>8, DropsBegin
<1>11. Types'
  BY <1>1, <1>3, <1>10 DEF Types
<1>12. Answers'
  <2>1. OtherTxnsStay(t)
    BY <1>3 DEF OtherTxnsStay
  <2> QED
    BY <1>1, <1>8, <1>9, <2>1, AnswersBegin
<1>13. TasksUnmoved
  BY <1>1, <1>3, <1>6, <1>7, <1>8, <1>11, PlainBegin
<1>14. HeldUnmoved /\ \A e \in EntryIds : SameEntry(heap', heap, e)
  BY <1>3, HeldSame DEF HeldUnmoved, SameEntry
<1>15. Exact' /\ NewOnes' /\ CacheCoherent'
  BY <1>1, <1>3, <1>11, <1>13, <1>14, EntriesKept
<1>16. ASSUME NEW j \in Kinds, NEW w \in Versions
       PROVE  Balance(heap', j, w) = Balance(heap, j, w) + (Owed(j, w)' - Owed(j, w))
  <2>1. Refers(c, <<"config", global["config"]>>) /\ Refers(z, <<"zone", global["zone"]>>)
    BY <1>1, <1>2, RefersWhat DEF Kinds
  <2>2. /\ In(c, Versioned(j, w)) = Is(<<"config", global["config"]>>, <<j, w>>)
        /\ In(z, Versioned(j, w)) = Is(<<"zone", global["zone"]>>, <<j, w>>)
    BY <2>1 DEF Refers
  <2>3. In(c, Versioned(j, w)) + In(z, Versioned(j, w)) = Current(j, w)
    <3>1. Current(j, w) = IF global[j] = w THEN 1 ELSE 0
      BY <1>3 DEF Current
    <3>2. CASE j = "config"
      BY <2>2, <3>1, <3>2 DEF Is
    <3>3. CASE j = "zone"
      BY <2>2, <3>1, <3>3 DEF Is
    <3> QED
      BY <3>2, <3>3 DEF Kinds
  <2>4. In(Run, Versioned(j, w)) = 0 /\ In(Unlock, Versioned(j, w)) = 0
    BY PlainTasks DEF In
  <2>5. In(RemoveAll, Versioned(j, w)) = 0
    BY TaskOp DEF In, Versioned
  <2>6. In(c, Versioned(j, w)) \in Nat /\ In(z, Versioned(j, w)) \in Nat
    BY InNat
  <2>7. Num(q, Versioned(j, w)) = Current(j, w)
    <3>1. Num(q, Versioned(j, w)) = In(Run, Versioned(j, w)) + In(RemoveAll, Versioned(j, w))
             + In(Unlock, Versioned(j, w)) + In(c, Versioned(j, w)) + In(z, Versioned(j, w))
      BY <1>6
    <3> QED
      BY <2>3, <2>4, <2>5, <2>6, <3>1
  <2>8. Pending(Versioned(j, w))' - Pending(Versioned(j, w)) = Num(q, Versioned(j, w))
    BY <1>1, <1>3, <1>6, <1>8, <1>11, VersionsBegin
  <2>9. Current(j, w)' = 0 /\ Waiters(j, w)' = Waiters(j, w)
    BY <1>3 DEF Current, Waiters, Hits
  <2>10. /\ Owed(j, w) = Current(j, w) + Pending(Versioned(j, w)) + Waiters(j, w)
         /\ Owed(j, w)' = Current(j, w)' + Pending(Versioned(j, w))' + Waiters(j, w)'
    BY DEF Owed
  <2>11. Current(j, w) \in Nat /\ Pending(Versioned(j, w)) \in Nat /\ Waiters(j, w) \in Nat
    BY <1>1, OwedIs
  <2>12. Pending(Versioned(j, w))' \in Nat
    BY <1>11, OwedIsNext
  <2>13. Owed(j, w)' - Owed(j, w) = 0
    BY <2>7, <2>8, <2>9, <2>10, <2>11, <2>12
  <2>14. Balance(heap, j, w) \in Int
    BY <1>1, BalanceInt
  <2> QED
    BY <1>3, <2>13, <2>14
<1>17. Balanced
  BY <1>16 DEF Balanced
<1>18. SettingRefExact'
  BY <1>1, <1>3, <1>11, <1>17, SettingsKept
<1> QED
  BY <1>10, <1>11, <1>12, <1>15, <1>18 DEF ManagerInv

\* A request is left behind and no thread goes on.
LEMMA Appended ==
  ASSUME Types, Types', NEW t \in Threads, agenda' = agenda, NEW request \in Requests,
         todo' = Append(todo, request), NEW X
  PROVE  Pending(X)' = Pending(X) + In(request, X) /\ Pending(X) \in Nat
<1>1. todo \in Seq(Requests)
  BY DEF Types
<1>2. Num(Append(todo, request), X) = Num(todo, X) + In(request, X)
  BY <1>1, NumAppend
<1>3. /\ Pending(X)' = Pending(X) + (Num(agenda'[t], X) - Num(agenda[t], X)) + (Num(todo', X) - Num(todo, X))
      /\ Num(agenda[t], X) \in Nat
  BY PendingStep
<1>4. Num(agenda'[t], X) - Num(agenda[t], X) = 0
  BY <1>3
<1>5. Num(todo, X) \in Nat /\ In(request, X) \in Nat /\ Pending(X) \in Nat
  BY <1>1, NumNat, InNat, PendingIs
<1>6. Num(todo', X) - Num(todo, X) = In(request, X)
  BY <1>2, <1>5
<1> QED
  BY <1>3, <1>4, <1>5, <1>6

\* update_server() in the first round makes an entry and queues it.
LEMMA AddBaseServerKeeps ==
  ASSUME ManagerInv, NEW t \in Threads, NEW s \in Servers, AddBaseServer(t, s)
  PROVE  ManagerInv'
<1>1. Types /\ Exact /\ Drops /\ Answers /\ NewOnes /\ CacheCoherent /\ heap \in Heaps
  BY DEF ManagerInv, Types
<1>2. PICK e : e = Spare(heap)
  OBVIOUS
<1>3. /\ HasSpare(heap) /\ heap' = IncRef(NewEntry(heap, e, "ACTIVE"), e) /\ todo' = Append(todo, Add(s, e))
      /\ issued' = [issued EXCEPT ![s] = "ACTIVE"] /\ Idle(t)
      /\ bucket_mutex' = bucket_mutex /\ rw_lock' = rw_lock /\ agenda' = agenda
      /\ table' = table /\ cache' = cache /\ txn' = txn /\ global' = global
      /\ is_congestion_enabled' = is_congestion_enabled /\ is_base_servers_added' = is_base_servers_added
      /\ is_inited' = is_inited /\ updates' = updates /\ cancels' = cancels
  BY <1>2 DEF AddBaseServer
<1>4. e \in EntryIds /\ ~heap.entry[e].live
  BY <1>2, <1>3 DEF HasSpare, Spare
<1>5. PICK h, f, g : h = heap /\ f = NewEntry(heap, e, "ACTIVE") /\ g = heap'
  OBVIOUS
<1>6. /\ f \in Heaps
      /\ \A k \in Kinds, v \in Versions : Balance(f, k, v) = Balance(h, k, v)
      /\ f.entry[e].live /\ f.entry[e].ref = 0 /\ ~f.entry[e].deleted
      /\ \A x \in EntryIds : x # e => f.entry[x] = h.entry[x]
  <2>1. h \in Heaps /\ ~h.entry[e].live /\ f = NewEntry(h, e, "ACTIVE")
    BY <1>1, <1>4, <1>5
  <2> QED
    BY <1>1, <1>4, <2>1, NewEntryIs
<1>7. /\ g \in Heaps /\ SameSettings(g, f)
      /\ g.entry[e].ref = f.entry[e].ref + 1
      /\ g.entry[e].live
      /\ \A x \in EntryIds : x # e => g.entry[x] = f.entry[x]
  <2>1. g = IncRef(f, e)
    BY <1>3, <1>5
  <2> QED
    BY <1>4, <1>6, <2>1, IncRefIs
<1>8. Settled
  <2>1. \A k \in Kinds, v \in Versions : Balance(g, k, v) = Balance(f, k, v)
    BY <1>7, BalanceSame
  <2> QED
    BY <1>5, <1>6, <2>1 DEF Settled
<1>9. h.entry[e].ref = 0 /\ ~h.entry[e].deleted
  BY <1>1, <1>4, <1>5, EntryIs
<1>10. PICK r : r = Add(s, e)
  OBVIOUS
<1>11. r \in Requests /\ todo' = Append(todo, r)
  BY <1>3, <1>4, <1>10, TaskOf
<1>12. Types'
  <2>1. todo' \in Seq(Requests)
    BY <1>1, <1>11 DEF Types
  <2>2. issued' \in [Servers -> States \cup {"ACTIVE", "DELETED"}]
    BY <1>1, <1>3 DEF Types
  <2> QED
    BY <1>1, <1>3, <1>5, <1>7, <2>1, <2>2 DEF Types
<1>13. Drops'
  BY <1>1, <1>3 DEF Drops, Paired
<1>14. Answers'
  BY <1>1, <1>3 DEF Answers, Num, Places
<1>15. Handles(r, e, 0, 0) /\ Refers(r, Nothing)
  BY <1>4, <1>10, HandlesWhat, RefersWhat
<1>16. ASSUME NEW x \in EntryIds
       PROVE  /\ Pending(Owning(x))' = Pending(Owning(x)) + Is(e, x)
              /\ Pending(Insertions(x))' = Pending(Insertions(x))
              /\ Pending({Retire(x)})' = Pending({Retire(x)}) /\ Pending({Retire(x)}) \in Nat
  <2>1. /\ In(r, Owning(x)) = Is(e, x) /\ In(r, Insertions(x)) = Is(0, x) /\ In(r, {Retire(x)}) = Is(0, x)
    BY <1>15 DEF Handles
  <2>2. Is(0, x) = 0
    BY DEF Is, EntryIds
  <2>3. Pending(Owning(x))' = Pending(Owning(x)) + In(r, Owning(x))
    BY <1>1, <1>3, <1>11, <1>12, Appended
  <2>4. /\ Pending(Insertions(x))' = Pending(Insertions(x)) + In(r, Insertions(x))
        /\ Pending(Insertions(x)) \in Nat
    BY <1>1, <1>3, <1>11, <1>12, Appended
  <2>5. /\ Pending({Retire(x)})' = Pending({Retire(x)}) + In(r, {Retire(x)})
        /\ Pending({Retire(x)}) \in Nat
    BY <1>1, <1>3, <1>11, <1>12, Appended
  <2> QED
    BY <2>1, <2>2, <2>3, <2>4, <2>5
<1>17. ASSUME NEW x \in EntryIds
       PROVE  heap'.entry[x].ref = heap.entry[x].ref + (Tabled(x)' - Tabled(x)) + (Cached(x)' - Cached(x))
                                   + (Held(x)' - Held(x)) + (Pending(Owning(x))' - Pending(Owning(x)))
  <2>1. Tabled(x)' = Tabled(x) /\ Cached(x)' = Cached(x) /\ Held(x)' = Held(x)
    BY <1>3, TabledSame, CachedSame, HeldSame
  <2>2. Tabled(x) \in Nat /\ Cached(x) \in Nat /\ Held(x) \in Nat /\ Pending(Owning(x)) \in Nat
    BY <1>1, OwnersAre
  <2>3. Is(e, x) \in Nat /\ heap.entry[x].ref \in Int
    BY <1>1, IsNat, EntryIs
  <2>4. heap'.entry[x].ref = heap.entry[x].ref + Is(e, x)
    <3>1. CASE x = e
      BY <1>5, <1>6, <1>7, <1>9, <3>1 DEF Is
    <3>2. CASE x # e
      <4>1. Is(e, x) = 0
        BY <3>2 DEF Is
      <4>2. heap'.entry[x].ref = heap.entry[x].ref
        BY <1>5, <1>6, <1>7, <3>2
      <4> QED
        BY <2>3, <4>1, <4>2
    <3> QED
      BY <3>1, <3>2
  <2>5. Pending(Owning(x))' = Pending(Owning(x)) + Is(e, x)
    BY <1>16
  <2> QED
    BY <2>1, <2>2, <2>3, <2>4, <2>5
<1>18. Exact'
  <2>1. Counted
    BY <1>17 DEF Counted
  <2> QED
    BY <1>1, <1>12, <2>1, ExactKept
<1>19. NewOnes'
  <2>1. Keeps
    BY <1>4, <1>5, <1>6, <1>7 DEF Keeps
  <2>2. InsertionsUnmoved
    BY <1>16 DEF InsertionsUnmoved
  <2> QED
    BY <1>1, <2>1, <2>2, NewOnesKept
<1>20. CacheCoherent'
  <2>1. Marks
    BY <1>5, <1>6, <1>7, <1>9 DEF Marks
  <2>2. Retires
    BY <1>16 DEF Retires
  <2>3. Fills /\ Removes
    BY <1>3, TableFills, TableStays
  <2> QED
    BY <1>1, <1>12, <1>18, <2>1, <2>2, <2>3, CoherentStep
<1>21. VersionsUnmoved
  <2>1. ASSUME NEW k \in Kinds, NEW v \in Versions PROVE Pending(Versioned(k, v))' = Pending(Versioned(k, v))
    <3>1. In(r, Versioned(k, v)) = Is(Nothing, <<k, v>>)
      BY <1>15 DEF Refers
    <3>2. /\ Pending(Versioned(k, v))' = Pending(Versioned(k, v)) + In(r, Versioned(k, v))
          /\ Pending(Versioned(k, v)) \in Nat
      BY <1>1, <1>3, <1>11, <1>12, Appended
    <3>3. In(r, Versioned(k, v)) = 0
      BY <3>1, NothingIs
    <3> QED
      BY <3>2, <3>3
  <2> QED
    BY <2>1 DEF VersionsUnmoved
<1>22. SettingRefExact'
  BY <1>3, <1>8, <1>12, <1>21, SettledTask
<1> QED
  BY <1>12, <1>13, <1>14, <1>18, <1>19, <1>20, <1>22 DEF ManagerInv

(***************************************************************************)
(* The theorems                                                            *)
(***************************************************************************)

\* The invariant holds at the start.
LEMMA InitManagerInv ==
  ASSUME Init
  PROVE  ManagerInv
<1>1. Types
  <2>1. <<>> \in Seq(Requests) /\ <<>> \in Seq(Tasks)
    OBVIOUS
  <2>2. 1 \in Versions
    BY ManagerAssumption DEF Versions
  <2>3. heap \in Heaps
    <3>1. /\ heap.entry \in [EntryIds -> {Unused} \cup Used]
          /\ heap.refs \in [Kinds -> [Versions -> Int]]
      BY DEF Init
    <3> QED
      BY <3>1 DEF Init, Heaps
  <2>4. updates \in 0 .. MaxUpdates /\ cancels \in 0 .. MaxCancels
    BY ManagerAssumption DEF Init
  <2>5. txn \in [Threads -> Txns]
    <3>1. NoTxn \in Txns
      BY DEF Txns
    <3> QED
      BY <3>1 DEF Init
  <2>6. /\ bucket_mutex \in Threads \cup {NoThread} /\ rw_lock \in Threads \cup {NoThread}
        /\ todo \in Seq(Requests) /\ agenda \in [Threads -> Seq(Tasks)]
    BY <2>1 DEF Init
  <2>7. /\ table \in [Servers -> EntryIds \cup {NoEntry}]
        /\ cache \in [Threads -> [Servers -> EntryIds \cup {NoEntry}]]
        /\ global \in [Kinds -> Versions]
    BY <2>2 DEF Init
  <2>8. /\ is_congestion_enabled \in BOOLEAN /\ is_base_servers_added \in BOOLEAN /\ is_inited \in BOOLEAN
        /\ issued \in [Servers -> States \cup {"ACTIVE", "DELETED"}]
    BY DEF Init
  <2> QED
    BY <2>3, <2>4, <2>5, <2>6, <2>7, <2>8 DEF Types
<1>2. \A t \in Threads : agenda[t] = <<>>
  BY DEF Init
<1>3. ASSUME NEW X PROVE Pending(X) = 0
  <2>1. DOMAIN todo = {} /\ \A t \in Threads : DOMAIN agenda[t] = {}
    BY <1>2 DEF Init
  <2> QED
    BY <1>1, <2>1, PendingNone
<1>4. Drops
  BY <1>2 DEF Drops, Paired
<1>5. Answers
  BY <1>2, NumEmpty DEF Answers
<1>6. \A e \in EntryIds : heap.entry[e] = Unused
  BY DEF Init
<1>7. NewOnes
  BY <1>3 DEF NewOnes
<1>8. ASSUME NEW e \in EntryIds PROVE heap.entry[e].ref = EntryOwners(e)
  <2>1. e # NoEntry
    BY DEF EntryIds, NoEntry
  <2>2. \A s \in Servers : table[s] \notin {e}
    BY <2>1 DEF Init
  <2>3. \A p \in Threads \X Servers : Flat(cache)[p] \notin {e}
    BY <2>1 DEF Init, Flat
  <2>4. \A t \in Threads : txn[t] \notin {Holding(e)}
    BY DEF Init, NoTxn, Holding
  <2>5. Tabled(e) = 0
    BY <2>2, Finite, HitsNat DEF Tabled
  <2>6. Cached(e) = 0
    BY <2>3, Finite, HitsNat DEF Cached
  <2>7. Held(e) = 0
    BY <2>4, Finite, HitsNat DEF Held
  <2>8. Pending(Owning(e)) = 0
    BY <1>3
  <2>9. EntryOwners(e) = 0
    BY <1>1, <2>5, <2>6, <2>7, <2>8, OwnersAre
  <2> QED
    BY <1>6, <2>9 DEF Unused
<1>9. Exact
  BY <1>8 DEF Exact
<1>10. ASSUME NEW k \in Kinds, NEW v \in Versions
       PROVE  heap.refs[k][v] - SettingOwners(k, v) \in 0 .. (IF k = "config" THEN cancels ELSE 0)
  <2>1. Using(heap, k, v) = {}
    BY <1>6 DEF Using, Unused
  <2>2. Cardinality(Using(heap, k, v)) = 0
    BY <2>1, FS_EmptySet
  <2>3. heap.refs[k][v] = (IF v = 1 THEN 1 ELSE 0) /\ Current(k, v) = (IF v = 1 THEN 1 ELSE 0)
    BY DEF Init, Current
  <2>4. Balance(heap, k, v) = (IF v = 1 THEN 1 ELSE 0)
    BY <2>2, <2>3 DEF Balance
  <2>5. Waiters(k, v) = 0
    <3>1. \A t \in Threads : txn[t] \notin Waits(v)
      BY DEF Init, NoTxn, Waits, Waiting
    <3> QED
      BY <3>1, Finite, HitsNat DEF Waiters
  <2>6. Owed(k, v) = (IF v = 1 THEN 1 ELSE 0)
    BY <1>3, <2>3, <2>5 DEF Owed
  <2>7. heap.refs[k][v] - SettingOwners(k, v) = Balance(heap, k, v) - Owed(k, v)
    BY <1>1, OwedIs
  <2>8. heap.refs[k][v] - SettingOwners(k, v) = 0 /\ cancels = 0
    BY <2>4, <2>6, <2>7 DEF Init
  <2> QED
    BY <2>8
<1>11. SettingRefExact
  BY <1>10 DEF SettingRefExact
<1>12. CacheCoherent
  BY DEF CacheCoherent, CacheHit, Init
<1> QED
  BY <1>1, <1>4, <1>5, <1>7, <1>9, <1>11, <1>12 DEF ManagerInv

\* Every task keeps it.
LEMMA TaskStepKeeps ==
  ASSUME ManagerInv, NEW t \in Threads, TaskStep(t)
  PROVE  ManagerInv'
<1>1. CASE RunTodoList(t)
  BY <1>1, RunTodoListKeeps
<1>2. CASE ReleaseBucket(t)
  BY <1>2, ReleaseBucketKeeps
<1>3. CASE SetServerState(t)
  BY <1>3, SetServerStateKeeps
<1>4. CASE RemoveServer(t)
  BY <1>4, RemoveServerKeeps
<1>5. CASE AddNewServer(t)
  BY <1>5, AddNewServerKeeps
<1>6. CASE SkipDeletedServer(t)
  BY <1>6, SkipDeletedServerKeeps
<1>7. CASE InsertEntry(t)
  BY <1>7, InsertEntryKeeps
<1>8. CASE SetEntryDeletedState(t)
  BY <1>8, SetEntryDeletedStateKeeps
<1>9. CASE DropEntry(t)
  BY <1>9, DropEntryKeeps
<1>10. CASE RemoveAllEntries(t)
  BY <1>10, RemoveAllKeeps
<1>11. CASE RevalidateBucket(t)
  BY <1>11, RevalidateBucketKeeps
<1>12. CASE DropSetting(t)
  BY <1>12, DropSettingKeeps
<1>13. CASE ReturnFromUpdate(t)
  BY <1>13, ReturnFromUpdateKeeps
<1>14. CASE LookupEntry(t)
  BY <1>14, LookupEntryKeeps
<1> QED
  BY <1>1, <1>2, <1>3, <1>4, <1>5, <1>6, <1>7, <1>8, <1>9, <1>10, <1>11, <1>12, <1>13, <1>14 DEF TaskStep

\* So does every call.
LEMMA NextManagerInv ==
  ASSUME ManagerInv, [Next]_vars
  PROVE  ManagerInv'
<1>1. CASE SetBaseServersAdded
  BY <1>1, SetBaseServersAddedKeeps
<1>2. ASSUME NEW t \in Threads, TaskStep(t) PROVE ManagerInv'
  BY <1>2, TaskStepKeeps
<1>3. ASSUME NEW t \in Threads, NEW s \in Servers, AddBaseServer(t, s) PROVE ManagerInv'
  BY <1>3, AddBaseServerKeeps
<1>4. ASSUME NEW t \in Threads, NEW s \in Servers, NEW st \in States, UpdateServer(t, s, st) PROVE ManagerInv'
  BY <1>4, UpdateServerKeeps
<1>5. ASSUME NEW t \in Threads, NEW k \in Kinds, UpdateSetting(t, k) PROVE ManagerInv'
  BY <1>5, UpdateSettingKeeps
<1>6. ASSUME NEW t \in Threads, LookupDisabled(t) PROVE ManagerInv'
  BY <1>6, LookupDisabledKeeps
<1>7. ASSUME NEW t \in Threads, NEW s \in Servers, LookupInCache(t, s) PROVE ManagerInv'
  BY <1>7, LookupInCacheKeeps
<1>8. ASSUME NEW t \in Threads, NEW s \in Servers, LookupInTable(t, s) PROVE ManagerInv'
  BY <1>8, LookupInTableKeeps
<1>9. ASSUME NEW t \in Threads, RetryLookup(t) PROVE ManagerInv'
  BY <1>9, RetryLookupKeeps
<1>10. ASSUME NEW t \in Threads, CancelLookup(t) PROVE ManagerInv'
  BY <1>10, CancelLookupKeeps
<1>11. ASSUME NEW t \in Threads, ReleaseEntry(t) PROVE ManagerInv'
  BY <1>11, ReleaseEntryKeeps
<1>12. ASSUME NEW t \in Threads, NEW s \in Servers, CleanCache(t, s) PROVE ManagerInv'
  BY <1>12, CleanCacheKeeps
<1>13. ASSUME NEW t \in Threads, ShowCongestion(t) PROVE ManagerInv'
  BY <1>13, ShowCongestionKeeps
<1>14. ASSUME NEW t \in Threads, Destroy(t) PROVE ManagerInv'
  BY <1>14, DestroyKeeps
<1>15. CASE UNCHANGED vars
  BY <1>15, StutterKeeps
<1> QED
  BY <1>1, <1>2, <1>3, <1>4, <1>5, <1>6, <1>7, <1>8, <1>9, <1>10, <1>11, <1>12, <1>13, <1>14, <1>15 DEF Next

(***************************************************************************)
(* The inductive invariant: types, the order of a removal, one transaction *)
(* to a lookup, new entries inserted once and owned by nobody before, and  *)
(* the two counts and the caches.                                          *)
(***************************************************************************)
THEOREM ManagerInvariant == Spec => []ManagerInv
<1>1. Init => ManagerInv
  BY InitManagerInv
<1>2. ManagerInv /\ [Next]_vars => ManagerInv'
  BY NextManagerInv
<1> QED
  BY <1>1, <1>2, PTL DEF Spec

\* Under the invariant, counts are natural and the types are right.
LEMMA InvTypeOK ==
  ASSUME ManagerInv
  PROVE  TypeOK
<1>1. Types /\ Exact /\ SettingRefExact /\ heap \in Heaps
  BY DEF ManagerInv, Types
<1>2. todo \in Seq(Tasks)
  BY <1>1, RequestsAreTasks DEF Types
<1>3. heap.entry \in [EntryIds -> {Unused} \cup Entries]
  <2>1. ASSUME NEW e \in EntryIds PROVE heap.entry[e] \in {Unused} \cup Entries
    <3>1. heap.entry[e] = Unused \/ heap.entry[e] \in Used
      BY <1>1, EntryIs
    <3>2. EntryOwners(e) \in Nat
      BY <1>1, OwnersAre
    <3>3. heap.entry[e].ref \in Nat
      BY <1>1, <3>2 DEF Exact
    <3> QED
      BY <3>1, <3>3 DEF Used, Entries
  <2>2. heap.entry \in [EntryIds -> {Unused} \cup Used]
    BY <1>1 DEF Heaps
  <2> QED
    BY <2>1, <2>2
<1>4. heap.refs \in [Kinds -> [Versions -> Nat]]
  <2>1. heap.refs \in [Kinds -> [Versions -> Int]]
    BY <1>1 DEF Heaps
  <2>2. ASSUME NEW k \in Kinds, NEW v \in Versions PROVE heap.refs[k][v] \in Nat
    <3>1. PICK n : n = IF k = "config" THEN cancels ELSE 0
      OBVIOUS
    <3>2. heap.refs[k][v] - SettingOwners(k, v) \in 0 .. n
      BY <1>1, <3>1 DEF SettingRefExact
    <3>3. SettingOwners(k, v) \in Nat /\ heap.refs[k][v] \in Int
      BY <1>1, <2>1, OwedIs
    <3> QED
      BY <3>2, <3>3
  <2> QED
    BY <2>1, <2>2
<1>5. /\ bucket_mutex \in Threads \cup {NoThread} /\ rw_lock \in Threads \cup {NoThread}
      /\ agenda \in [Threads -> Seq(Tasks)]
      /\ table \in [Servers -> EntryIds \cup {NoEntry}]
      /\ cache \in [Threads -> [Servers -> EntryIds \cup {NoEntry}]]
      /\ global \in [Kinds -> Versions] /\ txn \in [Threads -> Txns]
  BY <1>1 DEF Types
<1>6. /\ is_congestion_enabled \in BOOLEAN /\ is_base_servers_added \in BOOLEAN /\ is_inited \in BOOLEAN
      /\ issued \in [Servers -> States \cup {"ACTIVE", "DELETED"}]
      /\ updates \in 0 .. MaxUpdates /\ cancels \in 0 .. MaxCancels
  BY <1>1 DEF Types
<1> QED
  BY <1>2, <1>3, <1>4, <1>5, <1>6 DEF TypeOK

\* Under the invariant, counts are exact, and nobody relies on a freed entry.
LEMMA InvRefCountExact ==
  ASSUME ManagerInv
  PROVE  RefCountExact
<1>1. Types /\ Drops /\ NewOnes /\ Exact /\ heap \in Heaps
  BY DEF ManagerInv, Types
<1>2. ASSUME NEW e \in EntryIds, ~heap.entry[e].live
      PROVE  Pending(Relying(e)) = 0
  <2>1. heap.entry[e].ref = 0
    BY <1>1, <1>2, EntryIs
  <2>2. Pending(Owning(e)) = 0
    BY <1>1, <2>1, OwnersAre DEF Exact
  <2>3. Pending(Insertions(e)) = 0
    BY <1>1, <1>2 DEF NewOnes
  <2>4. \A i \in DOMAIN todo : todo[i] \notin Relying(e)
    <3>1. \A x \in Requests : x \notin Relying(e)
      BY TaskOp DEF Requests, Relying
    <3>2. \A i \in DOMAIN todo : todo[i] \in Requests
      BY <1>1 DEF Types
    <3> QED
      BY <3>1, <3>2
  <2>5. ASSUME NEW t \in Threads, NEW i \in DOMAIN agenda[t], agenda[t][i] \in Relying(e)
        PROVE  FALSE
    <3>1. agenda[t][i] = Retire(e) \/ agenda[t][i] \in Insertions(e)
      BY <2>5 DEF Relying, Insertions
    <3>2. CASE agenda[t][i] \in Insertions(e)
      <4>1. Pending(Insertions(e)) > 0
        BY <1>1, <3>2, PendingMember
      <4> QED
        BY <2>3, <4>1
    <3>3. CASE agenda[t][i] = Retire(e)
      <4>1. i + 1 \in DOMAIN agenda[t] /\ agenda[t][i + 1] = Drop(e)
        BY <1>1, <3>3 DEF Drops, Paired
      <4>2. PICK j \in DOMAIN agenda[t] : agenda[t][j] \in Owning(e)
        BY <4>1 DEF Owning
      <4>3. Pending(Owning(e)) > 0
        BY <1>1, <4>2, PendingMember
      <4> QED
        BY <2>2, <4>3
    <3> QED
      BY <3>1, <3>2, <3>3
  <2>6. \A t \in Threads : \A i \in DOMAIN agenda[t] : agenda[t][i] \notin Relying(e)
    BY <2>5
  <2> QED
    BY <1>1, <2>4, <2>6, PendingNone
<1> QED
  BY <1>1, <1>2 DEF RefCountExact, Exact

(***************************************************************************)
(* Every variable keeps its type, and no count of references is ever       *)
(* negative.                                                               *)
(***************************************************************************)
THEOREM ManagerTypes == Spec => []TypeOK
<1>1. ManagerInv => TypeOK
  BY InvTypeOK
<1> QED
  BY <1>1, ManagerInvariant, PTL

(***************************************************************************)
(* The count of every congestion entry is the number of its owners - the   *)
(* table, the thread caches, the transactions, the queued records and      *)
(* whoever is about to drop it - and no task relies on an entry that is    *)
(* freed, for every number of threads and servers.                         *)
(***************************************************************************)
THEOREM EntriesCounted == Spec => []RefCountExact
<1>1. ManagerInv => RefCountExact
  BY InvRefCountExact
<1> QED
  BY <1>1, ManagerInvariant, PTL

(***************************************************************************)
(* The count of every control configuration and zone state is the number   *)
(* of those who hold it, but for one reference that each cancelled lookup  *)
(* may leave behind.                                                       *)
(***************************************************************************)
THEOREM SettingsCounted == Spec => []SettingRefExact
<1>1. ManagerInv => SettingRefExact
  BY DEF ManagerInv
<1> QED
  BY <1>1, ManagerInvariant, PTL

(***************************************************************************)
(* An entry that a lookup would take from a thread's cache is the one in   *)
(* the table, or is about to be marked deleted by whoever removed it.      *)
(***************************************************************************)
THEOREM CachesCoherent == Spec => []CacheCoherent
<1>1. ManagerInv => CacheCoherent
  BY DEF ManagerInv
<1> QED
  BY <1>1, ManagerInvariant, PTL

-----------------------------------------------------------------------------
(***************************************************************************)
(* The order of requests                                                   *)
(***************************************************************************)

\* What is left of a call outside the mutex, and of one inside that has run
\* all its requests.
Outside(a) == \A i \in DOMAIN a : a[i].op \in {"put", "end_update"}
Closing(a) ==
  \E u \in 1 .. Len(a) :
    /\ a[u].op = "unlock"
    /\ \A i \in 1 .. Len(a) : /\ i < u => a[i].op \in {"lookup_entry", "put"}
                              /\ u < i => a[i].op \in {"put", "end_update"}

\* The request of the mutex holder's own call, which it runs after the todo
\* list: nobody else is inside rw_lock_ or is reporting states meanwhile.
Own(r) ==
  /\ r.op # "add_record" /\ bucket_mutex # NoThread
  /\ r.op = "revalidate_bucket" => rw_lock = bucket_mutex
  /\ r.op = "revalidate_server" => bucket_mutex \in Refreshers

\* The requests that are still to be run, in the order in which they will be:
\* the holder of the mutex is about to run the todo list, and perhaps its own
\* request after it, or has emptied the list and leaves it what comes in now.
Starting(q, rest)    == agenda[bucket_mutex] = <<Run>> \o rest /\ q = todo
Bringing(q, r, rest) == agenda[bucket_mutex] = <<Run, r>> \o rest /\ q = Append(todo, r) /\ Own(r)
Running(q, p, rest)  == agenda[bucket_mutex] = p \o rest /\ q = p \o todo
Line(q) ==
  \/ bucket_mutex = NoThread /\ q = todo
  \/ /\ bucket_mutex # NoThread
     /\ \E rest \in Seq(Tasks) :
          /\ Closing(rest)
          /\ \/ Starting(q, rest)
             \/ \E r \in Requests : Bringing(q, r, rest)
             \/ \E p \in Seq(Requests) : Running(q, p, rest)

\* Only the holder of the mutex runs requests, and whoever is inside rw_lock_
\* leaves it with its last task.
Turns ==
  /\ \A t \in Threads : t # bucket_mutex => Outside(agenda[t])
  /\ \A t \in Threads : \A i \in DOMAIN agenda[t] :
       agenda[t][i].op = "end_update" => i = Len(agenda[t]) /\ rw_lock = t

IsState(x, s)  == x.op = "revalidate_server" /\ x.server = s
IsRecord(x, s) == x.op = "add_record" /\ x.server = s
Sets(x, k, v)  == x.op = "revalidate_bucket" /\ x.kind = k /\ x.version = v

\* A server and an entry are added once.
Single(q) ==
  \A i \in DOMAIN q : q[i].op = "add_record" =>
    /\ table[q[i].server] = NoEntry
    /\ \A r \in Servers : table[r] # q[i].entry
    /\ heap.entry[q[i].entry].state = "ACTIVE"
    /\ \A j \in DOMAIN q :
         q[j].op = "add_record" /\ (q[j].server = q[i].server \/ q[j].entry = q[i].entry) => j = i
Distinct == \A s, r \in Servers : table[s] = table[r] /\ table[s] # NoEntry => s = r

\* The first round of the refresh adds all servers and changes none.
FirstRound(q) ==
  /\ is_base_servers_added => \A s \in Servers : issued[s] # "DELETED"
  /\ ~is_base_servers_added => \A i \in DOMAIN q :
       q[i].op # "revalidate_server" /\ (q[i].op = "revalidate_bucket" => q[i].kind # "zone")

\* A server that was reported is in the table or will be, and is added before
\* its state is changed.
Known(q) ==
  \A s \in Servers :
    /\ issued[s] = "DELETED" => table[s] = NoEntry /\ \A i \in DOMAIN q : ~IsRecord(q[i], s)
    /\ issued[s] # "DELETED" => table[s] # NoEntry \/ \E i \in DOMAIN q : IsRecord(q[i], s)
AddedFirst(q) ==
  \A i \in DOMAIN q : q[i].op = "revalidate_server" =>
    table[q[i].server] # NoEntry \/ \E j \in DOMAIN q : j < i /\ IsRecord(q[j], q[i].server)

\* A request that leaves an entry with an old setting, and the one that comes
\* after it.
Stale(x, k) ==
  \/ x.op = "revalidate_bucket" /\ x.kind = k /\ x.version # global[k]
  \/ x.op = "add_record" /\ heap.entry[x.entry].setting[k] # global[k]
Renewed(q) ==
  \A k \in Kinds :
    /\ \A i \in DOMAIN q : Stale(q[i], k) => \E j \in DOMAIN q : i < j /\ Sets(q[j], k, global[k])
    /\ \A s \in Servers : table[s] # NoEntry /\ heap.entry[table[s]].setting[k] # global[k] =>
         \E j \in DOMAIN q : Sets(q[j], k, global[k])

Good(q) == Single(q) /\ Distinct /\ FirstRound(q) /\ Known(q) /\ AddedFirst(q) /\ Renewed(q)

\* The last request about s leaves it in the state st, or it is in it.
Reports(x, s, st) == (IsState(x, s) /\ x.state = st) \/ (IsRecord(x, s) /\ st = "ACTIVE")
Last(q, s, i)    == \A j \in DOMAIN q : i < j => ~IsState(q[j], s) /\ ~IsRecord(q[j], s)
Latest(q) ==
  \A s \in Servers : issued[s] # "DELETED" =>
    \/ \E i \in DOMAIN q : Reports(q[i], s, issued[s]) /\ Last(q, s, i)
    \/ Last(q, s, 0) /\ table[s] # NoEntry /\ heap.entry[table[s]].state = issued[s]

(***************************************************************************)
(* The line of requests                                                    *)
(***************************************************************************)

\* Sequences joined.
LEMMA JoinIs ==
  ASSUME NEW T, NEW a \in Seq(T), NEW b \in Seq(T)
  PROVE  /\ a \o b \in Seq(T) /\ Len(a \o b) = Len(a) + Len(b) /\ Len(a) \in Nat /\ Len(b) \in Nat
         /\ DOMAIN a = 1 .. Len(a) /\ DOMAIN b = 1 .. Len(b) /\ DOMAIN (a \o b) = 1 .. (Len(a) + Len(b))
         /\ \A i \in 1 .. Len(a) : (a \o b)[i] = a[i]
         /\ \A i \in 1 .. Len(b) : (a \o b)[Len(a) + i] = b[i]
OBVIOUS

\* Two sequences with the same elements are the same.
LEMMA SeqSame ==
  ASSUME NEW T, NEW a \in Seq(T), NEW b \in Seq(T), Len(a) = Len(b),
         \A i \in 1 .. Len(a) : a[i] = b[i]
  PROVE  a = b
OBVIOUS

\* Joining the empty sequence changes nothing.
LEMMA JoinEmpty ==
  ASSUME NEW T, NEW a \in Seq(T)
  PROVE  <<>> \o a = a /\ a \o <<>> = a
OBVIOUS

\* An element added at either end.
LEMMA JoinOne ==
  ASSUME NEW T, NEW a \in Seq(T), NEW x \in T
  PROVE  Append(a, x) \in Seq(T) /\ <<x>> \o a \in Seq(T)
OBVIOUS

\* Joining is associative.
LEMMA JoinJoin ==
  ASSUME NEW T, NEW a \in Seq(T), NEW b \in Seq(T), NEW c \in Seq(T)
  PROVE  (a \o b) \o c = a \o (b \o c)
<1>1. PICK ab \in Seq(T) : ab = a \o b
  BY JoinIs
<1>2. PICK bc \in Seq(T) : bc = b \o c
  BY JoinIs
<1>3. PICK l \in Seq(T) : l = ab \o c
  BY JoinIs
<1>4. PICK r \in Seq(T) : r = a \o bc
  BY JoinIs
<1>5. Len(l) = Len(a) + Len(b) + Len(c) /\ Len(r) = Len(a) + Len(b) + Len(c)
  BY <1>1, <1>2, <1>3, <1>4, JoinIs
<1>6. Len(a) \in Nat /\ Len(b) \in Nat /\ Len(c) \in Nat
  OBVIOUS
<1>7. ASSUME NEW i \in 1 .. Len(l) PROVE l[i] = r[i]
  <2>1. CASE i <= Len(a)
    BY <1>1, <1>2, <1>3, <1>4, <1>5, <1>6, <2>1
  <2>2. CASE Len(a) < i /\ i <= Len(a) + Len(b)
    BY <1>1, <1>2, <1>3, <1>4, <1>5, <1>6, <2>2
  <2>3. CASE Len(a) + Len(b) < i
    BY <1>1, <1>2, <1>3, <1>4, <1>5, <1>6, <2>3
  <2> QED
    BY <1>5, <1>6, <2>1, <2>2, <2>3
<1>8. l = r
  BY <1>5, <1>7, SeqSame
<1> QED
  BY <1>1, <1>2, <1>3, <1>4, <1>8

\* An element between two sequences.
LEMMA JoinMiddle ==
  ASSUME NEW T, NEW a \in Seq(T), NEW x \in T, NEW b \in Seq(T)
  PROVE  Append(a, x) \o b = a \o (<<x>> \o b)
<1>1. Append(a, x) = a \o <<x>> /\ <<x>> \in Seq(T)
  OBVIOUS
<1> QED
  BY <1>1, JoinJoin

\* An element appended after joining.
LEMMA JoinAppend ==
  ASSUME NEW T, NEW a \in Seq(T), NEW x \in T, NEW b \in Seq(T)
  PROVE  a \o Append(b, x) = Append(a \o b, x)
<1>1. Append(b, x) = b \o <<x>> /\ <<x>> \in Seq(T) /\ a \o b \in Seq(T)
  OBVIOUS
<1>2. Append(a \o b, x) = (a \o b) \o <<x>>
  BY <1>1
<1> QED
  BY <1>1, <1>2, JoinJoin

\* The first of two sequences gives the first element.
LEMMA JoinHead ==
  ASSUME NEW T, NEW a \in Seq(T), NEW b \in Seq(T), a # <<>>
  PROVE  /\ a \o b # <<>> /\ Head(a \o b) = Head(a) /\ Tail(a \o b) = Tail(a) \o b
         /\ Tail(a) \in Seq(T) /\ Head(a) \in T
<1>1. PICK n \in Seq(T) : n = Tail(a)
  BY HeadTailProperties
<1>2. a = <<Head(a)>> \o n /\ Head(a) \in T
  BY <1>1, HeadTailProperties
<1>3. PICK x \in T : x = Head(a)
  BY <1>2
<1> <<x>> \in Seq(T)
  BY <1>3
<1>4. PICK o \in Seq(T) : o = <<x>>
  OBVIOUS
<1>5. a \o b = o \o (n \o b)
  BY <1>1, <1>2, <1>3, <1>4, JoinJoin
<1>6. PICK m \in Seq(T) : m = n \o b
  BY JoinIs
<1>7. Head(<<x>> \o m) = x /\ Tail(<<x>> \o m) = m /\ <<x>> \o m # <<>>
  BY <1>3, <1>6
<1> QED
  BY <1>1, <1>2, <1>3, <1>4, <1>5, <1>6, <1>7

\* What a request is.
LEMMA RequestIs ==
  ASSUME NEW x \in Requests
  PROVE  /\ x \in Tasks
         /\ x.op = "revalidate_server" \/ x.op = "add_record" \/ x.op = "revalidate_bucket"
         /\ x.op = "revalidate_server" => x.server \in Servers /\ x.state \in States
         /\ x.op = "add_record" => x.server \in Servers /\ x.entry \in EntryIds
         /\ x.op = "revalidate_bucket" => x.kind \in Kinds /\ x.version \in Versions
<1>1. x \in Tasks
  BY TaskOf
<1> QED
  BY <1>1, TaskOp DEF Requests

\* The line consists of requests.
LEMMA LineIs ==
  ASSUME Types, NEW q, Line(q)
  PROVE  q \in Seq(Requests)
<1>1. todo \in Seq(Requests)
  BY DEF Types
<1>2. ASSUME NEW r \in Requests PROVE Append(todo, r) \in Seq(Requests)
  BY <1>1, JoinOne
<1>3. ASSUME NEW p \in Seq(Requests) PROVE p \o todo \in Seq(Requests)
  BY <1>1, JoinIs
<1> QED
  BY <1>1, <1>2, <1>3 DEF Line, Starting, Bringing, Running

\* The places of a line and what stands there.
LEMMA LinePlaces ==
  ASSUME NEW q \in Seq(Requests)
  PROVE  /\ Len(q) \in Nat /\ DOMAIN q = 1 .. Len(q)
         /\ \A i \in DOMAIN q : q[i] \in Requests /\ i \in Nat
OBVIOUS

\* Every request of the line is queued or under way.
LEMMA LineTasks ==
  ASSUME Types, NEW q, Line(q), NEW i \in DOMAIN q
  PROVE  \/ \E j \in DOMAIN todo : todo[j] = q[i]
         \/ \E t \in Threads : \E j \in DOMAIN agenda[t] : agenda[t][j] = q[i]
<1>0. todo \in Seq(Requests) /\ agenda \in [Threads -> Seq(Tasks)]
  BY DEF Types
<1>1. CASE q = todo
  BY <1>1
<1>2. CASE q # todo
  <2>1. bucket_mutex \in Threads
    BY <1>2 DEF Types, Line
  <2>2. PICK rest \in Seq(Tasks) :
          \/ \E r \in Requests : Bringing(q, r, rest)
          \/ \E p \in Seq(Requests) : Running(q, p, rest)
    BY <1>2 DEF Line, Starting
  <2>3. ASSUME NEW r \in Requests, Bringing(q, r, rest)
        PROVE  \/ \E j \in DOMAIN todo : todo[j] = q[i]
               \/ \E j \in DOMAIN agenda[bucket_mutex] : agenda[bucket_mutex][j] = q[i]
    <3>1. agenda[bucket_mutex] = <<Run, r>> \o rest /\ q = Append(todo, r)
      BY <2>3 DEF Bringing
    <3>2. r \in Tasks /\ Run \in Tasks
      BY RequestIs, TaskOf
    <3>3. <<Run, r>> \in Seq(Tasks) /\ Len(<<Run, r>>) = 2 /\ <<Run, r>>[2] = r
      BY <3>2
    <3>4. 2 \in DOMAIN agenda[bucket_mutex] /\ agenda[bucket_mutex][2] = r
      BY <3>1, <3>3, JoinIs
    <3>5. (i \in DOMAIN todo /\ todo[i] = q[i]) \/ q[i] = r
      <4>1. Append(todo, r) = todo \o <<r>> /\ <<r>> \in Seq(Requests) /\ Len(<<r>>) = 1 /\ <<r>>[1] = r
        BY <1>0
      <4> QED
        BY <1>0, <3>1, <4>1, JoinIs
    <3> QED
      BY <3>4, <3>5
  <2>4. ASSUME NEW p \in Seq(Requests), Running(q, p, rest)
        PROVE  \/ \E j \in DOMAIN todo : todo[j] = q[i]
               \/ \E j \in DOMAIN agenda[bucket_mutex] : agenda[bucket_mutex][j] = q[i]
    <3>1. agenda[bucket_mutex] = p \o rest /\ q = p \o todo /\ p \in Seq(Tasks)
      BY <2>4, RequestsAreTasks DEF Running
    <3>2. CASE i <= Len(p)
      BY <1>0, <3>1, <3>2, JoinIs
    <3>4. i \in Nat /\ Len(p) \in Nat /\ Len(todo) \in Nat /\ i <= Len(p) + Len(todo) /\ DOMAIN todo = 1 .. Len(todo)
      BY <1>0, <3>1, JoinIs
    <3>3. CASE Len(p) < i
      <4>1. PICK j \in 1 .. Len(todo) : i = Len(p) + j
        <5>1. i - Len(p) \in 1 .. Len(todo) /\ i = Len(p) + (i - Len(p))
          BY <3>3, <3>4
        <5> QED
          BY <5>1
      <4>2. q[i] = todo[j]
        BY <1>0, <3>1, <4>1, JoinIs
      <4> QED
        BY <3>4, <4>1, <4>2
    <3> QED
      BY <3>2, <3>3, <3>4
  <2> QED
    BY <2>1, <2>2, <2>3, <2>4
<1> QED
  BY <1>1, <1>2

\* Who owns a reference is under way.
LEMMA TodoPending ==
  ASSUME Types, NEW i \in DOMAIN todo, NEW X, todo[i] \in X
  PROVE  Pending(X) > 0
<1>1. todo \in Seq(Requests)
  BY DEF Types
<1>2. Num(todo, X) # 0
  BY <1>1, NumZero
<1> QED
  BY <1>2, PendingIs

\* The entries of the table and of the records to be added are in memory.
Alive ==
  /\ \A s \in Servers : table[s] # NoEntry => heap.entry[table[s]].live
  /\ \A q : Line(q) => \A i \in DOMAIN q : q[i].op = "add_record" => heap.entry[q[i].entry].live

\* They are, because the table and the record own them.
LEMMA InvAlive ==
  ASSUME ManagerInv
  PROVE  Alive
<1>1. Types /\ Exact
  BY DEF ManagerInv
<1>2. ASSUME NEW s \in Servers, table[s] # NoEntry PROVE heap.entry[table[s]].live
  <2>1. table[s] \in EntryIds
    BY <1>1, <1>2 DEF Types
  <2> QED
    BY <1>1, <2>1, Owned
<1>3. ASSUME NEW q, Line(q), NEW i \in DOMAIN q, q[i].op = "add_record"
      PROVE  heap.entry[q[i].entry].live
  <2>1. q \in Seq(Requests)
    BY <1>1, <1>3, LineIs
  <2>2. q[i] \in Requests
    BY <2>1, LinePlaces
  <2>3. PICK e \in EntryIds : e = q[i].entry /\ q[i] \in Owning(e)
    <3>1. q[i] \in Tasks
      BY <2>2, RequestIs
    <3>2. PICK s \in Servers, e \in EntryIds : q[i] = Add(s, e)
      BY <1>3, <3>1, TaskIs
    <3> QED
      BY <3>2, TaskOp DEF Owning
  <2>4. Pending(Owning(e)) > 0
    BY <1>1, <1>3, <2>3, LineTasks, TodoPending, PendingMember
  <2> QED
    BY <1>1, <2>3, <2>4, Owned
<1> QED
  BY <1>2, <1>3 DEF Alive

\* A request joins the line at place m; only the holder's own may come after it.
Joined(q, n, m, x) ==
  /\ Len(n) = Len(q) + 1 /\ m \in 1 .. Len(n) /\ n[m] = x
  /\ \A i \in 1 .. Len(q) : /\ i < m => n[i] = q[i]
                            /\ m <= i => n[i + 1] = q[i] /\ Own(q[i])
Joins(q, x) == \E n : Line(n)' /\ \E m : Joined(q, n, m, x)

\* A request joins at the end,
LEMMA JoinedEnd ==
  ASSUME NEW q \in Seq(Requests), NEW x \in Requests
  PROVE  Joined(q, Append(q, x), Len(q) + 1, x)
BY DEF Joined

\* or before the own request of the mutex holder.
LEMMA JoinedBefore ==
  ASSUME NEW p \in Seq(Requests), NEW x \in Requests, NEW r \in Requests, Own(r)
  PROVE  Joined(Append(p, r), Append(Append(p, x), r), Len(p) + 1, x)
<1>1. PICK q \in Seq(Requests) : q = Append(p, r)
  BY JoinOne
<1>2. PICK o \in Seq(Requests) : o = Append(p, x)
  BY JoinOne
<1>3. PICK n \in Seq(Requests) : n = Append(o, r)
  BY <1>2, JoinOne
<1>4. Len(p) \in Nat /\ Len(q) = Len(p) + 1 /\ Len(n) = Len(p) + 2
  BY <1>1, <1>2, <1>3
<1>5. /\ \A i \in 1 .. Len(p) : q[i] = p[i] /\ n[i] = p[i]
      /\ q[Len(p) + 1] = r /\ n[Len(p) + 1] = x /\ n[Len(p) + 2] = r
  BY <1>1, <1>2, <1>3
<1>6. Len(n) = Len(q) + 1 /\ Len(p) + 1 \in 1 .. Len(n) /\ n[Len(p) + 1] = x
  BY <1>4, <1>5
<1>7. ASSUME NEW i \in 1 .. Len(q)
      PROVE  /\ i < Len(p) + 1 => n[i] = q[i]
             /\ Len(p) + 1 <= i => n[i + 1] = q[i] /\ Own(q[i])
  <2>1. CASE i \in 1 .. Len(p)
    BY <1>4, <1>5, <2>1
  <2>2. CASE i = Len(p) + 1
    <3>1. n[i + 1] = r /\ q[i] = r
      BY <1>4, <1>5, <2>2
    <3> QED
      BY <1>4, <2>2, <3>1
  <2> QED
    BY <1>4, <2>1, <2>2
<1>8. Joined(q, n, Len(p) + 1, x)
  BY <1>6, <1>7 DEF Joined
<1> QED
  BY <1>1, <1>2, <1>3, <1>8

\* The line stays as long as the todo list and the holder do.
LEMMA LineSame ==
  ASSUME NEW q, Line(q), todo' = todo, bucket_mutex' = bucket_mutex,
         bucket_mutex # NoThread => agenda'[bucket_mutex] = agenda[bucket_mutex],
         \A r : Own(r) => Own(r)'
  PROVE  Line(q)'
BY DEF Line, Starting, Bringing, Running

\* The holder of the mutex has something to do.
LEMMA HolderBusy ==
  ASSUME Types, NEW q, Line(q), bucket_mutex # NoThread
  PROVE  bucket_mutex \in Threads /\ ~Idle(bucket_mutex)
<1>1. bucket_mutex \in Threads
  BY DEF Types
<1>2. PICK rest \in Seq(Tasks) :
        /\ Closing(rest)
        /\ \/ Starting(q, rest)
           \/ \E r \in Requests : Bringing(q, r, rest)
           \/ \E p \in Seq(Requests) : Running(q, p, rest)
  BY DEF Line
<1>3. rest # <<>>
  BY <1>2 DEF Closing
<1>4. <<Run>> \o rest # <<>> /\ \A r \in Requests : <<Run, r>> \o rest # <<>>
  OBVIOUS
<1>5. ASSUME NEW p \in Seq(Requests) PROVE p \o rest # <<>>
  <2>1. p \in Seq(Tasks)
    BY RequestsAreTasks
  <2>2. Len(rest) # 0 /\ Len(rest) \in Nat
    BY <1>3
  <2>3. Len(p \o rest) # 0
    BY <2>1, <2>2, JoinIs
  <2> QED
    BY <2>3
<1> QED
  BY <1>1, <1>2, <1>4, <1>5 DEF Idle, Starting, Bringing, Running

\* Whoever takes the mutex with a request puts it at the end of the line.
LEMMA LineLock ==
  ASSUME Types, NEW q, Line(q), bucket_mutex = NoThread, NEW t \in Threads, bucket_mutex' = t, todo' = todo,
         NEW x \in Requests, NEW rest \in Seq(Tasks), Closing(rest), agenda'[t] = <<Run, x>> \o rest, Own(x)'
  PROVE  Joins(q, x)
<1>1. q = todo /\ q \in Seq(Requests)
  BY LineIs DEF Line
<1>2. t # NoThread
  BY ManagerAssumption
<1>3. PICK n : n = Append(todo, x)
  OBVIOUS
<1>4. Bringing(n, x, rest)'
  BY <1>3 DEF Bringing
<1>5. Line(n)'
  BY <1>2, <1>4 DEF Line
<1>6. Joined(q, n, Len(q) + 1, x)
  BY <1>1, <1>3, JoinedEnd
<1> QED
  BY <1>5, <1>6 DEF Joins

\* Whoever takes it without a request changes nothing.
LEMMA LineLockPlain ==
  ASSUME NEW q, Line(q), bucket_mutex = NoThread, NEW t \in Threads, bucket_mutex' = t, todo' = todo,
         NEW rest \in Seq(Tasks), Closing(rest), agenda'[t] = <<Run>> \o rest
  PROVE  Line(q)'
<1>1. q = todo
  BY DEF Line
<1>2. t # NoThread
  BY ManagerAssumption
<1> QED
  BY <1>1, <1>2 DEF Line, Starting

\* Whoever does not get the mutex queues its request.
LEMMA LineQueue ==
  ASSUME Types, NEW q, Line(q), NEW x \in Requests, todo' = Append(todo, x), bucket_mutex' = bucket_mutex,
         bucket_mutex # NoThread => agenda'[bucket_mutex] = agenda[bucket_mutex],
         \A r : Own(r) => Own(r)'
  PROVE  Joins(q, x)
<1>0. todo \in Seq(Requests) /\ q \in Seq(Requests)
  BY LineIs DEF Types
<1>1. CASE bucket_mutex = NoThread
  <2>1. Line(Append(q, x))'
    BY <1>1 DEF Line
  <2> QED
    BY <1>0, <2>1, JoinedEnd DEF Joins
<1>2. CASE bucket_mutex # NoThread
  <2>1. PICK rest \in Seq(Tasks) :
          /\ Closing(rest)
          /\ \/ Starting(q, rest)
             \/ \E r \in Requests : Bringing(q, r, rest)
             \/ \E p \in Seq(Requests) : Running(q, p, rest)
    BY <1>2 DEF Line
  <2>2. CASE Starting(q, rest)
    <3>1. Starting(Append(q, x), rest)'
      BY <1>2, <2>2 DEF Starting
    <3>2. Line(Append(q, x))'
      BY <1>2, <2>1, <3>1 DEF Line
    <3> QED
      BY <1>0, <3>2, JoinedEnd DEF Joins
  <2>3. ASSUME NEW r \in Requests, Bringing(q, r, rest) PROVE Joins(q, x)
    <3>1. q = Append(todo, r) /\ Own(r) /\ Own(r)'
      BY <2>3 DEF Bringing
    <3>2. PICK n : n = Append(Append(todo, x), r)
      OBVIOUS
    <3>3. Bringing(n, r, rest)'
      BY <1>2, <2>3, <3>1, <3>2 DEF Bringing
    <3>4. Line(n)'
      BY <1>2, <2>1, <3>3 DEF Line
    <3>5. Joined(q, n, Len(todo) + 1, x)
      BY <1>0, <3>1, <3>2, JoinedBefore
    <3> QED
      BY <3>4, <3>5 DEF Joins
  <2>4. ASSUME NEW p \in Seq(Requests), Running(q, p, rest) PROVE Joins(q, x)
    <3>1. p \o Append(todo, x) = Append(q, x)
      BY <1>0, <2>4, JoinAppend DEF Running
    <3>2. Running(Append(q, x), p, rest)'
      BY <1>2, <2>4, <3>1 DEF Running
    <3>3. Line(Append(q, x))'
      BY <1>2, <2>1, <3>2 DEF Line
    <3> QED
      BY <1>0, <3>3, JoinedEnd DEF Joins
  <2> QED
    BY <2>1, <2>2, <2>3, <2>4
<1> QED
  BY <1>1, <1>2

\* The first task of one that is not in the mutex.
LEMMA HeadOutside ==
  ASSUME Types, Turns, NEW t \in Threads, agenda[t] # <<>>,
         Head(agenda[t]).op # "put", Head(agenda[t]).op # "end_update"
  PROVE  t = bucket_mutex
<1>1. agenda[t] \in Seq(Tasks)
  BY DEF Types
<1>2. 1 \in DOMAIN agenda[t] /\ Head(agenda[t]) = agenda[t][1]
  BY <1>1
<1> QED
  BY <1>2 DEF Turns, Outside

\* The next task of a call that has run all its requests.
LEMMA ClosingHead ==
  ASSUME NEW rest \in Seq(Tasks), Closing(rest)
  PROVE  /\ rest # <<>> /\ Tail(rest) \in Seq(Tasks)
         /\ Head(rest).op \in {"lookup_entry", "put", "unlock"}
         /\ Head(rest).op # "unlock" => Closing(Tail(rest))
         /\ Head(rest).op = "unlock" => Outside(Tail(rest))
<1>1. rest # <<>>
  BY DEF Closing
<1>2. PICK n \in Seq(Tasks) : n = Tail(rest)
  BY <1>1, HeadTailProperties
<1>3. /\ Len(rest) \in Nat /\ Len(rest) >= 1 /\ Len(n) = Len(rest) - 1 /\ Head(rest) = rest[1]
      /\ DOMAIN rest = 1 .. Len(rest) /\ DOMAIN n = 1 .. Len(n)
      /\ \A i \in 1 .. Len(n) : n[i] = rest[i + 1]
  BY <1>1, <1>2
<1>4. \A i \in 1 .. Len(n) : i \in Nat /\ i + 1 \in 1 .. Len(rest) /\ n[i] = rest[i + 1] /\ 1 < i + 1
  BY <1>3
<1>5. PICK u \in 1 .. Len(rest) :
        /\ rest[u].op = "unlock"
        /\ \A i \in 1 .. Len(rest) : /\ i < u => rest[i].op \in {"lookup_entry", "put"}
                                     /\ u < i => rest[i].op \in {"put", "end_update"}
  BY DEF Closing
<1>6. 1 \in 1 .. Len(rest) /\ u \in Nat /\ (u = 1 \/ 1 < u)
  BY <1>3, <1>5
<1>7. CASE u = 1
  <2>1. Head(rest).op = "unlock"
    BY <1>3, <1>5, <1>7
  <2>2. Outside(n)
    BY <1>3, <1>4, <1>5, <1>7 DEF Outside
  <2> QED
    BY <1>1, <1>2, <2>1, <2>2
<1>8. CASE 1 < u
  <2>1. Head(rest).op \in {"lookup_entry", "put"}
    <3>0. \A i \in 1 .. Len(rest) : i < u => rest[i].op \in {"lookup_entry", "put"}
      BY <1>5
    <3>1. rest[1].op \in {"lookup_entry", "put"}
      BY <1>6, <1>8, <3>0
    <3> QED
      BY <1>3, <3>1
  <2>2. PICK v \in 1 .. Len(n) : u = v + 1
    <3>1. u - 1 \in 1 .. Len(n) /\ u = (u - 1) + 1
      BY <1>3, <1>5, <1>8
    <3> QED
      BY <1>3, <3>1
  <2>3. n[v].op = "unlock"
    BY <1>4, <1>5, <2>2
  <2>4. \A i \in 1 .. Len(n) : /\ i < v => n[i].op \in {"lookup_entry", "put"}
                               /\ v < i => n[i].op \in {"put", "end_update"}
    <3> SUFFICES ASSUME NEW i \in 1 .. Len(n)
                 PROVE  /\ i < v => n[i].op \in {"lookup_entry", "put"}
                        /\ v < i => n[i].op \in {"put", "end_update"}
      OBVIOUS
    <3>1. PICK j \in 1 .. Len(rest) : j = i + 1 /\ n[i] = rest[j]
      BY <1>4
    <3>2. (i < v => j < u) /\ (v < i => u < j)
      BY <1>4, <2>2, <3>1
    <3>3. /\ j < u => rest[j].op \in {"lookup_entry", "put"}
          /\ u < j => rest[j].op \in {"put", "end_update"}
      BY <1>5
    <3> QED
      BY <3>1, <3>2, <3>3
  <2>5. Closing(n)
    BY <2>3, <2>4 DEF Closing
  <2> QED
    BY <1>1, <1>2, <2>1, <2>5
<1> QED
  BY <1>6, <1>7, <1>8

\* What the holder of the mutex does first: it runs the todo list, or the
\* first request of the line, or what comes after the last one of its own.
LEMMA HeadInside ==
  ASSUME Types, NEW q, Line(q), bucket_mutex # NoThread, agenda[bucket_mutex] # <<>>,
         Head(agenda[bucket_mutex]).op # "run_todo_list"
  PROVE  \E rest \in Seq(Tasks), p \in Seq(Requests) :
           /\ Closing(rest) /\ Running(q, p, rest)
           /\ p # <<>> => /\ q # <<>> /\ Head(q) = Head(agenda[bucket_mutex])
                          /\ Head(q) \in Requests /\ Tail(p) \in Seq(Requests)
                          /\ Tail(agenda[bucket_mutex]) = Tail(p) \o rest /\ Tail(q) = Tail(p) \o todo
           /\ p = <<>> => q = todo /\ agenda[bucket_mutex] = rest
<1>0. todo \in Seq(Requests)
  BY DEF Types
<1>1. PICK rest \in Seq(Tasks) :
        /\ Closing(rest)
        /\ \/ Starting(q, rest)
           \/ \E r \in Requests : Bringing(q, r, rest)
           \/ \E p \in Seq(Requests) : Running(q, p, rest)
  BY DEF Line
<1>2. ~Starting(q, rest)
  <2>1. Head(<<Run>> \o rest) = Run
    BY <1>1
  <2> QED
    BY <2>1, TaskOp DEF Starting
<1>3. ASSUME NEW r \in Requests PROVE ~Bringing(q, r, rest)
  <2>1. Head(<<Run, r>> \o rest) = Run
    BY <1>1
  <2> QED
    BY <2>1, TaskOp DEF Bringing
<1>4. PICK p \in Seq(Requests) : Running(q, p, rest)
  BY <1>1, <1>2, <1>3
<1>5. p \in Seq(Tasks) /\ agenda[bucket_mutex] = p \o rest /\ q = p \o todo
  BY <1>4, RequestsAreTasks DEF Running
<1>6. ASSUME p = <<>> PROVE q = todo /\ agenda[bucket_mutex] = rest
  BY <1>0, <1>5, <1>6, JoinEmpty
<1>7. ASSUME p # <<>>
      PROVE  /\ q # <<>> /\ Head(q) = Head(agenda[bucket_mutex])
             /\ Head(q) \in Requests /\ Tail(p) \in Seq(Requests)
             /\ Tail(agenda[bucket_mutex]) = Tail(p) \o rest /\ Tail(q) = Tail(p) \o todo
  <2>1. /\ q # <<>> /\ Head(q) = Head(p) /\ Tail(q) = Tail(p) \o todo
        /\ Tail(p) \in Seq(Requests) /\ Head(p) \in Requests
    BY <1>0, <1>5, <1>7, JoinHead
  <2>2. Head(agenda[bucket_mutex]) = Head(p) /\ Tail(agenda[bucket_mutex]) = Tail(p) \o rest
    BY <1>1, <1>5, <1>7, JoinHead
  <2> QED
    BY <2>1, <2>2
<1> QED
  BY <1>1, <1>4, <1>6, <1>7

\* What a thread goes on with.
LEMMA ContinuedWith ==
  ASSUME Types, NEW t \in Threads, agenda[t] # <<>>, NEW tasks \in Seq(Tasks), Continue(t, tasks)
  PROVE  agenda'[t] = tasks \o Tail(agenda[t]) /\ \A u \in Threads : u # t => agenda'[u] = agenda[u]
BY DEF Types, Continue

\* A thread goes on with what it had to do already.
LEMMA ContinuedPlain ==
  ASSUME Types, NEW t \in Threads, agenda[t] # <<>>, Continue(t, <<>>)
  PROVE  /\ agenda'[t] = Tail(agenda[t]) /\ Tail(agenda[t]) \in Seq(Tasks)
         /\ \A u \in Threads : u # t => agenda'[u] = agenda[u]
<1>1. <<>> \in Seq(Tasks)
  OBVIOUS
<1>2. Tail(agenda[t]) \in Seq(Tasks)
  BY HeadTailProperties DEF Types
<1>3. agenda'[t] = <<>> \o Tail(agenda[t]) /\ \A u \in Threads : u # t => agenda'[u] = agenda[u]
  BY <1>1, ContinuedWith
<1> QED
  BY <1>2, <1>3, JoinEmpty

\* The todo list is run.
LEMMA LineRun ==
  ASSUME Types, Turns, NEW q, Line(q), NEW t \in Threads, At(t, "run_todo_list"), Continue(t, todo),
         todo' = <<>>, bucket_mutex' = bucket_mutex
  PROVE  Line(q)' /\ t = bucket_mutex
<1>0. agenda[t] # <<>> /\ Head(agenda[t]).op = "run_todo_list" /\ todo \in Seq(Requests) /\ todo \in Seq(Tasks)
  BY RequestsAreTasks DEF At, Types
<1>1. t = bucket_mutex /\ bucket_mutex # NoThread
  BY <1>0, HeadOutside, ManagerAssumption
<1>2. agenda'[t] = todo \o Tail(agenda[t])
  BY <1>0, ContinuedWith
<1>3. PICK rest \in Seq(Tasks) :
        /\ Closing(rest)
        /\ \/ Starting(q, rest)
           \/ \E r \in Requests : Bringing(q, r, rest)
           \/ \E p \in Seq(Requests) : Running(q, p, rest)
  BY <1>1 DEF Line
<1>4. CASE Starting(q, rest)
  <2>1. agenda[t] = <<Run>> \o rest /\ q = todo
    BY <1>1, <1>4 DEF Starting
  <2>2. Tail(<<Run>> \o rest) = rest
    BY <1>3, TaskOf
  <2>3. q \o <<>> = q
    BY <1>0, <2>1, JoinEmpty
  <2>4. Running(q, q, rest)' /\ q \in Seq(Requests)
    BY <1>0, <1>1, <1>2, <2>1, <2>2, <2>3 DEF Running
  <2> QED
    BY <1>1, <1>3, <2>4 DEF Line
<1>5. ASSUME NEW r \in Requests, Bringing(q, r, rest) PROVE Line(q)'
  <2>1. agenda[t] = <<Run, r>> \o rest /\ q = Append(todo, r)
    BY <1>1, <1>5 DEF Bringing
  <2>2. r \in Tasks /\ Run \in Tasks
    BY RequestIs, TaskOf
  <2>3. Tail(<<Run, r>> \o rest) = <<r>> \o rest
    BY <1>3, <2>2
  <2>4. q \in Seq(Requests)
    BY <1>0, <2>1, JoinOne
  <2>5. q \o <<>> = q
    BY <2>4, JoinEmpty
  <2>6. todo \o (<<r>> \o rest) = q \o rest
    BY <1>0, <1>3, <2>1, <2>2, JoinMiddle
  <2>7. Running(q, q, rest)'
    BY <1>1, <1>2, <2>1, <2>3, <2>5, <2>6 DEF Running
  <2> QED
    BY <1>1, <1>3, <2>4, <2>7 DEF Line
<1>6. ASSUME NEW p \in Seq(Requests), Running(q, p, rest) PROVE FALSE
  <2>1. agenda[t] = p \o rest /\ p \in Seq(Tasks)
    BY <1>1, <1>6, RequestsAreTasks DEF Running
  <2>2. CASE p = <<>>
    <3>1. agenda[t] = rest
      BY <1>3, <2>1, <2>2, JoinEmpty
    <3> QED
      BY <1>0, <1>3, <3>1, ClosingHead
  <2>3. CASE p # <<>>
    <3>1. Head(agenda[t]) = Head(p) /\ Head(p) \in Requests
      BY <1>3, <2>1, <2>3, JoinHead
    <3> QED
      BY <1>0, <3>1, RequestIs
  <2> QED
    BY <2>2, <2>3
<1> QED
  BY <1>1, <1>3, <1>4, <1>5, <1>6

\* A request has been run: the first of the line.
LEMMA LineDone ==
  ASSUME Types, Turns, NEW q, Line(q), NEW t \in Threads, agenda[t] # <<>>, Head(agenda[t]) \in Requests,
         Continue(t, <<>>), todo' = todo, bucket_mutex' = bucket_mutex
  PROVE  q # <<>> /\ Head(q) = Head(agenda[t]) /\ Line(Tail(q))' /\ t = bucket_mutex
<1>1. PICK x \in Requests : x = Head(agenda[t])
  OBVIOUS
<1>2. x.op = "revalidate_server" \/ x.op = "add_record" \/ x.op = "revalidate_bucket"
  BY <1>1, RequestIs
<1>3. t = bucket_mutex /\ bucket_mutex # NoThread
  BY <1>1, <1>2, HeadOutside, ManagerAssumption
<1>4. PICK rest \in Seq(Tasks), p \in Seq(Requests) :
        /\ Closing(rest) /\ Running(q, p, rest)
        /\ p # <<>> => /\ q # <<>> /\ Head(q) = Head(agenda[t])
                       /\ Head(q) \in Requests /\ Tail(p) \in Seq(Requests)
                       /\ Tail(agenda[t]) = Tail(p) \o rest /\ Tail(q) = Tail(p) \o todo
        /\ p = <<>> => q = todo /\ agenda[t] = rest
  BY <1>1, <1>2, <1>3, HeadInside
<1>5. p # <<>>
  BY <1>1, <1>2, <1>4, ClosingHead
<1>6. agenda'[t] = Tail(agenda[t])
  BY ContinuedPlain
<1>7. PICK n : n = Tail(q)
  OBVIOUS
<1>8. PICK o \in Seq(Requests) : o = Tail(p)
  BY <1>4, <1>5
<1>9. Running(n, o, rest)'
  BY <1>3, <1>4, <1>5, <1>6, <1>7, <1>8 DEF Running
<1>10. Line(n)'
  BY <1>3, <1>4, <1>8, <1>9 DEF Line
<1> QED
  BY <1>3, <1>4, <1>5, <1>7, <1>10

\* Other tasks leave the line as it is.
LEMMA LineQuiet ==
  ASSUME Types, Turns, NEW q, Line(q), NEW t \in Threads, agenda[t] # <<>>,
         Head(agenda[t]).op \in {"lookup_entry", "put", "end_update"},
         Continue(t, <<>>), todo' = todo, bucket_mutex' = bucket_mutex, \A r : Own(r) => Own(r)'
  PROVE  Line(q)'
<1>1. agenda'[t] = Tail(agenda[t]) /\ \A u \in Threads : u # t => agenda'[u] = agenda[u]
  BY ContinuedPlain
<1>2. CASE t # bucket_mutex
  <2>1. bucket_mutex # NoThread => bucket_mutex \in Threads
    BY DEF Types
  <2>2. bucket_mutex # NoThread => agenda'[bucket_mutex] = agenda[bucket_mutex]
    BY <1>1, <1>2, <2>1
  <2> QED
    BY <2>2, LineSame
<1>3. CASE t = bucket_mutex
  <2>0. bucket_mutex # NoThread
    BY <1>3, ManagerAssumption
  <2>1. PICK rest \in Seq(Tasks), p \in Seq(Requests) :
          /\ Closing(rest) /\ Running(q, p, rest)
          /\ p # <<>> => Head(q) = Head(agenda[t]) /\ Head(q) \in Requests
          /\ p = <<>> => q = todo /\ agenda[t] = rest
    BY <1>3, <2>0, HeadInside
  <2>2. p = <<>>
    <3>1. ASSUME p # <<>> PROVE FALSE
      <4>1. PICK x \in Requests : x = Head(agenda[t])
        BY <2>1, <3>1
      <4> QED
        BY <4>1, RequestIs
    <3> QED
      BY <3>1
  <2>3. Closing(Tail(rest)) /\ Tail(rest) \in Seq(Tasks) /\ agenda'[t] = Tail(rest) /\ q = todo
    BY <1>1, <2>1, <2>2, ClosingHead
  <2>4. PICK n \in Seq(Tasks) : n = Tail(rest)
    BY <2>3
  <2>5. <<>> \o n = n /\ <<>> \o todo = todo /\ <<>> \in Seq(Requests)
    BY <2>4, JoinEmpty DEF Types
  <2>6. Running(q, <<>>, n)'
    BY <1>3, <2>3, <2>4, <2>5 DEF Running
  <2> QED
    BY <2>0, <2>3, <2>4, <2>5, <2>6 DEF Line
<1> QED
  BY <1>2, <1>3

\* The mutex is given back when nothing is left of the line but the todo list.
LEMMA LineUnlock ==
  ASSUME Types, Turns, NEW q, Line(q), NEW t \in Threads, agenda[t] # <<>>, Head(agenda[t]).op = "unlock",
         Continue(t, <<>>), todo' = todo, bucket_mutex' = NoThread
  PROVE  Line(q)' /\ Outside(agenda'[t]) /\ t = bucket_mutex
<1>1. agenda'[t] = Tail(agenda[t])
  BY ContinuedPlain
<1>2. t = bucket_mutex /\ bucket_mutex # NoThread
  BY HeadOutside, ManagerAssumption
<1>3. PICK rest \in Seq(Tasks), p \in Seq(Requests) :
        /\ Closing(rest) /\ Running(q, p, rest)
        /\ p # <<>> => Head(q) = Head(agenda[t]) /\ Head(q) \in Requests
        /\ p = <<>> => q = todo /\ agenda[t] = rest
  BY <1>2, HeadInside
<1>4. p = <<>>
  <2>1. ASSUME p # <<>> PROVE FALSE
    <3>1. PICK x \in Requests : x = Head(agenda[t])
      BY <1>3, <2>1
    <3> QED
      BY <3>1, RequestIs
  <2> QED
    BY <2>1
<1>5. Outside(agenda'[t]) /\ q = todo
  BY <1>1, <1>3, <1>4, ClosingHead
<1> QED
  BY <1>2, <1>5 DEF Line

\* A thread does nothing else.
LEMMA OnlyTasks ==
  ASSUME Types, Turns, NEW q, Line(q), NEW t \in Threads, agenda[t] # <<>>
  PROVE  \/ Head(agenda[t]) \in Requests
         \/ Head(agenda[t]).op \in {"run_todo_list", "lookup_entry", "put", "unlock", "end_update"}
<1>1. CASE Head(agenda[t]).op = "put" \/ Head(agenda[t]).op = "end_update" \/ Head(agenda[t]).op = "run_todo_list"
  BY <1>1
<1>2. CASE ~(Head(agenda[t]).op = "put" \/ Head(agenda[t]).op = "end_update" \/ Head(agenda[t]).op = "run_todo_list")
  <2>1. t = bucket_mutex /\ bucket_mutex # NoThread
    BY <1>2, HeadOutside, ManagerAssumption
  <2>2. PICK rest \in Seq(Tasks), p \in Seq(Requests) :
          /\ Closing(rest) /\ Running(q, p, rest)
          /\ p # <<>> => Head(q) = Head(agenda[t]) /\ Head(q) \in Requests
          /\ p = <<>> => q = todo /\ agenda[t] = rest
    BY <1>2, <2>1, HeadInside
  <2> QED
    BY <2>2, ClosingHead
<1> QED
  BY <1>1, <1>2

\* One thread takes a step.
LEMMA TurnsStep ==
  ASSUME Types, Turns, NEW t \in Threads, NEW a, agenda'[t] = a,
         \A u \in Threads : u # t => agenda'[u] = agenda[u],
         \A u \in Threads : u # t /\ u = bucket_mutex => u = bucket_mutex',
         t # bucket_mutex' => Outside(a),
         \A i \in DOMAIN a : a[i].op = "end_update" => i = Len(a) /\ rw_lock' = t,
         \A u \in Threads : u # t /\ rw_lock = u => rw_lock' = u
  PROVE  Turns'
<1>1. ASSUME NEW u \in Threads, u # bucket_mutex' PROVE Outside(agenda'[u])
  BY <1>1 DEF Turns
<1>2. ASSUME NEW u \in Threads, NEW i \in DOMAIN agenda'[u], agenda'[u][i].op = "end_update"
      PROVE  i = Len(agenda'[u]) /\ rw_lock' = u
  <2>1. CASE u = t
    BY <1>2, <2>1
  <2>2. CASE u # t
    <3>1. agenda'[u] = agenda[u]
      BY <2>2
    <3>2. i = Len(agenda[u]) /\ rw_lock = u
      BY <1>2, <3>1 DEF Turns
    <3> QED
      BY <2>2, <3>1, <3>2
  <2> QED
    BY <2>1, <2>2
<1> QED
  BY <1>1, <1>2 DEF Turns

\* What is left of a thread's tasks.
LEMMA TurnsTail ==
  ASSUME Types, Turns, NEW t \in Threads, agenda[t] # <<>>, NEW a, a = Tail(agenda[t])
  PROVE  /\ a \in Seq(Tasks)
         /\ Outside(agenda[t]) => Outside(a)
         /\ \A i \in DOMAIN a : a[i].op = "end_update" => i = Len(a) /\ rw_lock = t
         /\ Head(agenda[t]).op = "end_update" => DOMAIN a = {} /\ rw_lock = t
<1>1. PICK b \in Seq(Tasks) : b = agenda[t] /\ b # <<>>
  BY DEF Types
<1>2. a \in Seq(Tasks)
  BY <1>1, HeadTailProperties
<1>3. /\ Len(b) \in Nat /\ Len(b) >= 1 /\ Len(a) = Len(b) - 1 /\ Head(b) = b[1]
      /\ DOMAIN b = 1 .. Len(b) /\ DOMAIN a = 1 .. Len(a)
      /\ \A i \in 1 .. Len(a) : a[i] = b[i + 1]
  BY <1>1
<1>4. \A i \in DOMAIN a : i \in Nat /\ i + 1 \in DOMAIN b /\ a[i] = b[i + 1]
  BY <1>3
<1>5. \A i \in DOMAIN b : b[i].op = "end_update" => i = Len(b) /\ rw_lock = t
  BY <1>1 DEF Turns
<1>6. ASSUME Outside(agenda[t]) PROVE Outside(a)
  BY <1>1, <1>4, <1>6 DEF Outside
<1>7. ASSUME NEW i \in DOMAIN a, a[i].op = "end_update" PROVE i = Len(a) /\ rw_lock = t
  BY <1>3, <1>4, <1>5, <1>7
<1>8. ASSUME Head(agenda[t]).op = "end_update" PROVE DOMAIN a = {} /\ rw_lock = t
  <2>1. 1 \in DOMAIN b /\ b[1].op = "end_update"
    BY <1>1, <1>3, <1>8
  <2>2. 1 = Len(b) /\ rw_lock = t
    BY <1>5, <2>1
  <2>3. 1 .. Len(a) = {}
    BY <1>3, <2>2
  <2> QED
    BY <1>3, <2>2, <2>3
<1> QED
  BY <1>2, <1>6, <1>7, <1>8

\* A task is done and no lock changes hands.
LEMMA TurnsDone ==
  ASSUME Types, Turns, NEW t \in Threads, agenda[t] # <<>>, Continue(t, <<>>),
         bucket_mutex' = bucket_mutex, rw_lock' = rw_lock
  PROVE  Turns'
<1>1. PICK a : a = Tail(agenda[t])
  OBVIOUS
<1>2. /\ Outside(agenda[t]) => Outside(a)
      /\ \A i \in DOMAIN a : a[i].op = "end_update" => i = Len(a) /\ rw_lock = t
  BY <1>1, TurnsTail
<1>3. agenda'[t] = a /\ \A u \in Threads : u # t => agenda'[u] = agenda[u]
  BY <1>1, ContinuedPlain
<1>4. t # bucket_mutex' => Outside(a)
  BY <1>2 DEF Turns
<1> QED
  BY <1>2, <1>3, <1>4, TurnsStep

\* The bucket mutex is given back.
LEMMA TurnsUnlock ==
  ASSUME Types, Turns, NEW t \in Threads, agenda[t] # <<>>, Continue(t, <<>>), t = bucket_mutex,
         Outside(agenda'[t]), bucket_mutex' = NoThread, rw_lock' = rw_lock
  PROVE  Turns'
<1>1. PICK a : a = Tail(agenda[t])
  OBVIOUS
<1>2. \A i \in DOMAIN a : a[i].op = "end_update" => i = Len(a) /\ rw_lock = t
  BY <1>1, TurnsTail
<1>3. agenda'[t] = a /\ \A u \in Threads : u # t => agenda'[u] = agenda[u]
  BY <1>1, ContinuedPlain
<1> QED
  BY <1>2, <1>3, TurnsStep

\* rw_lock_ is given back, by the thread that holds it.
LEMMA TurnsReturn ==
  ASSUME Types, Turns, NEW t \in Threads, agenda[t] # <<>>, Head(agenda[t]).op = "end_update", Continue(t, <<>>),
         bucket_mutex' = bucket_mutex, rw_lock' = NoThread
  PROVE  Turns' /\ rw_lock = t
<1>1. PICK a : a = Tail(agenda[t])
  OBVIOUS
<1>2. (Outside(agenda[t]) => Outside(a)) /\ DOMAIN a = {} /\ rw_lock = t
  BY <1>1, TurnsTail
<1>3. agenda'[t] = a /\ \A u \in Threads : u # t => agenda'[u] = agenda[u]
  BY <1>1, ContinuedPlain
<1>4. t # bucket_mutex' => Outside(a)
  BY <1>2 DEF Turns
<1> QED
  BY <1>2, <1>3, <1>4, TurnsStep

\* The mutex holder takes over the todo list.
LEMMA TurnsRun ==
  ASSUME Types, Turns, NEW t \in Threads, agenda[t] # <<>>, Continue(t, todo), t = bucket_mutex,
         bucket_mutex' = bucket_mutex, rw_lock' = rw_lock
  PROVE  Turns'
<1>0. todo \in Seq(Requests) /\ todo \in Seq(Tasks)
  BY RequestsAreTasks DEF Types
<1>1. PICK b \in Seq(Tasks) : b = Tail(agenda[t]) /\ \A i \in DOMAIN b : b[i].op = "end_update" => i = Len(b) /\ rw_lock = t
  BY TurnsTail
<1>2. PICK a : a = todo \o b
  OBVIOUS
<1>3. agenda'[t] = a /\ \A u \in Threads : u # t => agenda'[u] = agenda[u]
  BY <1>0, <1>1, <1>2, ContinuedWith
<1>4. ASSUME NEW i \in DOMAIN a, a[i].op = "end_update" PROVE i = Len(a) /\ rw_lock = t
  <2>1. /\ Len(todo) \in Nat /\ Len(b) \in Nat /\ DOMAIN a = 1 .. (Len(todo) + Len(b)) /\ Len(a) = Len(todo) + Len(b)
        /\ \A j \in 1 .. Len(todo) : a[j] = todo[j]
        /\ \A j \in 1 .. Len(b) : a[Len(todo) + j] = b[j]
    BY <1>0, <1>1, <1>2, JoinIs
  <2>2. ASSUME i <= Len(todo) PROVE FALSE
    <3>1. i \in DOMAIN todo /\ a[i] = todo[i]
      BY <1>0, <2>1, <2>2
    <3>2. PICK x \in Requests : x = a[i]
      BY <1>0, <3>1
    <3> QED
      BY <1>4, <3>2, RequestIs
  <2>3. PICK j \in 1 .. Len(b) : i = Len(todo) + j
    <3>1. i - Len(todo) \in 1 .. Len(b) /\ i = Len(todo) + (i - Len(todo))
      BY <2>1, <2>2
    <3> QED
      BY <3>1
  <2>4. j \in DOMAIN b /\ b[j].op = "end_update"
    BY <1>1, <1>4, <2>1, <2>3
  <2>5. j = Len(b) /\ rw_lock = t
    BY <1>1, <2>4
  <2> QED
    BY <2>1, <2>3, <2>5
<1> QED
  BY <1>3, <1>4, TurnsStep

\* A thread that begins a call.
LEMMA BeginIs ==
  ASSUME Types, NEW t \in Threads, NEW tasks, Begin(t, tasks)
  PROVE  agenda'[t] = tasks /\ \A u \in Threads : u # t => agenda'[u] = agenda[u]
BY DEF Types, Begin

\* The tasks of a call with a request.
LEMMA BeginTasks ==
  ASSUME NEW x \in Tasks, NEW rest \in Seq(Tasks), Outside(rest)
  PROVE  /\ <<Run, x, Unlock>> \o rest = <<Run, x>> \o (<<Unlock>> \o rest)
         /\ <<Unlock>> \o rest \in Seq(Tasks) /\ Closing(<<Unlock>> \o rest)
<1>0. Run \in Tasks /\ Unlock \in Tasks
  BY TaskOf
<1>1. PICK a \in Seq(Tasks) : a = <<Run, x>>
  <2>1. <<Run, x>> \in Seq(Tasks)
    BY <1>0
  <2> QED
    BY <2>1
<1>2. PICK b \in Seq(Tasks) : b = <<Unlock>>
  <2>1. <<Unlock>> \in Seq(Tasks)
    BY <1>0
  <2> QED
    BY <2>1
<1>3. <<Run, x, Unlock>> = a \o b
  BY <1>0, <1>1, <1>2
<1>4. (a \o b) \o rest = a \o (b \o rest)
  BY <1>1, <1>2, JoinJoin
<1>5. PICK c \in Seq(Tasks) : c = b \o rest
  BY <1>2, JoinIs
<1>6. /\ Len(c) = Len(rest) + 1 /\ c[1] = Unlock /\ Len(rest) \in Nat
      /\ \A i \in 1 .. Len(rest) : c[i + 1] = rest[i]
  BY <1>2, <1>5
<1>7. ASSUME NEW i \in 1 .. Len(c), 1 < i PROVE c[i].op \in {"put", "end_update"}
  <2>1. PICK j \in 1 .. Len(rest) : i = j + 1
    <3>1. i - 1 \in 1 .. Len(rest) /\ i = (i - 1) + 1
      BY <1>6, <1>7
    <3> QED
      BY <3>1
  <2>2. j \in DOMAIN rest /\ c[i] = rest[j]
    BY <1>6, <2>1
  <2> QED
    BY <2>2 DEF Outside
<1>8. 1 \in 1 .. Len(c) /\ c[1].op = "unlock" /\ \A i \in 1 .. Len(c) : ~(i < 1)
  BY <1>6, TaskOp
<1>9. Closing(c)
  BY <1>7, <1>8 DEF Closing
<1> QED
  BY <1>1, <1>2, <1>3, <1>4, <1>5, <1>9

\* rw_lock_ is kept as it is or taken.
Takes(t) == rw_lock' = rw_lock \/ (rw_lock = NoThread /\ rw_lock' = t)
\* The request of a thread that calls.
Calls(t, x) ==
  /\ x.op # "add_record"
  /\ x.op = "revalidate_bucket" => rw_lock' = t
  /\ x.op = "revalidate_server" => t \in Refreshers
\* It leaves rw_lock_ last.
Leaving(t, rest) == \A i \in DOMAIN rest : rest[i].op = "end_update" => i = Len(rest) /\ rw_lock' = t

\* A call takes the mutex or queues its request.
LEMMA OrderCall ==
  ASSUME Types, Turns, NEW q, Line(q), NEW t \in Threads, Idle(t), NEW x \in Requests, NEW rest \in Seq(Tasks),
         Outside(rest), LockOrQueue(t, x, rest), Takes(t), Calls(t, x), Leaving(t, rest)
  PROVE  Joins(q, x) /\ Turns'
<1>1. \A u \in Threads : u # t /\ rw_lock = u => rw_lock' = u
  BY ManagerAssumption DEF Takes
<1>2. x \in Tasks /\ x.op # "end_update"
  BY RequestIs
<1>3. CASE /\ bucket_mutex = NoThread /\ bucket_mutex' = t
           /\ Begin(t, <<Run, x, Unlock>> \o rest) /\ todo' = todo
  <2>1. PICK c \in Seq(Tasks) : c = <<Unlock>> \o rest /\ Closing(c) /\ <<Run, x, Unlock>> \o rest = <<Run, x>> \o c
    BY <1>2, BeginTasks
  <2>2. agenda'[t] = <<Run, x>> \o c /\ \A u \in Threads : u # t => agenda'[u] = agenda[u]
    BY <1>3, <2>1, BeginIs
  <2>3. Own(x)'
    BY <1>3, ManagerAssumption DEF Own, Calls
  <2>4. Joins(q, x)
    BY <1>3, <2>1, <2>2, <2>3, LineLock
  <2>5. PICK a : a = <<Run, x, Unlock>> \o rest
    OBVIOUS
  <2>6. Run \in Tasks /\ Unlock \in Tasks
    BY TaskOf
  <2>7. /\ Len(a) = Len(rest) + 3 /\ Len(rest) \in Nat /\ DOMAIN a = 1 .. Len(a)
        /\ a[1] = Run /\ a[2] = x /\ a[3] = Unlock
        /\ \A i \in 1 .. Len(rest) : a[i + 3] = rest[i]
    BY <1>2, <2>5, <2>6
  <2>8. ASSUME NEW i \in DOMAIN a, a[i].op = "end_update" PROVE i = Len(a) /\ rw_lock' = t
    <3>1. i # 1 /\ i # 2 /\ i # 3
      BY <1>2, <2>7, <2>8, TaskOp
    <3>2. PICK j \in 1 .. Len(rest) : i = j + 3
      <4>1. i - 3 \in 1 .. Len(rest) /\ i = (i - 3) + 3
        BY <2>7, <3>1
      <4> QED
        BY <4>1
    <3>3. j \in DOMAIN rest /\ a[i] = rest[j]
      BY <2>7, <3>2
    <3>4. j = Len(rest) /\ rw_lock' = t
      BY <2>8, <3>3 DEF Leaving
    <3> QED
      BY <2>7, <3>2, <3>4
  <2>9. agenda'[t] = a
    BY <1>3, <2>5, BeginIs
  <2>10. \A u \in Threads : u # t /\ u = bucket_mutex => u = bucket_mutex'
    BY <1>3, ManagerAssumption
  <2>11. Turns'
    BY <1>1, <1>3, <2>2, <2>8, <2>9, <2>10, TurnsStep
  <2> QED
    BY <2>4, <2>11
<1>4. CASE /\ bucket_mutex # NoThread /\ todo' = Append(todo, x) /\ Begin(t, rest)
           /\ bucket_mutex' = bucket_mutex
  <2>1. t # bucket_mutex /\ bucket_mutex \in Threads
    BY <1>4, HolderBusy
  <2>2. agenda'[t] = rest /\ \A u \in Threads : u # t => agenda'[u] = agenda[u]
    BY <1>4, BeginIs
  <2>3. agenda'[bucket_mutex] = agenda[bucket_mutex]
    BY <2>1, <2>2
  <2>4. \A r : Own(r) => Own(r)'
    BY <1>4 DEF Own, Takes
  <2>5. Joins(q, x)
    BY <1>4, <2>3, <2>4, LineQueue
  <2>6. Turns'
    BY <1>1, <1>4, <2>2, TurnsStep DEF Leaving
  <2> QED
    BY <2>5, <2>6
<1> QED
  BY <1>3, <1>4 DEF LockOrQueue

\* A call that takes the mutex without a request.
LEMMA OrderLookup ==
  ASSUME Types, Turns, NEW q, Line(q), NEW t \in Threads, bucket_mutex = NoThread, bucket_mutex' = t,
         todo' = todo, rw_lock' = rw_lock, NEW rest \in Seq(Tasks), Closing(rest), Begin(t, <<Run>> \o rest),
         \A i \in DOMAIN rest : rest[i].op # "end_update"
  PROVE  Line(q)' /\ Turns'
<1>1. agenda'[t] = <<Run>> \o rest /\ \A u \in Threads : u # t => agenda'[u] = agenda[u]
  BY BeginIs
<1>2. Line(q)'
  BY <1>1, LineLockPlain
<1>3. PICK a : a = <<Run>> \o rest
  OBVIOUS
<1>4. Run \in Tasks
  BY TaskOf
<1>5. /\ Len(a) = Len(rest) + 1 /\ Len(rest) \in Nat /\ DOMAIN a = 1 .. Len(a) /\ a[1] = Run
      /\ \A i \in 1 .. Len(rest) : a[i + 1] = rest[i]
  BY <1>3, <1>4
<1>6. ASSUME NEW i \in DOMAIN a PROVE a[i].op # "end_update"
  <2>1. CASE i = 1
    BY <1>5, <2>1, TaskOp
  <2>2. CASE i # 1
    <3>1. PICK j \in 1 .. Len(rest) : i = j + 1
      <4>1. i - 1 \in 1 .. Len(rest) /\ i = (i - 1) + 1
        BY <1>5, <2>2
      <4> QED
        BY <4>1
    <3>2. j \in DOMAIN rest /\ a[i] = rest[j]
      BY <1>5, <3>1
    <3> QED
      BY <3>2
  <2> QED
    BY <2>1, <2>2
<1>7. \A u \in Threads : u # t /\ u = bucket_mutex => u = bucket_mutex'
  BY ManagerAssumption
<1>8. Turns'
  BY <1>1, <1>3, <1>6, <1>7, TurnsStep
<1> QED
  BY <1>2, <1>8

\* What such calls do.
LEMMA LookupRests ==
  ASSUME NEW s \in Servers, NEW v \in Versions
  PROVE  /\ <<Lookup(s), Unlock, Put("config", v)>> \in Seq(Tasks)
         /\ <<Lookup(s), Put("config", v), Unlock>> \in Seq(Tasks)
         /\ <<Unlock>> \in Seq(Tasks)
         /\ Closing(<<Lookup(s), Unlock, Put("config", v)>>)
         /\ Closing(<<Lookup(s), Put("config", v), Unlock>>)
         /\ Closing(<<Unlock>>)
<1>1. "config" \in Kinds
  BY DEF Kinds
<1>2. PICK l \in Tasks : l = Lookup(s) /\ l.op = "lookup_entry"
  BY TaskOf, TaskOp
<1>3. PICK u \in Tasks : u = Unlock /\ u.op = "unlock"
  BY TaskOf, TaskOp
<1>4. PICK p \in Tasks : p = Put("config", v) /\ p.op = "put"
  BY <1>1, TaskOf, TaskOp
<1>5. <<l, u, p>> \in Seq(Tasks) /\ <<l, p, u>> \in Seq(Tasks) /\ <<u>> \in Seq(Tasks)
  BY <1>2, <1>3, <1>4
<1>6. Closing(<<l, u, p>>)
  BY <1>2, <1>3, <1>4 DEF Closing
<1>7. Closing(<<l, p, u>>)
  BY <1>2, <1>3, <1>4 DEF Closing
<1>8. Closing(<<u>>)
  BY <1>3 DEF Closing
<1> QED
  BY <1>2, <1>3, <1>4, <1>5, <1>6, <1>7, <1>8

(***************************************************************************)
(* What the line says about the table                                      *)
(***************************************************************************)

\* Place j of a line becomes place i when a request joins at place m.
Moved(j, i, m) == (j < m /\ i = j) \/ (m <= j /\ i = j + 1)

\* Where the requests of the old line stand in the new one.
LEMMA JoinedPlaces ==
  ASSUME NEW q \in Seq(Requests), NEW n \in Seq(Requests), NEW m, NEW x, Joined(q, n, m, x)
  PROVE  /\ m \in DOMAIN n /\ n[m] = x /\ m \in Nat
         /\ \A i \in DOMAIN n : i \in Nat /\ (i = m \/ \E j \in DOMAIN q : Moved(j, i, m) /\ n[i] = q[j])
         /\ \A j \in DOMAIN q : j \in Nat /\ \E i \in DOMAIN n : Moved(j, i, m) /\ n[i] = q[j] /\ i # m
         /\ \A j \in DOMAIN q : m <= j => Own(q[j])
<1>1. /\ DOMAIN q = 1 .. Len(q) /\ DOMAIN n = 1 .. Len(n) /\ Len(q) \in Nat
      /\ Len(n) = Len(q) + 1 /\ m \in 1 .. Len(n) /\ n[m] = x
      /\ \A i \in 1 .. Len(q) : /\ i < m => n[i] = q[i]
                                /\ m <= i => n[i + 1] = q[i] /\ Own(q[i])
  BY DEF Joined
<1>2. ASSUME NEW i \in DOMAIN n, i # m PROVE \E j \in DOMAIN q : Moved(j, i, m) /\ n[i] = q[j]
  <2>1. CASE i < m
    <3>1. i \in DOMAIN q /\ Moved(i, i, m) /\ n[i] = q[i]
      BY <1>1, <2>1 DEF Moved
    <3> QED
      BY <3>1
  <2>2. CASE m < i
    <3>1. PICK j \in 1 .. Len(q) : i = j + 1 /\ m <= j
      <4>1. i - 1 \in 1 .. Len(q) /\ i = (i - 1) + 1 /\ m <= i - 1
        BY <1>1, <2>2
      <4> QED
        BY <4>1
    <3>2. j \in DOMAIN q /\ Moved(j, i, m) /\ n[i] = q[j]
      BY <1>1, <3>1 DEF Moved
    <3> QED
      BY <3>2
  <2> QED
    BY <1>1, <1>2, <2>1, <2>2
<1>3. ASSUME NEW j \in DOMAIN q PROVE \E i \in DOMAIN n : Moved(j, i, m) /\ n[i] = q[j] /\ i # m
  <2>1. CASE j < m
    <3>1. j \in DOMAIN n /\ Moved(j, j, m) /\ n[j] = q[j] /\ j # m
      BY <1>1, <2>1 DEF Moved
    <3> QED
      BY <3>1
  <2>2. CASE m <= j
    <3>1. j + 1 \in DOMAIN n /\ Moved(j, j + 1, m) /\ n[j + 1] = q[j] /\ j + 1 # m
      BY <1>1, <2>2 DEF Moved
    <3> QED
      BY <3>1
  <2> QED
    BY <1>1, <2>1, <2>2
<1> QED
  BY <1>1, <1>2, <1>3

\* The order is kept.
LEMMA MovedOrder ==
  ASSUME NEW j \in Nat, NEW k \in Nat, NEW i \in Nat, NEW l \in Nat, NEW m \in Nat, Moved(j, i, m), Moved(k, l, m)
  PROVE  (j < k <=> i < l) /\ (j = k <=> i = l)
BY DEF Moved

\* An entry keeps its state, its setting.
SameState(e)   == heap'.entry[e].state = heap.entry[e].state
SameSetting(e) == heap'.entry[e].setting = heap.entry[e].setting
\* The entries that the line is about do.
StatesStay(q) ==
  /\ \A s \in Servers : table[s] # NoEntry => SameState(table[s])
  /\ \A i \in DOMAIN q : q[i].op = "add_record" => SameState(q[i].entry)
SettingsStay(q) ==
  /\ \A s \in Servers : table[s] # NoEntry => SameSetting(table[s])
  /\ \A i \in DOMAIN q : q[i].op = "add_record" => SameSetting(q[i].entry)

\* An entry that stays in memory keeps both.
Steady == \A e \in EntryIds : heap'.entry[e].live => SameState(e) /\ SameSetting(e)

\* So do the entries of the line and of the table, which are in memory.
LEMMA SteadyStays ==
  ASSUME Types, Alive', NEW q \in Seq(Requests), NEW n, Line(n)',
         \A i \in DOMAIN q : \E j \in DOMAIN n : n[j] = q[i], table' = table, Steady
  PROVE  StatesStay(q) /\ SettingsStay(q)
<1>1. ASSUME NEW s \in Servers, table[s] # NoEntry PROVE SameState(table[s]) /\ SameSetting(table[s])
  <2>1. table[s] \in EntryIds
    BY <1>1 DEF Types
  <2>2. heap'.entry[table[s]].live
    BY <1>1 DEF Alive
  <2> QED
    BY <2>1, <2>2 DEF Steady
<1>2. ASSUME NEW i \in DOMAIN q, q[i].op = "add_record" PROVE SameState(q[i].entry) /\ SameSetting(q[i].entry)
  <2>1. PICK x \in Requests : x = q[i]
    BY LinePlaces
  <2>2. x.entry \in EntryIds
    BY <1>2, <2>1, RequestIs
  <2>3. PICK j \in DOMAIN n : n[j] = q[i]
    OBVIOUS
  <2>4. heap'.entry[n[j].entry].live
    BY <1>2, <2>3 DEF Alive
  <2> QED
    BY <2>1, <2>2, <2>3, <2>4 DEF Steady
<1> QED
  BY <1>1, <1>2 DEF StatesStay, SettingsStay

\* A step that has nothing to do with the line.
LEMMA GoodStays ==
  ASSUME NEW q, Good(q), StatesStay(q), SettingsStay(q), table' = table, global' = global, issued' = issued,
         is_base_servers_added' = is_base_servers_added
  PROVE  Good(q)'
<1>1. Single(q)'
  BY DEF Good, Single, StatesStay, SameState
<1>2. Distinct'
  BY DEF Good, Distinct
<1>3. FirstRound(q)'
  BY DEF Good, FirstRound
<1>4. Known(q)'
  BY DEF Good, Known, IsRecord
<1>5. AddedFirst(q)'
  BY DEF Good, AddedFirst, IsRecord
<1>6. Renewed(q)'
  BY DEF Good, Renewed, Stale, Sets, SettingsStay, SameSetting
<1> QED
  BY <1>1, <1>2, <1>3, <1>4, <1>5, <1>6 DEF Good

\* and so do the latest states.
LEMMA LatestStays ==
  ASSUME NEW q, Latest(q), StatesStay(q), table' = table, issued' = issued
  PROVE  Latest(q)'
BY DEF Latest, Reports, Last, IsState, IsRecord, StatesStay, SameState

\* A request joins the line: the parts of Good.
LEMMA SingleJoin ==
  ASSUME NEW q \in Seq(Requests), NEW n \in Seq(Requests), NEW m, NEW x, Joined(q, n, m, x),
         Single(q), table' = table, StatesStay(q),
         x.op = "add_record" =>
           /\ table[x.server] = NoEntry /\ \A r \in Servers : table[r] # x.entry
           /\ heap'.entry[x.entry].state = "ACTIVE"
           /\ \A j \in DOMAIN q : q[j].op = "add_record" => q[j].server # x.server /\ q[j].entry # x.entry
  PROVE  Single(n)'
<1>1. /\ m \in Nat /\ n[m] = x
      /\ \A i \in DOMAIN n : i \in Nat /\ (i = m \/ \E j \in DOMAIN q : Moved(j, i, m) /\ n[i] = q[j])
      /\ \A j \in DOMAIN q : j \in Nat
  BY JoinedPlaces
<1>2. ASSUME NEW i \in DOMAIN n, n[i].op = "add_record"
      PROVE  /\ table[n[i].server] = NoEntry
             /\ \A r \in Servers : table[r] # n[i].entry
             /\ heap'.entry[n[i].entry].state = "ACTIVE"
  <2>1. CASE i = m
    BY <1>1, <1>2, <2>1
  <2>2. ASSUME NEW j \in DOMAIN q, n[i] = q[j]
        PROVE  /\ table[n[i].server] = NoEntry
               /\ \A r \in Servers : table[r] # n[i].entry
               /\ heap'.entry[n[i].entry].state = "ACTIVE"
    BY <1>2, <2>2 DEF Single, StatesStay, SameState
  <2> QED
    BY <1>1, <2>1, <2>2
<1>3. ASSUME NEW i \in DOMAIN n, NEW k \in DOMAIN n, n[i].op = "add_record", n[k].op = "add_record",
             n[k].server = n[i].server \/ n[k].entry = n[i].entry
      PROVE  k = i
  <2>1. CASE i = m /\ k = m
    BY <2>1
  <2>2. CASE i = m /\ k # m
    BY <1>1, <1>3, <2>2
  <2>3. CASE i # m /\ k = m
    BY <1>1, <1>3, <2>3
  <2>4. CASE i # m /\ k # m
    <3>1. PICK j \in DOMAIN q : Moved(j, i, m) /\ n[i] = q[j]
      BY <1>1, <2>4
    <3>2. PICK l \in DOMAIN q : Moved(l, k, m) /\ n[k] = q[l]
      BY <1>1, <2>4
    <3>3. l = j
      BY <1>3, <3>1, <3>2 DEF Single
    <3>4. i \in Nat /\ j \in Nat /\ k \in Nat /\ l \in Nat
      BY <1>1
    <3> QED
      BY <1>1, <3>1, <3>2, <3>3, <3>4, MovedOrder
  <2> QED
    BY <2>1, <2>2, <2>3, <2>4
<1> QED
  BY <1>2, <1>3 DEF Single

\* No change of a state or a zone joins in the first round.
LEMMA FirstRoundJoin ==
  ASSUME NEW q \in Seq(Requests), NEW n \in Seq(Requests), NEW m, NEW x, Joined(q, n, m, x),
         FirstRound(q), is_base_servers_added' = is_base_servers_added,
         \A s \in Servers : issued[s] # "DELETED" => issued'[s] # "DELETED",
         ~is_base_servers_added => x.op # "revalidate_server" /\ (x.op = "revalidate_bucket" => x.kind # "zone")
  PROVE  FirstRound(n)'
<1>1. n[m] = x /\ \A i \in DOMAIN n : i = m \/ \E j \in DOMAIN q : n[i] = q[j]
  BY JoinedPlaces
<1> QED
  BY <1>1 DEF FirstRound

\* The record of a server joins when the server is first reported.
LEMMA KnownJoin ==
  ASSUME NEW q \in Seq(Requests), NEW n \in Seq(Requests), NEW m, NEW x, Joined(q, n, m, x),
         Known(q), table' = table,
         \A s \in Servers : issued'[s] = "DELETED" => issued[s] = "DELETED" /\ ~IsRecord(x, s),
         \A s \in Servers : issued'[s] # "DELETED" => issued[s] # "DELETED" \/ IsRecord(x, s)
  PROVE  Known(n)'
<1>1. /\ m \in DOMAIN n /\ n[m] = x
      /\ \A i \in DOMAIN n : i = m \/ \E j \in DOMAIN q : n[i] = q[j]
      /\ \A j \in DOMAIN q : \E i \in DOMAIN n : n[i] = q[j]
  BY JoinedPlaces
<1>2. ASSUME NEW s \in Servers, issued'[s] = "DELETED"
      PROVE  table[s] = NoEntry /\ \A i \in DOMAIN n : ~IsRecord(n[i], s)
  BY <1>1, <1>2 DEF Known
<1>3. ASSUME NEW s \in Servers, issued'[s] # "DELETED"
      PROVE  table[s] # NoEntry \/ \E i \in DOMAIN n : IsRecord(n[i], s)
  BY <1>1, <1>3 DEF Known
<1> QED
  BY <1>2, <1>3 DEF Known, IsRecord

\* A state joins after the record of its server, at the end of the line.
LEMMA AddedFirstJoin ==
  ASSUME NEW q \in Seq(Requests), NEW n \in Seq(Requests), NEW m, NEW x, Joined(q, n, m, x),
         AddedFirst(q), table' = table,
         x.op = "revalidate_server" => table[x.server] # NoEntry \/ \E j \in DOMAIN q : IsRecord(q[j], x.server)
  PROVE  AddedFirst(n)'
<1>1. /\ m \in Nat /\ n[m] = x
      /\ \A i \in DOMAIN n : i \in Nat /\ (i = m \/ \E j \in DOMAIN q : Moved(j, i, m) /\ n[i] = q[j])
      /\ \A j \in DOMAIN q : j \in Nat /\ \E i \in DOMAIN n : Moved(j, i, m) /\ n[i] = q[j] /\ i # m
      /\ \A j \in DOMAIN q : m <= j => Own(q[j])
  BY JoinedPlaces
<1>2. ASSUME NEW i \in DOMAIN n, n[i].op = "revalidate_server", table[n[i].server] = NoEntry
      PROVE  \E k \in DOMAIN n : k < i /\ IsRecord(n[k], n[i].server)
  <2>1. CASE i = m
    <3>1. PICK j \in DOMAIN q : IsRecord(q[j], n[i].server)
      BY <1>1, <1>2, <2>1
    <3>2. j < m
      BY <1>1, <3>1 DEF Own, IsRecord
    <3>3. PICK k \in DOMAIN n : Moved(j, k, m) /\ n[k] = q[j]
      BY <1>1
    <3>4. k < i
      BY <1>1, <2>1, <3>2, <3>3 DEF Moved
    <3> QED
      BY <3>1, <3>3, <3>4
  <2>2. ASSUME NEW j \in DOMAIN q, Moved(j, i, m), n[i] = q[j]
        PROVE  \E k \in DOMAIN n : k < i /\ IsRecord(n[k], n[i].server)
    <3>1. PICK l \in DOMAIN q : l < j /\ IsRecord(q[l], n[i].server)
      BY <1>2, <2>2 DEF AddedFirst
    <3>2. PICK k \in DOMAIN n : Moved(l, k, m) /\ n[k] = q[l]
      BY <1>1
    <3>3. i \in Nat /\ j \in Nat /\ k \in Nat /\ l \in Nat
      BY <1>1
    <3>4. k < i
      BY <1>1, <2>2, <3>1, <3>2, <3>3, MovedOrder
    <3> QED
      BY <3>1, <3>2, <3>4
  <2> QED
    BY <1>1, <2>1, <2>2
<1> QED
  BY <1>2 DEF AddedFirst, IsRecord

\* One kind of setting.
RenewedFor(q, k) ==
  /\ \A i \in DOMAIN q : Stale(q[i], k) => \E j \in DOMAIN q : i < j /\ Sets(q[j], k, global[k])
  /\ \A s \in Servers : table[s] # NoEntry /\ heap.entry[table[s]].setting[k] # global[k] =>
       \E j \in DOMAIN q : Sets(q[j], k, global[k])

\* A setting that the request has nothing to do with,
LEMMA RenewedOther ==
  ASSUME NEW q \in Seq(Requests), NEW n \in Seq(Requests), NEW m, NEW x, Joined(q, n, m, x), NEW k \in Kinds,
         RenewedFor(q, k), table' = table, SettingsStay(q), global'[k] = global[k], ~Stale(x, k)'
  PROVE  RenewedFor(n, k)'
<1>1. /\ m \in Nat /\ n[m] = x
      /\ \A i \in DOMAIN n : i \in Nat /\ (i = m \/ \E j \in DOMAIN q : Moved(j, i, m) /\ n[i] = q[j])
      /\ \A j \in DOMAIN q : j \in Nat /\ \E i \in DOMAIN n : Moved(j, i, m) /\ n[i] = q[j] /\ i # m
  BY JoinedPlaces
<1>2. ASSUME NEW i \in DOMAIN n, Stale(n[i], k)'
      PROVE  \E l \in DOMAIN n : i < l /\ Sets(n[l], k, global'[k])
  <2>1. PICK j \in DOMAIN q : Moved(j, i, m) /\ n[i] = q[j]
    BY <1>1, <1>2
  <2>2. Stale(q[j], k)
    BY <1>2, <2>1 DEF Stale, SettingsStay, SameSetting
  <2>3. PICK p \in DOMAIN q : j < p /\ Sets(q[p], k, global[k])
    BY <2>2 DEF RenewedFor
  <2>4. PICK l \in DOMAIN n : Moved(p, l, m) /\ n[l] = q[p]
    BY <1>1
  <2>5. i \in Nat /\ j \in Nat /\ p \in Nat /\ l \in Nat /\ m \in Nat
    BY <1>1
  <2>6. i < l
    BY <2>1, <2>3, <2>4, <2>5, MovedOrder
  <2>7. Sets(n[l], k, global'[k])
    BY <2>3, <2>4 DEF Sets
  <2> QED
    BY <2>6, <2>7
<1>3. ASSUME NEW s \in Servers, table[s] # NoEntry, heap'.entry[table[s]].setting[k] # global'[k]
      PROVE  \E l \in DOMAIN n : Sets(n[l], k, global'[k])
  <2>1. heap.entry[table[s]].setting[k] # global[k]
    BY <1>3 DEF SettingsStay, SameSetting
  <2>2. PICK j \in DOMAIN q : Sets(q[j], k, global[k])
    BY <1>3, <2>1 DEF RenewedFor
  <2> QED
    BY <1>1, <2>2
<1> QED
  BY <1>2, <1>3 DEF RenewedFor, Sets

\* and the one it replaces.
LEMMA RenewedBy ==
  ASSUME NEW q \in Seq(Requests), NEW n \in Seq(Requests), NEW m, NEW x, Joined(q, n, m, x), NEW k \in Kinds,
         Sets(x, k, global'[k]), \A j \in DOMAIN q : m <= j => q[j].op = "revalidate_server"
  PROVE  RenewedFor(n, k)'
<1>1. /\ m \in Nat /\ m \in DOMAIN n /\ n[m] = x
      /\ \A i \in DOMAIN n : i \in Nat /\ (i = m \/ \E j \in DOMAIN q : Moved(j, i, m) /\ n[i] = q[j])
      /\ \A j \in DOMAIN q : j \in Nat
  BY JoinedPlaces
<1>2. ASSUME NEW i \in DOMAIN n, Stale(n[i], k)' PROVE i < m
  <2>1. i # m
    BY <1>1, <1>2 DEF Stale, Sets
  <2>2. PICK j \in DOMAIN q : Moved(j, i, m) /\ n[i] = q[j]
    BY <1>1, <2>1
  <2>3. ~(m <= j)
    BY <1>2, <2>2 DEF Stale
  <2> QED
    BY <1>1, <2>2, <2>3 DEF Moved
<1> QED
  BY <1>1, <1>2 DEF RenewedFor, Sets

\* Renewed, kind by kind.
LEMMA RenewedIs == \A q : Renewed(q) <=> \A k \in Kinds : RenewedFor(q, k)
BY DEF Renewed, RenewedFor

\* The latest state of a server.
LatestFor(q, s) ==
  issued[s] # "DELETED" =>
    \/ \E i \in DOMAIN q : Reports(q[i], s, issued[s]) /\ Last(q, s, i)
    \/ Last(q, s, 0) /\ table[s] # NoEntry /\ heap.entry[table[s]].state = issued[s]

\* A request about others,
LEMMA LatestOther ==
  ASSUME NEW q \in Seq(Requests), NEW n \in Seq(Requests), NEW m, NEW x, Joined(q, n, m, x), NEW s \in Servers,
         LatestFor(q, s), table' = table, StatesStay(q), issued'[s] = issued[s],
         ~IsState(x, s), ~IsRecord(x, s)
  PROVE  LatestFor(n, s)'
<1>1. /\ m \in Nat /\ n[m] = x
      /\ \A i \in DOMAIN n : i \in Nat /\ (i = m \/ \E j \in DOMAIN q : Moved(j, i, m) /\ n[i] = q[j])
      /\ \A j \in DOMAIN q : j \in Nat /\ \E i \in DOMAIN n : Moved(j, i, m) /\ n[i] = q[j] /\ i # m
  BY JoinedPlaces
<1>2. ASSUME NEW j \in DOMAIN q, Last(q, s, j), NEW i \in DOMAIN n, Moved(j, i, m) PROVE Last(n, s, i)
  <2> SUFFICES ASSUME NEW l \in DOMAIN n, i < l PROVE ~IsState(n[l], s) /\ ~IsRecord(n[l], s)
    BY DEF Last
  <2>1. CASE l = m
    BY <1>1, <2>1
  <2>2. ASSUME NEW p \in DOMAIN q, Moved(p, l, m), n[l] = q[p] PROVE ~IsState(n[l], s) /\ ~IsRecord(n[l], s)
    <3>1. i \in Nat /\ j \in Nat /\ p \in Nat /\ l \in Nat
      BY <1>1
    <3>2. m \in Nat /\ i < l
      BY <1>1
    <3>3. j < p
      BY <1>2, <2>2, <3>1, <3>2, MovedOrder
    <3> QED
      BY <1>2, <2>2, <3>3 DEF Last
  <2> QED
    BY <1>1, <2>1, <2>2
<1>3. ASSUME Last(q, s, 0) PROVE Last(n, s, 0)
  <2> SUFFICES ASSUME NEW l \in DOMAIN n PROVE ~IsState(n[l], s) /\ ~IsRecord(n[l], s)
    BY DEF Last
  <2>1. ASSUME NEW p \in DOMAIN q, Moved(p, l, m), n[l] = q[p] PROVE ~IsState(n[l], s) /\ ~IsRecord(n[l], s)
    <3>1. 0 < p
      BY LinePlaces
    <3> QED
      BY <1>3, <2>1, <3>1 DEF Last
  <2> QED
    BY <1>1, <2>1
<1>4. ASSUME issued[s] # "DELETED"
      PROVE  \/ \E i \in DOMAIN n : Reports(n[i], s, issued[s]) /\ Last(n, s, i)
             \/ Last(n, s, 0) /\ table[s] # NoEntry /\ heap'.entry[table[s]].state = issued[s]
  <2>1. CASE \E j \in DOMAIN q : Reports(q[j], s, issued[s]) /\ Last(q, s, j)
    <3>1. PICK j \in DOMAIN q : Reports(q[j], s, issued[s]) /\ Last(q, s, j)
      BY <2>1
    <3>2. PICK i \in DOMAIN n : Moved(j, i, m) /\ n[i] = q[j]
      BY <1>1
    <3> QED
      BY <1>2, <3>1, <3>2
  <2>2. CASE Last(q, s, 0) /\ table[s] # NoEntry /\ heap.entry[table[s]].state = issued[s]
    BY <1>3, <2>2 DEF StatesStay, SameState
  <2> QED
    BY <1>4, <2>1, <2>2 DEF LatestFor
<1> QED
  BY <1>4 DEF LatestFor, Reports, Last, IsState, IsRecord

\* and one about the server itself.
LEMMA LatestBy ==
  ASSUME NEW q \in Seq(Requests), NEW n \in Seq(Requests), NEW m, NEW x, Joined(q, n, m, x), NEW s \in Servers,
         Reports(x, s, issued'[s]), \A j \in DOMAIN q : m <= j => q[j].op = "revalidate_bucket"
  PROVE  LatestFor(n, s)'
<1>1. /\ m \in Nat /\ m \in DOMAIN n /\ n[m] = x
      /\ \A i \in DOMAIN n : i \in Nat /\ (i = m \/ \E j \in DOMAIN q : Moved(j, i, m) /\ n[i] = q[j])
      /\ \A j \in DOMAIN q : j \in Nat
  BY JoinedPlaces
<1>2. ASSUME NEW l \in DOMAIN n, m < l PROVE ~IsState(n[l], s) /\ ~IsRecord(n[l], s)
  <2>1. PICK j \in DOMAIN q : Moved(j, l, m) /\ n[l] = q[j]
    BY <1>1, <1>2
  <2>2. m <= j
    BY <1>1, <1>2, <2>1 DEF Moved
  <2> QED
    BY <2>1, <2>2 DEF IsState, IsRecord
<1>3. Last(n, s, m)
  BY <1>2 DEF Last
<1> QED
  BY <1>1, <1>3 DEF LatestFor, Reports, Last, IsState, IsRecord

\* Latest, server by server.
LEMMA LatestIs == \A q : Latest(q) <=> \A s \in Servers : LatestFor(q, s)
BY DEF Latest, LatestFor

\* The first request of the line has been run.
Shifted(q, n) ==
  /\ 1 \in DOMAIN q
  /\ \A i \in DOMAIN n : i \in Nat /\ 0 < i /\ i + 1 \in DOMAIN q /\ n[i] = q[i + 1]
  /\ \A j \in DOMAIN q : j \in Nat /\ (j = 1 \/ \E i \in DOMAIN n : j = i + 1 /\ n[i] = q[j])

\* The rest of the line has the requests after the first.
LEMMA TailShifted ==
  ASSUME NEW q \in Seq(Requests), q # <<>>, NEW n, n = Tail(q)
  PROVE  n \in Seq(Requests) /\ Shifted(q, n) /\ Head(q) = q[1] /\ q[1] \in Requests
<1>1. n \in Seq(Requests)
  BY HeadTailProperties
<1>2. /\ Len(q) \in Nat /\ Len(q) >= 1 /\ Len(n) = Len(q) - 1 /\ Head(q) = q[1]
      /\ DOMAIN q = 1 .. Len(q) /\ DOMAIN n = 1 .. Len(n)
      /\ \A i \in 1 .. Len(n) : n[i] = q[i + 1]
  BY <1>1
<1>3. 1 \in DOMAIN q /\ q[1] \in Requests
  BY <1>2
<1>4. \A i \in DOMAIN n : i \in Nat /\ 0 < i /\ i + 1 \in DOMAIN q /\ n[i] = q[i + 1]
  BY <1>2
<1>5. ASSUME NEW j \in DOMAIN q, j # 1 PROVE \E i \in DOMAIN n : j = i + 1 /\ n[i] = q[j]
  <2>1. j - 1 \in 1 .. Len(n) /\ j = (j - 1) + 1
    BY <1>2, <1>5
  <2>2. n[j - 1] = q[j]
    BY <1>2, <2>1
  <2> QED
    BY <1>2, <2>1, <2>2
<1>6. \A j \in DOMAIN q : j \in Nat
  BY <1>2
<1> QED
  BY <1>1, <1>2, <1>3, <1>4, <1>5, <1>6 DEF Shifted

\* The order is kept.
LEMMA ShiftedOrder ==
  ASSUME NEW i \in Nat, NEW j \in Nat
  PROVE  /\ i + 1 < j + 1 <=> i < j
         /\ i + 1 = j + 1 <=> i = j
         /\ i + 1 # 1 <=> 0 < i
OBVIOUS

\* The parts of Good.
LEMMA SingleShift ==
  ASSUME NEW q, NEW n, Shifted(q, n), Single(q),
         \A j \in DOMAIN q : j # 1 /\ q[j].op = "add_record" =>
           /\ table'[q[j].server] = NoEntry
           /\ \A r \in Servers : table'[r] # q[j].entry
           /\ heap'.entry[q[j].entry].state = "ACTIVE"
  PROVE  Single(n)'
<1>1. ASSUME NEW i \in DOMAIN n PROVE i \in Nat /\ i + 1 \in DOMAIN q /\ n[i] = q[i + 1] /\ i + 1 # 1
  BY ShiftedOrder DEF Shifted
<1>2. ASSUME NEW i \in DOMAIN n, n[i].op = "add_record"
      PROVE  /\ table'[n[i].server] = NoEntry
             /\ \A r \in Servers : table'[r] # n[i].entry
             /\ heap'.entry[n[i].entry].state = "ACTIVE"
  <2>1. i + 1 \in DOMAIN q /\ n[i] = q[i + 1] /\ i + 1 # 1
    BY <1>1
  <2> QED
    BY <1>2, <2>1
<1>3. ASSUME NEW i \in DOMAIN n, NEW k \in DOMAIN n, n[i].op = "add_record", n[k].op = "add_record",
             n[k].server = n[i].server \/ n[k].entry = n[i].entry
      PROVE  k = i
  <2>1. /\ i \in Nat /\ i + 1 \in DOMAIN q /\ n[i] = q[i + 1]
        /\ k \in Nat /\ k + 1 \in DOMAIN q /\ n[k] = q[k + 1]
    BY <1>1
  <2>2. k + 1 = i + 1
    BY <1>3, <2>1 DEF Single
  <2> QED
    BY <2>1, <2>2, ShiftedOrder
<1> QED
  BY <1>2, <1>3 DEF Single

\* The rest of the line changes no state or zone in the first round either.
LEMMA FirstRoundShift ==
  ASSUME NEW q, NEW n, Shifted(q, n), FirstRound(q), is_base_servers_added' = is_base_servers_added,
         issued' = issued
  PROVE  FirstRound(n)'
BY DEF FirstRound, Shifted

\* A server whose record was run is in the table.
LEMMA KnownShift ==
  ASSUME NEW q, NEW n, Shifted(q, n), Known(q), issued' = issued,
         \A s \in Servers : IF IsRecord(q[1], s) THEN table'[s] # NoEntry ELSE table'[s] = table[s]
  PROVE  Known(n)'
<1>1. ASSUME NEW s \in Servers, issued[s] = "DELETED"
      PROVE  table'[s] = NoEntry /\ \A i \in DOMAIN n : ~IsRecord(n[i], s)
  <2>1. table[s] = NoEntry /\ \A j \in DOMAIN q : ~IsRecord(q[j], s)
    BY <1>1 DEF Known
  <2> QED
    BY <2>1 DEF Shifted
<1>2. ASSUME NEW s \in Servers, issued[s] # "DELETED"
      PROVE  table'[s] # NoEntry \/ \E i \in DOMAIN n : IsRecord(n[i], s)
  <2>1. CASE IsRecord(q[1], s)
    BY <2>1
  <2>2. CASE ~IsRecord(q[1], s)
    <3>1. table[s] # NoEntry \/ \E j \in DOMAIN q : IsRecord(q[j], s)
      BY <1>2 DEF Known
    <3>2. ASSUME NEW j \in DOMAIN q, IsRecord(q[j], s) PROVE \E i \in DOMAIN n : IsRecord(n[i], s)
      <4>1. PICK i \in DOMAIN n : n[i] = q[j]
        BY <2>2, <3>2 DEF Shifted
      <4> QED
        BY <3>2, <4>1
    <3> QED
      BY <2>2, <3>1, <3>2
  <2> QED
    BY <2>1, <2>2
<1> QED
  BY <1>1, <1>2 DEF Known, IsRecord

\* A record that was run needs to stand before no state any more.
LEMMA AddedFirstShift ==
  ASSUME NEW q \in Seq(Requests), NEW n, Shifted(q, n), AddedFirst(q),
         \A s \in Servers : IF IsRecord(q[1], s) THEN table'[s] # NoEntry ELSE table'[s] = table[s]
  PROVE  AddedFirst(n)'
<1>1. ASSUME NEW i \in DOMAIN n, n[i].op = "revalidate_server", table'[n[i].server] = NoEntry
      PROVE  \E k \in DOMAIN n : k < i /\ IsRecord(n[k], n[i].server)
  <2>1. PICK l \in DOMAIN q : l = i + 1 /\ n[i] = q[l] /\ i \in Nat /\ 0 < i
    BY DEF Shifted
  <2>2. PICK x \in Requests : x = q[l]
    BY LinePlaces
  <2>3. PICK s \in Servers : s = x.server
    BY <1>1, <2>1, <2>2, RequestIs
  <2>4. ~IsRecord(q[1], s) /\ table[s] = NoEntry
    BY <1>1, <2>1, <2>2, <2>3
  <2>5. PICK j \in DOMAIN q : j < l /\ IsRecord(q[j], s)
    BY <1>1, <2>1, <2>2, <2>3, <2>4 DEF AddedFirst
  <2>6. PICK k \in DOMAIN n : j = k + 1 /\ n[k] = q[j] /\ k \in Nat
    BY <2>4, <2>5 DEF Shifted
  <2>7. k < i
    BY <2>1, <2>5, <2>6
  <2> QED
    BY <2>1, <2>2, <2>3, <2>5, <2>6, <2>7
<1> QED
  BY <1>1 DEF AddedFirst, IsRecord

\* What is stale after the first request is renewed by a later one.
LEMMA RenewedShift ==
  ASSUME NEW q, NEW n, Shifted(q, n), NEW k \in Kinds, RenewedFor(q, k), global' = global,
         \A j \in DOMAIN q : j # 1 /\ q[j].op = "add_record" =>
           heap'.entry[q[j].entry].setting[k] = heap.entry[q[j].entry].setting[k],
         \A s \in Servers : table'[s] # NoEntry /\ heap'.entry[table'[s]].setting[k] # global[k] =>
           \E j \in DOMAIN q : j # 1 /\ Sets(q[j], k, global[k])
  PROVE  RenewedFor(n, k)'
<1>1. ASSUME NEW i \in DOMAIN n, Stale(n[i], k)' PROVE \E p \in DOMAIN n : i < p /\ Sets(n[p], k, global[k])
  <2>1. PICK l \in DOMAIN q : l = i + 1 /\ n[i] = q[l] /\ i \in Nat /\ l # 1
    BY ShiftedOrder DEF Shifted
  <2>2. Stale(q[l], k)
    BY <1>1, <2>1 DEF Stale
  <2>3. PICK j \in DOMAIN q : l < j /\ Sets(q[j], k, global[k])
    BY <2>2 DEF RenewedFor
  <2>4. j \in Nat /\ j # 1
    <3>1. j \in Nat
      BY DEF Shifted
    <3> QED
      BY <2>1, <2>3, <3>1
  <2>5. PICK p \in DOMAIN n : j = p + 1 /\ n[p] = q[j] /\ p \in Nat
    BY <2>4 DEF Shifted
  <2>6. i < p
    BY <2>1, <2>3, <2>5
  <2> QED
    BY <2>3, <2>5, <2>6
<1>2. ASSUME NEW s \in Servers, table'[s] # NoEntry, heap'.entry[table'[s]].setting[k] # global[k]
      PROVE  \E p \in DOMAIN n : Sets(n[p], k, global[k])
  <2>1. PICK j \in DOMAIN q : j # 1 /\ Sets(q[j], k, global[k])
    BY <1>2
  <2>2. PICK p \in DOMAIN n : n[p] = q[j]
    BY <2>1 DEF Shifted
  <2> QED
    BY <2>1, <2>2
<1> QED
  BY <1>1, <1>2 DEF RenewedFor, Sets

\* The table has the latest state when the last request about it was run.
LEMMA LatestShift ==
  ASSUME NEW q, NEW n, Shifted(q, n), NEW s \in Servers, LatestFor(q, s), issued' = issued,
         ~IsState(q[1], s) /\ ~IsRecord(q[1], s) /\ table[s] # NoEntry =>
           table'[s] = table[s] /\ heap'.entry[table[s]].state = heap.entry[table[s]].state,
         \A st : Reports(q[1], s, st) => table'[s] # NoEntry /\ heap'.entry[table'[s]].state = st
  PROVE  LatestFor(n, s)'
<1>1. ASSUME NEW j \in Nat, NEW i \in Nat, j = i + 1 \/ (i = 0 /\ j = 0), Last(q, s, j) PROVE Last(n, s, i)
  <2> SUFFICES ASSUME NEW l \in DOMAIN n, i < l PROVE ~IsState(n[l], s) /\ ~IsRecord(n[l], s)
    BY DEF Last
  <2>1. l \in Nat /\ l + 1 \in DOMAIN q /\ n[l] = q[l + 1]
    BY DEF Shifted
  <2>2. j < l + 1
    BY <1>1, <2>1
  <2> QED
    BY <1>1, <2>1, <2>2 DEF Last
<1>2. ASSUME issued[s] # "DELETED"
      PROVE  \/ \E i \in DOMAIN n : Reports(n[i], s, issued[s]) /\ Last(n, s, i)
             \/ Last(n, s, 0) /\ table'[s] # NoEntry /\ heap'.entry[table'[s]].state = issued[s]
  <2>1. ASSUME NEW j \in DOMAIN q, Reports(q[j], s, issued[s]), Last(q, s, j)
        PROVE  \/ \E i \in DOMAIN n : Reports(n[i], s, issued[s]) /\ Last(n, s, i)
               \/ Last(n, s, 0) /\ table'[s] # NoEntry /\ heap'.entry[table'[s]].state = issued[s]
    <3>1. CASE j = 1
      <4>1. Last(n, s, 0)
        BY <1>1, <2>1, <3>1
      <4> QED
        BY <2>1, <3>1, <4>1
    <3>2. CASE j # 1
      <4>1. PICK i \in DOMAIN n : j = i + 1 /\ n[i] = q[j] /\ i \in Nat /\ j \in Nat
        BY <3>2 DEF Shifted
      <4>2. Last(n, s, i)
        BY <1>1, <2>1, <4>1
      <4> QED
        BY <2>1, <4>1, <4>2
    <3> QED
      BY <3>1, <3>2
  <2>2. CASE Last(q, s, 0) /\ table[s] # NoEntry /\ heap.entry[table[s]].state = issued[s]
    <3>1. Last(n, s, 0)
      BY <1>1, <2>2
    <3>2. ~IsState(q[1], s) /\ ~IsRecord(q[1], s)
      BY <2>2 DEF Last, Shifted
    <3> QED
      BY <2>2, <3>1, <3>2
  <2> QED
    BY <1>2, <2>1, <2>2 DEF LatestFor
<1> QED
  BY <1>2 DEF LatestFor, Reports, Last, IsState, IsRecord

\* A server's state has been set.
LEMMA DoneState ==
  ASSUME Types, NEW q \in Seq(Requests), NEW n, Shifted(q, n), Good(q), NEW s \in Servers,
         q[1].op = "revalidate_server", q[1].server = s, table[s] # NoEntry, table' = table, global' = global,
         issued' = issued, is_base_servers_added' = is_base_servers_added,
         \A e \in EntryIds : SameSetting(e), \A e \in EntryIds : e # table[s] => SameState(e),
         heap'.entry[table[s]].state = q[1].state
  PROVE  Good(n)' /\ (Latest(q) => Latest(n)')
<1>1. Single(q) /\ Distinct /\ FirstRound(q) /\ Known(q) /\ AddedFirst(q) /\ Renewed(q)
  BY DEF Good
<1>2. \A j \in DOMAIN q : q[j].op = "add_record" => q[j].entry \in EntryIds
  BY LinePlaces, RequestIs
<1>3. \A r \in Servers : ~IsRecord(q[1], r)
  BY DEF IsRecord
<1>4. Single(n)'
  <2>1. ASSUME NEW j \in DOMAIN q, q[j].op = "add_record"
        PROVE  /\ table'[q[j].server] = NoEntry
               /\ \A r \in Servers : table'[r] # q[j].entry
               /\ heap'.entry[q[j].entry].state = "ACTIVE"
    BY <1>1, <1>2, <2>1 DEF Single, SameState
  <2> QED
    BY <1>1, <2>1, SingleShift
<1>5. Distinct'
  BY <1>1 DEF Distinct
<1>6. FirstRound(n)'
  BY <1>1, FirstRoundShift
<1>7. Known(n)'
  BY <1>1, <1>3, KnownShift
<1>8. AddedFirst(n)'
  BY <1>1, <1>3, AddedFirstShift
<1>9. ASSUME NEW k \in Kinds PROVE RenewedFor(n, k)'
  <2>1. RenewedFor(q, k)
    BY <1>1, RenewedIs
  <2>2. \A j \in DOMAIN q : q[j].op = "add_record" =>
          heap'.entry[q[j].entry].setting[k] = heap.entry[q[j].entry].setting[k]
    BY <1>2 DEF SameSetting
  <2>3. ASSUME NEW r \in Servers, table'[r] # NoEntry, heap'.entry[table'[r]].setting[k] # global[k]
        PROVE  \E j \in DOMAIN q : j # 1 /\ Sets(q[j], k, global[k])
    <3>1. table[r] \in EntryIds
      BY <2>3 DEF Types
    <3>2. PICK j \in DOMAIN q : Sets(q[j], k, global[k])
      BY <2>1, <2>3, <3>1 DEF RenewedFor, SameSetting
    <3> QED
      BY <3>2 DEF Sets
  <2> QED
    BY <2>1, <2>2, <2>3, RenewedShift
<1>10. Renewed(n)'
  BY <1>9 DEF Renewed, RenewedFor
<1>11. ASSUME Latest(q), NEW r \in Servers PROVE LatestFor(n, r)'
  <2>1. LatestFor(q, r)
    BY <1>11, LatestIs
  <2>2. CASE r = s
    BY <1>3, <2>1, <2>2, LatestShift DEF Reports, IsState
  <2>3. CASE r # s
    <3>1. table[r] # NoEntry => table[r] \in EntryIds /\ table[r] # table[s]
      BY <1>1, <2>3 DEF Distinct, Types
    <3>2. table[r] # NoEntry => table'[r] = table[r] /\ heap'.entry[table[r]].state = heap.entry[table[r]].state
      BY <3>1 DEF SameState
    <3>3. \A st : ~Reports(q[1], r, st)
      BY <1>3, <2>3 DEF Reports, IsState
    <3> QED
      BY <2>1, <3>2, <3>3, LatestShift
  <2> QED
    BY <2>2, <2>3
<1>12. Latest(q) => Latest(n)'
  BY <1>11 DEF Latest, LatestFor
<1> QED
  BY <1>4, <1>5, <1>6, <1>7, <1>8, <1>10, <1>12 DEF Good

\* A record has been added.
LEMMA DoneRecord ==
  ASSUME Types, NEW q \in Seq(Requests), NEW n, Shifted(q, n), Good(q), NEW s \in Servers, NEW e \in EntryIds,
         q[1].op = "add_record", q[1].server = s, q[1].entry = e, table' = [table EXCEPT ![s] = e],
         heap' = heap, global' = global, issued' = issued, is_base_servers_added' = is_base_servers_added
  PROVE  Good(n)' /\ (Latest(q) => Latest(n)')
<1>1. Single(q) /\ Distinct /\ FirstRound(q) /\ Known(q) /\ AddedFirst(q) /\ Renewed(q)
  BY DEF Good
<1>2. e # NoEntry /\ table'[s] = e /\ \A r \in Servers : r # s => table'[r] = table[r]
  BY DEF Types, EntryIds, NoEntry
<1>3. /\ 1 \in DOMAIN q /\ \A r \in Servers : table[r] # e
      /\ table[s] = NoEntry /\ heap.entry[e].state = "ACTIVE"
      /\ \A j \in DOMAIN q : j # 1 /\ q[j].op = "add_record" => q[j].server # s /\ q[j].entry # e
  BY <1>1 DEF Single, Shifted
<1>4. \A j \in DOMAIN q : q[j].op = "add_record" => q[j].server \in Servers
  BY LinePlaces, RequestIs
<1>5. \A r \in Servers : IF IsRecord(q[1], r) THEN table'[r] # NoEntry ELSE table'[r] = table[r]
  BY <1>2 DEF IsRecord
<1>6. Single(n)'
  <2>1. ASSUME NEW j \in DOMAIN q, j # 1, q[j].op = "add_record"
        PROVE  /\ table'[q[j].server] = NoEntry
               /\ \A r \in Servers : table'[r] # q[j].entry
               /\ heap'.entry[q[j].entry].state = "ACTIVE"
    <3>1. q[j].server \in Servers /\ q[j].server # s /\ q[j].entry # e
      BY <1>3, <1>4, <2>1
    <3>2. /\ table[q[j].server] = NoEntry /\ \A r \in Servers : table[r] # q[j].entry
          /\ heap.entry[q[j].entry].state = "ACTIVE"
      BY <1>1, <2>1 DEF Single
    <3> QED
      BY <1>2, <3>1, <3>2
  <2> QED
    BY <1>1, <2>1, SingleShift
<1>7. Distinct'
  <2> SUFFICES ASSUME NEW r \in Servers, NEW u \in Servers, table'[r] = table'[u], table'[r] # NoEntry PROVE r = u
    BY DEF Distinct
  <2> QED
    BY <1>1, <1>2, <1>3 DEF Distinct
<1>8. FirstRound(n)'
  BY <1>1, FirstRoundShift
<1>9. Known(n)'
  BY <1>1, <1>5, KnownShift
<1>10. AddedFirst(n)'
  BY <1>1, <1>5, AddedFirstShift
<1>11. ASSUME NEW k \in Kinds PROVE RenewedFor(n, k)'
  <2>1. RenewedFor(q, k)
    BY <1>1, RenewedIs
  <2>2. ASSUME NEW r \in Servers, table'[r] # NoEntry, heap'.entry[table'[r]].setting[k] # global[k]
        PROVE  \E j \in DOMAIN q : j # 1 /\ Sets(q[j], k, global[k])
    <3>1. PICK j \in DOMAIN q : Sets(q[j], k, global[k])
      <4>1. CASE r = s
        <5>1. Stale(q[1], k)
          BY <1>2, <2>2, <4>1 DEF Stale
        <5> QED
          BY <1>3, <2>1, <5>1 DEF RenewedFor
      <4>2. CASE r # s
        BY <1>2, <2>1, <2>2, <4>2 DEF RenewedFor
      <4> QED
        BY <4>1, <4>2
    <3> QED
      BY <3>1 DEF Sets
  <2> QED
    BY <2>1, <2>2, RenewedShift
<1>12. Renewed(n)'
  BY <1>11 DEF Renewed, RenewedFor
<1>13. ASSUME Latest(q), NEW r \in Servers PROVE LatestFor(n, r)'
  <2>1. LatestFor(q, r)
    BY <1>13, LatestIs
  <2>2. table[r] # NoEntry => table'[r] = table[r]
    BY <1>2, <1>3
  <2>3. \A st : Reports(q[1], r, st) => table'[r] # NoEntry /\ heap'.entry[table'[r]].state = st
    BY <1>2, <1>3 DEF Reports, IsState, IsRecord
  <2> QED
    BY <2>1, <2>2, <2>3, LatestShift
<1>14. Latest(q) => Latest(n)'
  BY <1>13 DEF Latest, LatestFor
<1> QED
  BY <1>6, <1>7, <1>8, <1>9, <1>10, <1>12, <1>14 DEF Good

\* The entries of the table have been given a setting.
LEMMA DoneSetting ==
  ASSUME Types, NEW q \in Seq(Requests), NEW n, Shifted(q, n), Good(q), NEW c \in Kinds, NEW v,
         q[1].op = "revalidate_bucket", q[1].kind = c, q[1].version = v, table' = table, global' = global,
         issued' = issued, is_base_servers_added' = is_base_servers_added,
         \A e \in EntryIds : SameState(e),
         \A e \in EntryIds : (\A r \in Servers : table[r] # e) => SameSetting(e),
         \A e \in EntryIds, k \in Kinds : k # c => heap'.entry[e].setting[k] = heap.entry[e].setting[k],
         \A r \in Servers : table[r] # NoEntry => heap'.entry[table[r]].setting[c] = v
  PROVE  Good(n)' /\ (Latest(q) => Latest(n)')
<1>1. Single(q) /\ Distinct /\ FirstRound(q) /\ Known(q) /\ AddedFirst(q) /\ Renewed(q)
  BY DEF Good
<1>2. \A j \in DOMAIN q : q[j].op = "add_record" => q[j].entry \in EntryIds
  BY LinePlaces, RequestIs
<1>3. \A r \in Servers : ~IsRecord(q[1], r) /\ ~IsState(q[1], r)
  BY DEF IsRecord, IsState
<1>4. Single(n)'
  <2>1. ASSUME NEW j \in DOMAIN q, q[j].op = "add_record"
        PROVE  /\ table'[q[j].server] = NoEntry
               /\ \A r \in Servers : table'[r] # q[j].entry
               /\ heap'.entry[q[j].entry].state = "ACTIVE"
    BY <1>1, <1>2, <2>1 DEF Single, SameState
  <2> QED
    BY <1>1, <2>1, SingleShift
<1>5. Distinct'
  BY <1>1 DEF Distinct
<1>6. FirstRound(n)'
  BY <1>1, FirstRoundShift
<1>7. Known(n)'
  BY <1>1, <1>3, KnownShift
<1>8. AddedFirst(n)'
  BY <1>1, <1>3, AddedFirstShift
<1>9. ASSUME NEW k \in Kinds PROVE RenewedFor(n, k)'
  <2>1. RenewedFor(q, k) /\ 1 \in DOMAIN q
    BY <1>1, RenewedIs DEF Shifted
  <2>2. \A j \in DOMAIN q : q[j].op = "add_record" =>
          heap'.entry[q[j].entry].setting[k] = heap.entry[q[j].entry].setting[k]
    BY <1>1, <1>2 DEF Single, SameSetting
  <2>3. ASSUME NEW r \in Servers, table'[r] # NoEntry, heap'.entry[table'[r]].setting[k] # global[k]
        PROVE  \E j \in DOMAIN q : j # 1 /\ Sets(q[j], k, global[k])
    <3>1. table[r] \in EntryIds
      BY <2>3 DEF Types
    <3>2. CASE k # c
      <4>1. PICK j \in DOMAIN q : Sets(q[j], k, global[k])
        BY <2>1, <2>3, <3>1, <3>2 DEF RenewedFor
      <4> QED
        BY <3>2, <4>1 DEF Sets
    <3>3. CASE k = c
      <4>1. v # global[k]
        BY <2>3, <3>3
      <4>2. Stale(q[1], k)
        BY <3>3, <4>1 DEF Stale
      <4>3. PICK j \in DOMAIN q : Sets(q[j], k, global[k])
        BY <2>1, <4>2 DEF RenewedFor
      <4> QED
        BY <4>1, <4>3 DEF Sets
    <3> QED
      BY <3>2, <3>3
  <2> QED
    BY <2>1, <2>2, <2>3, RenewedShift
<1>10. Renewed(n)'
  BY <1>9 DEF Renewed, RenewedFor
<1>11. ASSUME Latest(q), NEW r \in Servers PROVE LatestFor(n, r)'
  <2>1. LatestFor(q, r)
    BY <1>11, LatestIs
  <2>2. table[r] # NoEntry => table'[r] = table[r] /\ heap'.entry[table[r]].state = heap.entry[table[r]].state
    BY DEF SameState, Types
  <2>3. \A st : ~Reports(q[1], r, st)
    BY <1>3 DEF Reports
  <2> QED
    BY <2>1, <2>2, <2>3, LatestShift
<1>12. Latest(q) => Latest(n)'
  BY <1>11 DEF Latest, LatestFor
<1> QED
  BY <1>4, <1>5, <1>6, <1>7, <1>8, <1>10, <1>12 DEF Good

\* From heap h to heap g, what stays in memory keeps its state and settings.
SteadyFrom(h, g) ==
  \A x \in EntryIds : g.entry[x].live => /\ h.entry[x].live
                                         /\ g.entry[x].state = h.entry[x].state
                                         /\ g.entry[x].setting = h.entry[x].setting

\* A count changes nothing else.
LEMMA WithRef ==
  ASSUME NEW r \in {Unused} \cup Used, NEW i, NEW n, n = [r EXCEPT !.ref = i]
  PROVE  (n.live <=> r.live) /\ n.state = r.state /\ n.setting = r.setting
<1>1. CASE r = Unused
  BY <1>1 DEF Unused
<1>2. CASE r \in Used
  <2>1. n.live <=> r.live
    BY <1>2 DEF Used
  <2>2. n.state = r.state /\ n.setting = r.setting
    BY <1>2 DEF Used
  <2> QED
    BY <2>1, <2>2
<1> QED
  BY <1>1, <1>2

\* A count is changed,
LEMMA SteadyCount ==
  ASSUME NEW h \in Heaps, NEW e \in EntryIds, NEW i, NEW g, g = [h EXCEPT !.entry[e].ref = i]
  PROVE  SteadyFrom(h, g)
<1>1. h.entry \in [EntryIds -> {Unused} \cup Used]
  BY DEF Heaps
<1>2. PICK r, n : r = h.entry[e] /\ n = [r EXCEPT !.ref = i]
  OBVIOUS
<1>3. (n.live <=> r.live) /\ n.state = r.state /\ n.setting = r.setting
  BY <1>1, <1>2, WithRef
<1>4. PICK f : f = [h.entry EXCEPT ![e] = n]
  OBVIOUS
<1>5. g = [h EXCEPT !.entry = f]
  BY <1>2, <1>4
<1>6. g.entry = f
  BY <1>5 DEF Heaps
<1>7. f[e] = n /\ \A x \in EntryIds : x # e => f[x] = h.entry[x]
  BY <1>1, <1>4
<1> QED
  BY <1>2, <1>3, <1>6, <1>7 DEF SteadyFrom

\* is incremented,
LEMMA SteadyInc ==
  ASSUME NEW h \in Heaps, NEW e \in EntryIds, NEW g, g = IncRef(h, e)
  PROVE  SteadyFrom(h, g)
<1>1. PICK i : i = h.entry[e].ref + 1
  OBVIOUS
<1>2. g = [h EXCEPT !.entry[e].ref = i]
  BY <1>1 DEF IncRef
<1> QED
  BY <1>2, SteadyCount

\* or is decremented, and the entry perhaps freed.
LEMMA SteadyDec ==
  ASSUME NEW h \in Heaps, NEW e \in EntryIds, NEW g, g = DecRef(h, e)
  PROVE  SteadyFrom(h, g)
<1>1. CASE h.entry[e].ref # 1
  <2>1. PICK i : i = h.entry[e].ref - 1
    OBVIOUS
  <2>2. g = [h EXCEPT !.entry[e].ref = i]
    BY <1>1, <2>1 DEF DecRef
  <2> QED
    BY <2>2, SteadyCount
<1>2. CASE h.entry[e].ref = 1
  <2>1. h.entry[e].live /\ h.entry[e].setting \in [Kinds -> Versions]
    <3>1. h.entry[e].live
      BY <1>2, EntryIs
    <3> QED
      BY <3>1, EntryIs
  <2>2. PICK s, a : s = h.entry[e].setting /\ a = PutSetting(h, "config", s["config"])
    OBVIOUS
  <2>3. "config" \in Kinds /\ "zone" \in Kinds
    BY DEF Kinds
  <2>4. s["config"] \in Versions /\ s["zone"] \in Versions
    BY <2>1, <2>2, <2>3
  <2>5. a \in Heaps /\ a.entry = h.entry
    BY <2>2, <2>3, <2>4, PutIs
  <2>6. PICK b : b = PutSetting(a, "zone", s["zone"])
    OBVIOUS
  <2>7. b \in Heaps /\ b.entry = h.entry
    BY <2>3, <2>4, <2>5, <2>6, PutIs
  <2>8. g = WithEntry(b, e, Unused)
    BY <1>2, <2>2, <2>6 DEF DecRef, WithEntry
  <2>9. g.entry[e] = Unused /\ \A x \in EntryIds : x # e => g.entry[x] = b.entry[x]
    BY <2>7, <2>8, EntrySet
  <2>10. ~Unused.live
    BY DEF Unused
  <2> QED
    BY <2>7, <2>9, <2>10 DEF SteadyFrom
<1> QED
  BY <1>1, <1>2

\* One change after another.
LEMMA SteadyTwice ==
  ASSUME NEW h, NEW f, NEW g, SteadyFrom(h, f), SteadyFrom(f, g)
  PROVE  SteadyFrom(h, g)
BY DEF SteadyFrom

\* The entries are left alone.
LEMMA SteadyEntries ==
  ASSUME NEW h, NEW g, g.entry = h.entry
  PROVE  SteadyFrom(h, g)
BY DEF SteadyFrom

\* The change of a step.
LEMMA SteadyIs ==
  ASSUME SteadyFrom(heap, heap')
  PROVE  Steady
BY DEF SteadyFrom, Steady, SameState, SameSetting

\* One thread at most reports states.
OneRefresher == \A t, u \in Refreshers : t = u
\* The line is followed by one in order.
Follows(q) == Turns' /\ \E n : Line(n)' /\ Good(n)' /\ (OneRefresher /\ Latest(q) => Latest(n)')

\* The line stays.
LEMMA SameLineFollows ==
  ASSUME Types, Alive', Turns', NEW q, Line(q), Line(q)', Good(q), table' = table, global' = global,
         issued' = issued, is_base_servers_added' = is_base_servers_added, SteadyFrom(heap, heap')
  PROVE  Follows(q)
<1>1. q \in Seq(Requests)
  BY LineIs
<1>2. Steady
  BY SteadyIs
<1>3. \A i \in DOMAIN q : \E j \in DOMAIN q : q[j] = q[i]
  OBVIOUS
<1>4. StatesStay(q) /\ SettingsStay(q)
  BY <1>1, <1>2, <1>3, SteadyStays
<1>5. Good(q)'
  BY <1>4, GoodStays
<1>6. Latest(q) => Latest(q)'
  BY <1>4, LatestStays
<1> QED
  BY <1>5, <1>6 DEF Follows

\* The first of the line is done.
LEMMA DoneFollows ==
  ASSUME Types, Turns', NEW q, Line(q), q # <<>>, NEW n, n = Tail(q), Line(n)',
         Good(n)' /\ (Latest(q) => Latest(n)')
  PROVE  Follows(q)
BY DEF Follows

\* Nobody takes a turn.
LEMMA TurnsSame ==
  ASSUME Turns, agenda' = agenda, bucket_mutex' = bucket_mutex, rw_lock' = rw_lock
  PROVE  Turns'
BY DEF Turns

\* What a thread has to do first, when it is a request.
LEMMA RequestAt ==
  ASSUME Types, NEW t \in Threads, NEW op, op \in {"revalidate_server", "add_record", "revalidate_bucket"}, At(t, op)
  PROVE  agenda[t] # <<>> /\ Head(agenda[t]) \in Requests /\ Head(agenda[t]).op = op
<1>1. agenda[t] # <<>> /\ Head(agenda[t]) \in Tasks /\ Head(agenda[t]).op = op
  BY HeadIs
<1>2. Head(agenda[t]) \in Requests
  BY <1>1, TaskIs, TaskOf
<1> QED
  BY <1>1, <1>2

\* Whoever leaves rw_lock_ does not hold the mutex any more.
LEMMA LeavesOutside ==
  ASSUME Types, Turns, NEW q, Line(q), NEW t \in Threads, agenda[t] # <<>>, Head(agenda[t]).op = "end_update"
  PROVE  t # bucket_mutex
<1>1. SUFFICES ASSUME t = bucket_mutex PROVE FALSE
  OBVIOUS
<1>2. bucket_mutex # NoThread
  BY <1>1, ManagerAssumption
<1>3. PICK rest \in Seq(Tasks), p \in Seq(Requests) :
        /\ Closing(rest) /\ Running(q, p, rest)
        /\ p # <<>> => Head(q) = Head(agenda[t]) /\ Head(q) \in Requests
        /\ p = <<>> => q = todo /\ agenda[t] = rest
  BY <1>1, <1>2, HeadInside
<1>4. CASE p = <<>>
  BY <1>3, <1>4, ClosingHead
<1>5. CASE p # <<>>
  <2>1. PICK x \in Requests : x = Head(agenda[t])
    BY <1>3, <1>5
  <2> QED
    BY <2>1, RequestIs
<1> QED
  BY <1>4, <1>5

\* run_todo_list() takes the todo list over and leaves the line as it is.
LEMMA RunTodoListFollows ==
  ASSUME ManagerInv, Alive', Turns, NEW q, Line(q), Good(q), NEW t \in Threads, RunTodoList(t)
  PROVE  Follows(q)
<1>1. Types
  BY DEF ManagerInv
<1>2. /\ At(t, "run_todo_list") /\ Continue(t, todo) /\ todo' = <<>> /\ bucket_mutex' = bucket_mutex
      /\ rw_lock' = rw_lock /\ table' = table /\ heap' = heap /\ global' = global /\ issued' = issued
      /\ is_base_servers_added' = is_base_servers_added
  BY DEF RunTodoList, unsharedVars
<1>3. Line(q)' /\ t = bucket_mutex
  BY <1>1, <1>2, LineRun
<1>4. Turns'
  BY <1>1, <1>2, <1>3, TurnsRun DEF At
<1>5. SteadyFrom(heap, heap')
  BY <1>2, SteadyEntries
<1> QED
  BY <1>1, <1>2, <1>3, <1>4, <1>5, SameLineFollows

\* The bucket mutex is released: what was queued meanwhile is the line now.
LEMMA ReleaseBucketFollows ==
  ASSUME ManagerInv, Alive', Turns, NEW q, Line(q), Good(q), NEW t \in Threads, ReleaseBucket(t)
  PROVE  Follows(q)
<1>1. Types
  BY DEF ManagerInv
<1>2. /\ agenda[t] # <<>> /\ Head(agenda[t]).op = "unlock" /\ Continue(t, <<>>) /\ bucket_mutex' = NoThread
      /\ rw_lock' = rw_lock /\ todo' = todo /\ table' = table /\ heap' = heap /\ global' = global
      /\ issued' = issued /\ is_base_servers_added' = is_base_servers_added
  BY DEF ReleaseBucket, unsharedVars, At
<1>3. Line(q)' /\ Outside(agenda'[t]) /\ t = bucket_mutex
  BY <1>1, <1>2, LineUnlock
<1>4. Turns'
  BY <1>1, <1>2, <1>3, TurnsUnlock
<1>5. SteadyFrom(heap, heap')
  BY <1>2, SteadyEntries
<1> QED
  BY <1>1, <1>2, <1>3, <1>4, <1>5, SameLineFollows

\* The first of the line is run by the holder of the mutex.
LEMMA RequestDone ==
  ASSUME Types, Turns, NEW q, Line(q), NEW t \in Threads, agenda[t] # <<>>, Head(agenda[t]) \in Requests,
         Continue(t, <<>>), todo' = todo, bucket_mutex' = bucket_mutex, rw_lock' = rw_lock
  PROVE  \E n \in Seq(Requests) :
           /\ q \in Seq(Requests) /\ Shifted(q, n) /\ q[1] = Head(agenda[t]) /\ Line(n)' /\ Turns'
<1>1. q \in Seq(Requests)
  BY LineIs
<1>2. q # <<>> /\ Head(q) = Head(agenda[t]) /\ Line(Tail(q))'
  BY LineDone
<1>3. PICK n : n = Tail(q)
  OBVIOUS
<1>4. n \in Seq(Requests) /\ Shifted(q, n) /\ Head(q) = q[1]
  BY <1>1, <1>2, <1>3, TailShifted
<1>5. Turns'
  BY TurnsDone
<1> QED
  BY <1>1, <1>2, <1>3, <1>4, <1>5

\* The server whose state is to be set is in the table.
LEMMA FirstIsKnown ==
  ASSUME NEW q \in Seq(Requests), AddedFirst(q), 1 \in DOMAIN q, q[1].op = "revalidate_server"
  PROVE  table[q[1].server] # NoEntry
<1>1. \A j \in DOMAIN q : ~(j < 1)
  BY LinePlaces
<1> QED
  BY <1>1 DEF AddedFirst

\* revalidate_server() finds the entry and sets its state.
LEMMA SetServerStateFollows ==
  ASSUME ManagerInv, Alive, Turns, NEW q, Line(q), Good(q), NEW t \in Threads, SetServerState(t)
  PROVE  Follows(q)
<1>1. Types /\ heap \in Heaps
  BY DEF ManagerInv, Types
<1>2. PICK x : x = Head(agenda[t])
  OBVIOUS
<1>3. PICK e : e = table[x.server]
  OBVIOUS
<1>4. /\ At(t, "revalidate_server") /\ e # NoEntry /\ heap' = WithState(heap, e, x.state)
      /\ Continue(t, <<>>) /\ todo' = todo /\ bucket_mutex' = bucket_mutex
      /\ rw_lock' = rw_lock /\ table' = table /\ global' = global /\ issued' = issued
      /\ is_base_servers_added' = is_base_servers_added
  BY <1>2, <1>3 DEF SetServerState, unsharedVars, WithState
<1>5. agenda[t] # <<>> /\ x \in Requests /\ x.op = "revalidate_server"
  BY <1>1, <1>2, <1>4, RequestAt
<1>6. PICK s \in Servers : s = x.server /\ x.state \in States
  BY <1>5, RequestIs
<1>7. PICK n \in Seq(Requests) :
           /\ q \in Seq(Requests) /\ Shifted(q, n) /\ q[1] = Head(agenda[t]) /\ Line(n)' /\ Turns'
  BY <1>1, <1>2, <1>4, <1>5, RequestDone
<1>8. e \in EntryIds /\ heap.entry[e].live /\ e = table[s]
  BY <1>1, <1>3, <1>4, <1>6 DEF Types, Alive
<1>9. PICK r, m : r = heap.entry[e] /\ m = [r EXCEPT !.state = x.state]
  OBVIOUS
<1>10. r \in Used /\ m \in Used /\ m.setting = r.setting /\ m.state = x.state
  <2>1. r \in Used
    BY <1>1, <1>8, <1>9, EntryIs
  <2>2. m \in Used /\ m.setting = r.setting
    BY <1>6, <1>9, <2>1, UsedState
  <2>3. m.state = x.state
    BY <1>9, <2>1 DEF Used
  <2> QED
    BY <2>1, <2>2, <2>3
<1>11. heap' = WithEntry(heap, e, m)
  BY <1>4, <1>9 DEF WithEntry, WithState
<1>12. heap'.entry[e] = m /\ \A y \in EntryIds : y # e => heap'.entry[y] = heap.entry[y]
  BY <1>1, <1>8, <1>10, <1>11, EntrySet
<1>13. \A y \in EntryIds : SameSetting(y)
  BY <1>9, <1>10, <1>12 DEF SameSetting
<1>14. \A y \in EntryIds : y # table[s] => SameState(y)
  BY <1>8, <1>12 DEF SameState
<1>15. q[1].op = "revalidate_server" /\ q[1].server = s /\ q[1].state = x.state /\ heap'.entry[table[s]].state = q[1].state
  BY <1>2, <1>5, <1>6, <1>7, <1>8, <1>10, <1>12
<1>16. Good(n)' /\ (Latest(q) => Latest(n)')
  BY <1>1, <1>4, <1>7, <1>8, <1>13, <1>14, <1>15, DoneState
<1> QED
  BY <1>7, <1>16 DEF Follows

\* A queued add_record() inserts the entry of a server that has none.
LEMMA InsertEntryFollows ==
  ASSUME ManagerInv, Turns, NEW q, Line(q), Good(q), NEW t \in Threads, InsertEntry(t)
  PROVE  Follows(q)
<1>1. Types
  BY DEF ManagerInv
<1>2. PICK x : x = Head(agenda[t])
  OBVIOUS
<1>3. /\ At(t, "add_record") \/ At(t, "insert_entry")
      /\ heap' = (IF x.op = "add_record" THEN heap ELSE IncRef(heap, x.entry))
      /\ table' = [table EXCEPT ![x.server] = x.entry]
      /\ table[x.server] = NoEntry => Continue(t, <<>>)
      /\ todo' = todo /\ bucket_mutex' = bucket_mutex
      /\ rw_lock' = rw_lock /\ global' = global /\ issued' = issued
      /\ is_base_servers_added' = is_base_servers_added
  BY <1>2 DEF InsertEntry, unsharedVars
<1>4. At(t, "add_record")
  <2>1. ASSUME At(t, "insert_entry") PROVE FALSE
    <3>1. agenda[t] # <<>> /\ x.op = "insert_entry"
      BY <1>2, <2>1 DEF At
    <3>2. PICK y \in Requests : y = x
      BY <1>1, <1>2, <3>1, OnlyTasks
    <3> QED
      BY <3>1, <3>2, RequestIs
  <2> QED
    BY <1>3, <2>1
<1>5. agenda[t] # <<>> /\ x \in Requests /\ x.op = "add_record"
  BY <1>1, <1>2, <1>4, RequestAt
<1>6. PICK s \in Servers, e \in EntryIds : s = x.server /\ e = x.entry
  BY <1>5, RequestIs
<1>7. table[s] = NoEntry
  <2>1. q \in Seq(Requests)
    BY <1>1, LineIs
  <2>2. q # <<>> /\ Head(q) = x
    <3>1. t = bucket_mutex /\ bucket_mutex # NoThread
      BY <1>1, <1>2, <1>5, HeadOutside, ManagerAssumption
    <3>2. PICK rest \in Seq(Tasks), p \in Seq(Requests) :
            /\ Closing(rest) /\ Running(q, p, rest)
            /\ p # <<>> => q # <<>> /\ Head(q) = Head(agenda[t])
            /\ p = <<>> => q = todo /\ agenda[t] = rest
      BY <1>1, <1>2, <1>5, <3>1, HeadInside
    <3>3. p # <<>>
      BY <1>2, <1>5, <3>2, ClosingHead
    <3> QED
      BY <1>2, <3>2, <3>3
  <2>3. 1 \in DOMAIN q /\ q[1] = x
    BY <2>1, <2>2
  <2> QED
    BY <1>5, <1>6, <2>3 DEF Good, Single
<1>8. Continue(t, <<>>)
  BY <1>3, <1>6, <1>7
<1>9. PICK n \in Seq(Requests) :
           /\ q \in Seq(Requests) /\ Shifted(q, n) /\ q[1] = Head(agenda[t]) /\ Line(n)' /\ Turns'
  BY <1>1, <1>2, <1>3, <1>5, <1>8, RequestDone
<1>10. q[1].op = "add_record" /\ q[1].server = s /\ q[1].entry = e /\ table' = [table EXCEPT ![s] = e] /\ heap' = heap
  BY <1>2, <1>3, <1>5, <1>6, <1>9
<1>11. Good(n)' /\ (Latest(q) => Latest(n)')
  BY <1>1, <1>3, <1>9, <1>10, DoneRecord
<1> QED
  BY <1>9, <1>11 DEF Follows

\* The entries es have version v of k.
LEMMA ReplacedEntries ==
  ASSUME NEW h \in Heaps, NEW es, AllLive(h, es), NEW k \in Kinds, NEW v \in Versions,
         NEW g, g = ReplaceSetting(h, es, k, v), NEW e \in EntryIds
  PROVE  /\ g.entry[e].state = h.entry[e].state
         /\ e \notin es => g.entry[e] = h.entry[e]
         /\ \A j \in Kinds : j # k => g.entry[e].setting[j] = h.entry[e].setting[j]
         /\ e \in es => g.entry[e].setting[k] = v
<1>1. g.entry[e] = (IF e \in es THEN WithSetting(h.entry[e], k, v) ELSE h.entry[e])
  BY DEF ReplaceSetting, Repointed, WithSetting
<1>2. CASE e \in es
  <2>1. PICK r, n : r = h.entry[e] /\ n = g.entry[e]
    OBVIOUS
  <2>2. r \in Used
    BY <1>2, <2>1, EntryIs DEF AllLive
  <2>3. n = WithSetting(r, k, v)
    BY <1>1, <1>2, <2>1
  <2>4. n.setting[k] = v /\ \A j \in Kinds : j # k => n.setting[j] = r.setting[j]
    BY <2>2, <2>3, UsedSetting
  <2>5. n.state = r.state
    BY <2>2, <2>3 DEF Used, WithSetting
  <2> QED
    BY <1>2, <2>1, <2>4, <2>5
<1>3. CASE e \notin es
  BY <1>1, <1>3
<1> QED
  BY <1>2, <1>3

\* revalidate_bucket_config(), revalidate_zone(): every entry of the table gets
\* the setting.
LEMMA RevalidateBucketFollows ==
  ASSUME ManagerInv, Alive, Turns, NEW q, Line(q), Good(q), NEW t \in Threads, RevalidateBucket(t)
  PROVE  Follows(q)
<1>1. Types /\ heap \in Heaps
  BY DEF ManagerInv, Types
<1>2. PICK x : x = Head(agenda[t])
  OBVIOUS
<1>3. At(t, "revalidate_bucket")
  BY DEF RevalidateBucket
<1>4. agenda[t] # <<>> /\ x \in Requests /\ x.op = "revalidate_bucket"
  BY <1>1, <1>2, <1>3, RequestAt
<1>5. PICK k \in Kinds, v \in Versions : k = x.kind /\ v = x.version
  BY <1>4, RequestIs
<1>6. PICK es : es = {table[s] : s \in Servers} \ {NoEntry}
  OBVIOUS
<1>7. PICK f : f = ReplaceSetting(heap, es, k, v)
  OBVIOUS
<1>8. /\ heap' = PutSetting(f, k, v) /\ Continue(t, <<>>) /\ todo' = todo /\ bucket_mutex' = bucket_mutex
      /\ rw_lock' = rw_lock /\ table' = table /\ global' = global /\ issued' = issued
      /\ is_base_servers_added' = is_base_servers_added
  BY <1>2, <1>5, <1>6, <1>7 DEF RevalidateBucket, unsharedVars
<1>9. AllLive(heap, es)
  BY <1>1, <1>6 DEF AllLive, Alive, Types
<1>10. f \in Heaps
  BY <1>1, <1>7, <1>9, ReplaceIs
<1>11. heap'.entry = f.entry
  BY <1>5, <1>8, <1>10, PutIs
<1>12. ASSUME NEW e \in EntryIds
       PROVE  /\ f.entry[e].state = heap.entry[e].state
              /\ e \notin es => f.entry[e] = heap.entry[e]
              /\ \A j \in Kinds : j # k => f.entry[e].setting[j] = heap.entry[e].setting[j]
              /\ e \in es => f.entry[e].setting[k] = v
  BY <1>1, <1>5, <1>7, <1>9, ReplacedEntries
<1>13. PICK n \in Seq(Requests) :
           /\ q \in Seq(Requests) /\ Shifted(q, n) /\ q[1] = Head(agenda[t]) /\ Line(n)' /\ Turns'
  BY <1>1, <1>2, <1>4, <1>8, RequestDone
<1>14. q[1].op = "revalidate_bucket" /\ q[1].kind = k /\ q[1].version = v
  BY <1>2, <1>4, <1>5, <1>13
<1>15. \A e \in EntryIds : SameState(e)
  BY <1>11, <1>12 DEF SameState
<1>16. \A e \in EntryIds : (\A r \in Servers : table[r] # e) => SameSetting(e)
  BY <1>6, <1>11, <1>12 DEF SameSetting
<1>17. \A e \in EntryIds, j \in Kinds : j # k => heap'.entry[e].setting[j] = heap.entry[e].setting[j]
  BY <1>11, <1>12
<1>18. ASSUME NEW r \in Servers, table[r] # NoEntry PROVE heap'.entry[table[r]].setting[k] = v
  <2>1. table[r] \in EntryIds /\ table[r] \in es
    BY <1>1, <1>6, <1>18 DEF Types
  <2> QED
    BY <1>11, <1>12, <2>1
<1>19. Good(n)' /\ (Latest(q) => Latest(n)')
  BY <1>1, <1>5, <1>8, <1>13, <1>14, <1>15, <1>16, <1>17, <1>18, DoneSetting
<1> QED
  BY <1>13, <1>19 DEF Follows

\* A reference to a setting is dropped.
LEMMA DropSettingFollows ==
  ASSUME ManagerInv, Alive', Turns, NEW q, Line(q), Good(q), NEW t \in Threads, DropSetting(t)
  PROVE  Follows(q)
<1>1. Types /\ heap \in Heaps
  BY DEF ManagerInv, Types
<1>2. PICK x : x = Head(agenda[t])
  OBVIOUS
<1>3. /\ At(t, "put") /\ heap' = PutSetting(heap, x.kind, x.version) /\ Continue(t, <<>>)
      /\ todo' = todo /\ bucket_mutex' = bucket_mutex
      /\ rw_lock' = rw_lock /\ table' = table /\ global' = global /\ issued' = issued
      /\ is_base_servers_added' = is_base_servers_added
  BY <1>2 DEF DropSetting, unsharedVars
<1>4. agenda[t] # <<>> /\ x \in Tasks /\ x.op = "put"
  BY <1>1, <1>2, <1>3, HeadIs
<1>5. PICK k \in Kinds, v \in Versions : k = x.kind /\ v = x.version
  BY <1>4, TaskIs, TaskOp
<1>6. heap'.entry = heap.entry
  BY <1>1, <1>3, <1>5, PutIs
<1>7. SteadyFrom(heap, heap')
  BY <1>6, SteadyEntries
<1>8. \A r : Own(r) => Own(r)'
  BY <1>3 DEF Own
<1>9. Line(q)'
  BY <1>1, <1>2, <1>3, <1>4, <1>8, LineQuiet
<1>10. Turns'
  BY <1>1, <1>3, <1>4, TurnsDone
<1> QED
  BY <1>1, <1>3, <1>7, <1>9, <1>10, SameLineFollows

\* An update of a setting leaves rw_lock_.
LEMMA ReturnFromUpdateFollows ==
  ASSUME ManagerInv, Alive', Turns, NEW q, Line(q), Good(q), NEW t \in Threads, ReturnFromUpdate(t)
  PROVE  Follows(q)
<1>1. Types /\ heap \in Heaps
  BY DEF ManagerInv, Types
<1>2. PICK x : x = Head(agenda[t])
  OBVIOUS
<1>3. /\ At(t, "end_update") /\ heap' = PutSetting(heap, x.kind, x.version) /\ Continue(t, <<>>)
      /\ todo' = todo /\ bucket_mutex' = bucket_mutex
      /\ rw_lock' = NoThread /\ table' = table /\ global' = global /\ issued' = issued
      /\ is_base_servers_added' = is_base_servers_added
  BY <1>2 DEF ReturnFromUpdate, unsharedVars
<1>4. agenda[t] # <<>> /\ x \in Tasks /\ x.op = "end_update"
  BY <1>1, <1>2, <1>3, HeadIs
<1>5. PICK k \in Kinds, v \in Versions : k = x.kind /\ v = x.version
  BY <1>4, TaskIs, TaskOp
<1>6. heap'.entry = heap.entry
  BY <1>1, <1>3, <1>5, PutIs
<1>7. SteadyFrom(heap, heap')
  BY <1>6, SteadyEntries
<1>8. Turns' /\ rw_lock = t
  BY <1>1, <1>2, <1>3, <1>4, TurnsReturn
<1>9. t # bucket_mutex
  BY <1>1, <1>2, <1>4, LeavesOutside
<1>10. \A r : Own(r) => Own(r)'
  BY <1>3, <1>8, <1>9 DEF Own
<1>11. Line(q)'
  BY <1>1, <1>2, <1>3, <1>4, <1>10, LineQuiet
<1> QED
  BY <1>1, <1>3, <1>7, <1>8, <1>11, SameLineFollows

\* A lookup only takes a reference.
LEMMA LookupEntryFollows ==
  ASSUME ManagerInv, Alive', Turns, NEW q, Line(q), Good(q), NEW t \in Threads, LookupEntry(t)
  PROVE  Follows(q)
<1>1. Types /\ Exact /\ heap \in Heaps
  BY DEF ManagerInv, Types
<1>2. PICK x : x = Head(agenda[t])
  OBVIOUS
<1>3. /\ At(t, "lookup_entry") /\ Continue(t, <<>>) /\ todo' = todo /\ bucket_mutex' = bucket_mutex
      /\ rw_lock' = rw_lock /\ table' = table /\ global' = global /\ issued' = issued
      /\ is_base_servers_added' = is_base_servers_added
  BY DEF LookupEntry, unsharedVars
<1>4. agenda[t] # <<>> /\ x \in Tasks /\ x.op = "lookup_entry"
  BY <1>1, <1>2, <1>3, HeadIs
<1>5. PICK s \in Servers : s = x.server
  BY <1>4, TaskIs, TaskOp
<1>6. PICK e, old : e = table[s] /\ old = cache[t][s]
  OBVIOUS
<1>7. SteadyFrom(heap, heap')
  <2>1. CASE e = NoEntry
    <3>1. heap' = heap
      BY <1>2, <1>5, <1>6, <2>1 DEF LookupEntry
    <3> QED
      BY <3>1, SteadyEntries
  <2>2. CASE e # NoEntry
    <3>1. PICK h, f, g, m : /\ h = heap /\ f = IncRef(h, e) /\ g = (IF old = NoEntry THEN f ELSE DecRef(f, old))
                            /\ m = heap'
      OBVIOUS
    <3>2. m = IncRef(g, e)
      BY <1>2, <1>5, <1>6, <2>2, <3>1 DEF LookupEntry
    <3>3. e \in EntryIds /\ old \in EntryIds \cup {NoEntry}
      BY <1>1, <1>6, <2>2 DEF Types
    <3>4. h \in Heaps /\ h.entry[e].live /\ h.entry[e].ref >= 1
      BY <1>1, <1>6, <3>1, <3>3, Owned
    <3>5. /\ f \in Heaps /\ SameSettings(f, h) /\ f.entry[e].live /\ f.entry[e].ref = h.entry[e].ref + 1
          /\ \A y \in EntryIds : y # e => f.entry[y] = h.entry[y]
      BY <3>1, <3>3, <3>4, IncRefIs
    <3>6. SteadyFrom(h, f)
      BY <3>1, <3>3, <3>4, SteadyInc
    <3>7. g \in Heaps /\ SteadyFrom(f, g)
      <4>1. CASE old = NoEntry
        BY <3>1, <3>5, <4>1, SteadyEntries
      <4>2. CASE old # NoEntry
        <5>1. old \in EntryIds /\ h.entry[old].live /\ h.entry[old].ref >= 1
          BY <1>1, <1>6, <3>1, <3>3, <4>2, Owned
        <5>2. h.entry[e].ref \in Int
          BY <3>3, <3>4, EntryIs
        <5>3. f.entry[old].live /\ f.entry[old].ref >= 1
          BY <3>4, <3>5, <5>1, <5>2
        <5>4. g = DecRef(f, old)
          BY <3>1, <4>2
        <5> QED
          BY <3>5, <5>1, <5>3, <5>4, DecRefIs, SteadyDec
      <4> QED
        BY <4>1, <4>2
    <3>8. SteadyFrom(g, m)
      BY <3>2, <3>3, <3>7, SteadyInc
    <3>9. SteadyFrom(h, m)
      BY <3>6, <3>7, <3>8, SteadyTwice
    <3> QED
      BY <3>1, <3>9
  <2> QED
    BY <2>1, <2>2
<1>8. \A r : Own(r) => Own(r)'
  BY <1>3 DEF Own
<1>9. Line(q)'
  BY <1>1, <1>2, <1>3, <1>4, <1>8, LineQuiet
<1>10. Turns'
  BY <1>1, <1>3, <1>4, TurnsDone
<1> QED
  BY <1>1, <1>3, <1>7, <1>9, <1>10, SameLineFollows

\* A task is run.
LEMMA TaskStepFollows ==
  ASSUME "DELETED" \notin States, ManagerInv, Alive, Alive', Turns, NEW q, Line(q), Good(q),
         NEW t \in Threads, TaskStep(t)
  PROVE  Follows(q)
<1>1. Types
  BY DEF ManagerInv
<1>2. ASSUME NEW op, At(t, op), op \in {"set_entry_deleted_state", "dec_ref", "remove_all"} PROVE FALSE
  <2>1. agenda[t] # <<>> /\ Head(agenda[t]).op = op
    BY <1>2 DEF At
  <2>2. PICK y \in Requests : y = Head(agenda[t])
    BY <1>1, <1>2, <2>1, OnlyTasks
  <2> QED
    BY <1>2, <2>1, <2>2, RequestIs
<1>3. ASSUME At(t, "revalidate_server") PROVE Head(agenda[t]).state # "DELETED" /\ table[Head(agenda[t]).server] # NoEntry
  <2>1. PICK x : x = Head(agenda[t])
    OBVIOUS
  <2>2. agenda[t] # <<>> /\ x \in Requests /\ x.op = "revalidate_server"
    BY <1>1, <1>3, <2>1, RequestAt
  <2>3. x.state # "DELETED"
    BY <2>2, RequestIs
  <2>4. t = bucket_mutex /\ bucket_mutex # NoThread
    BY <1>1, <2>1, <2>2, HeadOutside, ManagerAssumption
  <2>5. PICK rest \in Seq(Tasks), p \in Seq(Requests) :
          /\ Closing(rest) /\ Running(q, p, rest)
          /\ p # <<>> => q # <<>> /\ Head(q) = Head(agenda[t])
          /\ p = <<>> => q = todo /\ agenda[t] = rest
    BY <1>1, <2>1, <2>2, <2>4, HeadInside
  <2>6. p # <<>>
    BY <2>1, <2>2, <2>5, ClosingHead
  <2>7. q \in Seq(Requests)
    BY <1>1, LineIs
  <2>8. 1 \in DOMAIN q /\ q[1] = x
    BY <2>1, <2>5, <2>6, <2>7
  <2> QED
    BY <2>1, <2>2, <2>3, <2>7, <2>8, FirstIsKnown DEF Good
<1>4. ~RemoveServer(t) /\ ~AddNewServer(t) /\ ~SkipDeletedServer(t)
  BY <1>3 DEF RemoveServer, AddNewServer, SkipDeletedServer
<1>5. ~SetEntryDeletedState(t) /\ ~DropEntry(t) /\ ~RemoveAllEntries(t)
  BY <1>2 DEF SetEntryDeletedState, DropEntry, RemoveAllEntries
<1>6. CASE RunTodoList(t)
  BY <1>6, RunTodoListFollows
<1>7. CASE ReleaseBucket(t)
  BY <1>7, ReleaseBucketFollows
<1>8. CASE SetServerState(t)
  BY <1>8, SetServerStateFollows
<1>9. CASE InsertEntry(t)
  BY <1>9, InsertEntryFollows
<1>10. CASE RevalidateBucket(t)
  BY <1>10, RevalidateBucketFollows
<1>11. CASE DropSetting(t)
  BY <1>11, DropSettingFollows
<1>12. CASE ReturnFromUpdate(t)
  BY <1>12, ReturnFromUpdateFollows
<1>13. CASE LookupEntry(t)
  BY <1>13, LookupEntryFollows
<1> QED
  BY <1>4, <1>5, <1>6, <1>7, <1>8, <1>9, <1>10, <1>11, <1>12, <1>13 DEF TaskStep

\* A step that has nothing to do with the tasks.
LEMMA IdleFollows ==
  ASSUME Types, Alive', Turns, NEW q, Line(q), Good(q), agenda' = agenda, todo' = todo,
         bucket_mutex' = bucket_mutex, rw_lock' = rw_lock, table' = table, global' = global,
         issued' = issued, is_base_servers_added' = is_base_servers_added, SteadyFrom(heap, heap')
  PROVE  Follows(q)
<1>1. \A r : Own(r) => Own(r)'
  BY DEF Own
<1>2. Line(q)'
  BY <1>1, LineSame
<1>3. Turns'
  BY TurnsSame
<1> QED
  BY <1>2, <1>3, SameLineFollows

\* The first round ends when all servers have been added.
LEMMA SetBaseServersAddedFollows ==
  ASSUME BaseServers = Servers, Turns, NEW q, Line(q), Good(q), SetBaseServersAdded
  PROVE  Follows(q)
<1>1. /\ \A s \in Servers : issued[s] # "DELETED"
      /\ is_base_servers_added' = TRUE /\ agenda' = agenda /\ todo' = todo /\ bucket_mutex' = bucket_mutex
      /\ rw_lock' = rw_lock /\ table' = table /\ global' = global /\ issued' = issued /\ heap' = heap
  BY DEF SetBaseServersAdded
<1>2. \A r : Own(r) => Own(r)'
  BY <1>1 DEF Own
<1>3. Line(q)'
  BY <1>1, <1>2, LineSame
<1>4. Turns'
  BY <1>1, TurnsSame
<1>5. FirstRound(q)'
  BY <1>1 DEF FirstRound
<1>6. Single(q)' /\ Distinct'
  BY <1>1 DEF Good, Single, Distinct
<1>7. Known(q)' /\ AddedFirst(q)'
  BY <1>1 DEF Good, Known, AddedFirst, IsRecord
<1>8. Renewed(q)'
  BY <1>1 DEF Good, Renewed, Stale, Sets
<1>9. Latest(q) => Latest(q)'
  BY <1>1 DEF Latest, Reports, Last, IsState, IsRecord
<1> QED
  BY <1>3, <1>4, <1>5, <1>6, <1>7, <1>8, <1>9 DEF Follows, Good

\* Calls that leave the line alone.
LEMMA PlainCallsFollow ==
  ASSUME Types, Alive', Turns, NEW q, Line(q), Good(q), NEW t \in Threads,
         LookupDisabled(t) \/ CancelLookup(t) \/ UNCHANGED vars
  PROVE  Follows(q)
<1>1. /\ agenda' = agenda /\ todo' = todo /\ bucket_mutex' = bucket_mutex
      /\ rw_lock' = rw_lock /\ table' = table /\ global' = global /\ issued' = issued /\ heap' = heap
      /\ is_base_servers_added' = is_base_servers_added
  BY DEF LookupDisabled, CancelLookup, vars
<1>2. SteadyFrom(heap, heap')
  BY <1>1, SteadyEntries
<1> QED
  BY <1>1, <1>2, IdleFollows

\* Calls on a thread cache change counts only.
LEMMA CachedCallsFollow ==
  ASSUME Types, Alive', Turns, NEW q, Line(q), Good(q), NEW t \in Threads, NEW s \in Servers,
         LookupInCache(t, s) \/ CleanCache(t, s)
  PROVE  Follows(q)
<1>1. /\ agenda' = agenda /\ todo' = todo /\ bucket_mutex' = bucket_mutex
      /\ rw_lock' = rw_lock /\ table' = table /\ global' = global /\ issued' = issued
      /\ is_base_servers_added' = is_base_servers_added
      /\ cache[t][s] # NoEntry
      /\ heap' = IncRef(heap, cache[t][s]) \/ heap' = DecRef(heap, cache[t][s])
  BY DEF LookupInCache, CleanCache, CacheHit
<1>2. heap \in Heaps /\ cache[t][s] \in EntryIds
  BY <1>1 DEF Types
<1>3. SteadyFrom(heap, heap')
  BY <1>1, <1>2, SteadyInc, SteadyDec
<1> QED
  BY <1>1, <1>3, IdleFollows

\* A transaction gives up its entry.
LEMMA ReleaseEntryFollows ==
  ASSUME Types, Alive', Turns, NEW q, Line(q), Good(q), NEW t \in Threads, ReleaseEntry(t)
  PROVE  Follows(q)
<1>1. /\ agenda' = agenda /\ todo' = todo /\ bucket_mutex' = bucket_mutex
      /\ rw_lock' = rw_lock /\ table' = table /\ global' = global /\ issued' = issued
      /\ is_base_servers_added' = is_base_servers_added
      /\ txn[t].at = "holding" /\ heap' = DecRef(heap, txn[t].entry)
  BY DEF ReleaseEntry
<1>2. heap \in Heaps /\ txn[t] \in Txns
  BY DEF Types
<1>3. PICK e \in EntryIds : txn[t].entry = e
  BY <1>1, <1>2, TxnAt
<1>4. SteadyFrom(heap, heap')
  BY <1>1, <1>2, <1>3, SteadyDec
<1> QED
  BY <1>1, <1>4, IdleFollows

\* Calls that take the mutex.
LEMMA RestPlain ==
  ASSUME NEW s \in Servers, NEW v \in Versions
  PROVE  /\ \A i \in DOMAIN <<Lookup(s), Unlock, Put("config", v)>> :
              <<Lookup(s), Unlock, Put("config", v)>>[i].op # "end_update"
         /\ \A i \in DOMAIN <<Lookup(s), Put("config", v), Unlock>> :
              <<Lookup(s), Put("config", v), Unlock>>[i].op # "end_update"
         /\ \A i \in DOMAIN <<Unlock>> : <<Unlock>>[i].op # "end_update"
<1>1. PICK l, u, p : /\ l = Lookup(s) /\ l.op # "end_update" /\ u = Unlock /\ u.op # "end_update"
                     /\ p = Put("config", v) /\ p.op # "end_update"
  BY TaskOp
<1>2. \A i \in DOMAIN <<l, u, p>> : <<l, u, p>>[i].op # "end_update"
  BY <1>1
<1>3. \A i \in DOMAIN <<l, p, u>> : <<l, p, u>>[i].op # "end_update"
  BY <1>1
<1>4. \A i \in DOMAIN <<u>> : <<u>>[i].op # "end_update"
  BY <1>1
<1> QED
  BY <1>1, <1>2, <1>3, <1>4

\* The tasks of such a call, todo list first.
LEMMA BeginRun ==
  ASSUME NEW a \in Tasks, NEW b \in Tasks, NEW c \in Tasks
  PROVE  <<Run, a, b, c>> = <<Run>> \o <<a, b, c>> /\ <<Run, a>> = <<Run>> \o <<a>>
<1>1. Run \in Tasks
  BY TaskOf
<1> QED
  BY <1>1

\* A lookup that gets the mutex,
LEMMA LookupInTableFollows ==
  ASSUME Types, Alive', Turns, NEW q, Line(q), Good(q), NEW t \in Threads, NEW s \in Servers, LookupInTable(t, s)
  PROVE  Follows(q)
<1>1. PICK v : v = global["config"]
  OBVIOUS
<1>2. /\ heap' = GetSetting(heap, "config", v) /\ todo' = todo
      /\ rw_lock' = rw_lock /\ table' = table /\ global' = global /\ issued' = issued
      /\ is_base_servers_added' = is_base_servers_added
      /\ \/ /\ bucket_mutex = NoThread /\ bucket_mutex' = t
            /\ Begin(t, <<Run, Lookup(s), Unlock, Put("config", v)>>)
         \/ bucket_mutex' = bucket_mutex /\ agenda' = agenda
  BY <1>1 DEF LookupInTable
<1>3. "config" \in Kinds /\ v \in Versions /\ heap \in Heaps
  BY <1>1 DEF Kinds, Types
<1>4. SteadyFrom(heap, heap')
  BY <1>2, <1>3, GetIs, SteadyEntries
<1>5. CASE bucket_mutex' = bucket_mutex /\ agenda' = agenda
  BY <1>2, <1>4, <1>5, IdleFollows
<1>6. CASE /\ bucket_mutex = NoThread /\ bucket_mutex' = t
           /\ Begin(t, <<Run, Lookup(s), Unlock, Put("config", v)>>)
  <2>1. PICK rest : rest = <<Lookup(s), Unlock, Put("config", v)>>
    OBVIOUS
  <2>2. rest \in Seq(Tasks) /\ Closing(rest) /\ \A i \in DOMAIN rest : rest[i].op # "end_update"
    BY <1>3, <2>1, LookupRests, RestPlain
  <2>3. Lookup(s) \in Tasks /\ Unlock \in Tasks /\ Put("config", v) \in Tasks
    BY <1>3, TaskOf
  <2>4. Begin(t, <<Run>> \o rest)
    BY <1>6, <2>1, <2>3, BeginRun
  <2>5. Line(q)' /\ Turns'
    BY <1>2, <1>6, <2>2, <2>4, OrderLookup
  <2> QED
    BY <1>2, <1>4, <2>5, SameLineFollows
<1> QED
  BY <1>2, <1>5, <1>6

\* a lookup that gets it later,
LEMMA RetryLookupFollows ==
  ASSUME Types, Alive', Turns, NEW q, Line(q), Good(q), NEW t \in Threads, RetryLookup(t)
  PROVE  Follows(q)
<1>1. txn[t] \in Txns /\ txn[t].at = "waiting"
  BY DEF Types, RetryLookup
<1>2. PICK s \in Servers, v \in Versions : txn[t].server = s /\ txn[t].version = v
  BY <1>1, TxnAt
<1>3. /\ bucket_mutex = NoThread /\ bucket_mutex' = t /\ todo' = todo
      /\ Begin(t, <<Run, Lookup(s), Put("config", v), Unlock>>)
      /\ rw_lock' = rw_lock /\ table' = table /\ global' = global /\ issued' = issued /\ heap' = heap
      /\ is_base_servers_added' = is_base_servers_added
  BY <1>2 DEF RetryLookup
<1>4. SteadyFrom(heap, heap')
  BY <1>3, SteadyEntries
<1>5. PICK rest : rest = <<Lookup(s), Put("config", v), Unlock>>
  OBVIOUS
<1>6. rest \in Seq(Tasks) /\ Closing(rest) /\ \A i \in DOMAIN rest : rest[i].op # "end_update"
  BY <1>5, LookupRests, RestPlain
<1>7. Lookup(s) \in Tasks /\ Unlock \in Tasks /\ Put("config", v) \in Tasks
  BY TaskOf DEF Kinds
<1>8. Begin(t, <<Run>> \o rest)
  BY <1>3, <1>5, <1>7, BeginRun
<1>9. Line(q)' /\ Turns'
  BY <1>3, <1>6, <1>8, OrderLookup
<1> QED
  BY <1>3, <1>4, <1>9, SameLineFollows

\* and SHOW PROXYCONGESTION run the todo list first.
LEMMA ShowCongestionFollows ==
  ASSUME Types, Alive', Turns, NEW q, Line(q), Good(q), NEW t \in Threads, ShowCongestion(t)
  PROVE  Follows(q)
<1>1. /\ bucket_mutex = NoThread /\ bucket_mutex' = t /\ todo' = todo /\ Begin(t, <<Run, Unlock>>)
      /\ rw_lock' = rw_lock /\ table' = table /\ global' = global /\ issued' = issued /\ heap' = heap
      /\ is_base_servers_added' = is_base_servers_added
  BY DEF ShowCongestion
<1>2. SteadyFrom(heap, heap')
  BY <1>1, SteadyEntries
<1>3. PICK u \in Tasks : u = Unlock /\ u.op = "unlock"
  BY TaskOf, TaskOp
<1>4. <<u>> \in Seq(Tasks) /\ \A i \in DOMAIN <<u>> : <<u>>[i].op # "end_update"
  BY <1>3
<1>5. Closing(<<u>>)
  BY <1>3 DEF Closing
<1>6. PICK rest : rest = <<u>>
  OBVIOUS
<1>7. Begin(t, <<Run>> \o rest)
  BY <1>1, <1>3, <1>6, BeginRun
<1>8. Line(q)' /\ Turns'
  BY <1>1, <1>4, <1>5, <1>6, <1>7, OrderLookup
<1> QED
  BY <1>1, <1>2, <1>8, SameLineFollows

\* The line of the next state consists of requests as well.
LEMMA LineIsNext ==
  ASSUME Types', NEW q, Line(q)'
  PROVE  q \in Seq(Requests)
<1>1. todo' \in Seq(Requests)
  BY DEF Types
<1>2. ASSUME NEW r \in Requests PROVE Append(todo', r) \in Seq(Requests)
  BY <1>1, JoinOne
<1>3. ASSUME NEW p \in Seq(Requests) PROVE p \o todo' \in Seq(Requests)
  BY <1>1, JoinIs
<1> QED
  BY <1>1, <1>2, <1>3 DEF Line, Starting, Bringing, Running

\* The fields of a new entry.
LEMMA NewEntryFields ==
  ASSUME Types, NEW h \in Heaps, NEW e \in EntryIds, ~h.entry[e].live,
         NEW st \in States \cup {"ACTIVE"}, NEW g, g = NewEntry(h, e, st)
  PROVE  g.entry[e].state = st /\ g.entry[e].setting = global
<1>1. PICK a, b : a = global["config"] /\ b = global["zone"]
  OBVIOUS
<1>2. a \in Versions /\ b \in Versions /\ "config" \in Kinds /\ "zone" \in Kinds /\ global \in [Kinds -> Versions]
  BY <1>1 DEF Kinds, Types
<1>3. PICK p : p = GetSetting(h, "config", a)
  OBVIOUS
<1>4. p \in Heaps
  BY <1>2, <1>3, GetIs
<1>5. PICK o : o = GetSetting(p, "zone", b)
  OBVIOUS
<1>6. o \in Heaps
  BY <1>2, <1>4, <1>5, GetIs
<1>7. PICK n : n = [live |-> TRUE, state |-> st, setting |-> global, ref |-> 0, deleted |-> FALSE]
  OBVIOUS
<1>8. n \in {Unused} \cup Used /\ n.state = st /\ n.setting = global
  BY <1>2, <1>7 DEF Used
<1>9. g = WithEntry(o, e, n)
  BY <1>1, <1>3, <1>5, <1>7 DEF NewEntry, WithEntry
<1>10. g.entry[e] = n
  BY <1>6, <1>8, <1>9, EntrySet
<1> QED
  BY <1>8, <1>10

\* The record of a server of the first round is queued.
LEMMA AddBaseServerFollows ==
  ASSUME ManagerInv, Types', Alive, Turns, NEW q, Line(q), Good(q), NEW t \in Threads, NEW s \in Servers,
         AddBaseServer(t, s)
  PROVE  Follows(q)
<1>1. Types /\ heap \in Heaps /\ q \in Seq(Requests)
  BY LineIs DEF ManagerInv, Types
<1>2. PICK e : e = Spare(heap)
  OBVIOUS
<1>3. /\ HasSpare(heap) /\ heap' = IncRef(NewEntry(heap, e, "ACTIVE"), e) /\ todo' = Append(todo, Add(s, e))
      /\ issued' = [issued EXCEPT ![s] = "ACTIVE"] /\ issued[s] = "DELETED" /\ ~is_base_servers_added
      /\ bucket_mutex' = bucket_mutex /\ rw_lock' = rw_lock /\ agenda' = agenda
      /\ table' = table /\ global' = global /\ is_base_servers_added' = is_base_servers_added
  BY <1>2 DEF AddBaseServer
<1>4. e \in EntryIds /\ ~heap.entry[e].live /\ e # NoEntry
  BY <1>2, <1>3 DEF HasSpare, Spare, EntryIds, NoEntry
<1>5. PICK h, f, g : h = heap /\ f = NewEntry(heap, e, "ACTIVE") /\ g = heap'
  OBVIOUS
<1>6. /\ f \in Heaps /\ f.entry[e].live /\ f.entry[e].state = "ACTIVE" /\ f.entry[e].setting = global
      /\ \A y \in EntryIds : y # e => f.entry[y] = h.entry[y]
  <2>1. h \in Heaps /\ ~h.entry[e].live /\ f = NewEntry(h, e, "ACTIVE")
    BY <1>1, <1>4, <1>5
  <2> QED
    BY <1>1, <1>4, <2>1, NewEntryIs, NewEntryFields
<1>7. /\ g.entry[e].live /\ \A y \in EntryIds : y # e => g.entry[y] = f.entry[y]
      /\ SteadyFrom(f, g)
  <2>1. g = IncRef(f, e)
    BY <1>3, <1>5
  <2> QED
    BY <1>4, <1>6, <2>1, IncRefIs, SteadyInc
<1>8. heap'.entry[e].state = "ACTIVE" /\ heap'.entry[e].setting = global
  BY <1>4, <1>5, <1>6, <1>7 DEF SteadyFrom
<1>9. \A y \in EntryIds : heap.entry[y].live => y # e /\ heap'.entry[y] = heap.entry[y]
  BY <1>4, <1>5, <1>6, <1>7
<1>10. PICK x : x = Add(s, e)
  OBVIOUS
<1>11. x \in Requests /\ x.op = "add_record" /\ x.server = s /\ x.entry = e
  BY <1>4, <1>10, TaskOf, TaskOp
<1>12. \A r : Own(r) => Own(r)'
  BY <1>3 DEF Own
<1>13. Joins(q, x)
  BY <1>1, <1>3, <1>10, <1>11, <1>12, LineQueue
<1>14. PICK n : Line(n)' /\ \E m : Joined(q, n, m, x)
  BY <1>13 DEF Joins
<1>15. PICK m : Joined(q, n, m, x)
  BY <1>14
<1>16. n \in Seq(Requests)
  BY <1>14, LineIsNext
<1>17. ASSUME NEW r \in Servers, table[r] # NoEntry PROVE table[r] \in EntryIds /\ heap.entry[table[r]].live
  BY <1>1, <1>17 DEF Types, Alive
<1>18. ASSUME NEW j \in DOMAIN q, q[j].op = "add_record" PROVE q[j].entry \in EntryIds /\ heap.entry[q[j].entry].live
  BY <1>1, <1>18, LinePlaces, RequestIs DEF Alive
<1>19. StatesStay(q) /\ SettingsStay(q)
  BY <1>9, <1>17, <1>18 DEF StatesStay, SettingsStay, SameState, SameSetting
<1>20. table[s] = NoEntry /\ \A j \in DOMAIN q : ~IsRecord(q[j], s)
  BY <1>3 DEF Good, Known
<1>21. issued \in [Servers -> States \cup {"ACTIVE", "DELETED"}]
  BY <1>1 DEF Types
<1>22. issued'[s] = "ACTIVE" /\ \A r \in Servers : r # s => issued'[r] = issued[r]
  BY <1>3, <1>21
<1>23. Single(n)'
  <2>1. \A r \in Servers : table[r] # e
    BY <1>4, <1>17
  <2>2. \A j \in DOMAIN q : q[j].op = "add_record" => q[j].server # s /\ q[j].entry # e
    BY <1>4, <1>18, <1>20 DEF IsRecord
  <2> QED
    BY <1>1, <1>3, <1>8, <1>11, <1>15, <1>16, <1>19, <1>20, <2>1, <2>2, SingleJoin DEF Good
<1>24. Distinct'
  BY <1>3 DEF Good, Distinct
<1>25. FirstRound(n)'
  BY <1>1, <1>3, <1>11, <1>15, <1>16, <1>22, FirstRoundJoin DEF Good
<1>26. Known(n)'
  <2>1. IsRecord(x, s) /\ \A r \in Servers : r # s => ~IsRecord(x, r)
    BY <1>11 DEF IsRecord
  <2> QED
    BY <1>1, <1>3, <1>15, <1>16, <1>22, <2>1, KnownJoin DEF Good
<1>27. AddedFirst(n)'
  BY <1>1, <1>3, <1>11, <1>15, <1>16, AddedFirstJoin DEF Good
<1>28. ASSUME NEW k \in Kinds PROVE RenewedFor(n, k)'
  <2>1. ~Stale(x, k)'
    BY <1>3, <1>8, <1>11 DEF Stale
  <2>2. RenewedFor(q, k)
    BY RenewedIs DEF Good
  <2> QED
    BY <1>1, <1>3, <1>15, <1>16, <1>19, <2>1, <2>2, RenewedOther
<1>29. Renewed(n)'
  BY <1>28 DEF Renewed, RenewedFor
<1>30. ASSUME Latest(q), NEW r \in Servers PROVE LatestFor(n, r)'
  <2>1. LatestFor(q, r)
    BY <1>30, LatestIs
  <2>2. CASE r # s
    <3>1. ~IsState(x, r) /\ ~IsRecord(x, r)
      BY <1>11, <2>2 DEF IsState, IsRecord
    <3> QED
      BY <1>1, <1>3, <1>15, <1>16, <1>19, <1>22, <2>1, <2>2, <3>1, LatestOther
  <2>3. CASE r = s
    <3>1. Reports(x, s, issued'[s])
      BY <1>11, <1>22 DEF Reports, IsRecord
    <3>2. \A j \in DOMAIN q : m <= j => Own(q[j])
      BY <1>1, <1>15, <1>16, JoinedPlaces
    <3>3. \A j \in DOMAIN q : q[j].op # "revalidate_server"
      BY <1>3 DEF Good, FirstRound
    <3>4. \A j \in DOMAIN q : m <= j => q[j].op = "revalidate_bucket"
      BY <1>1, <3>2, <3>3, LinePlaces, RequestIs DEF Own
    <3> QED
      BY <1>1, <1>15, <1>16, <2>3, <3>1, <3>4, LatestBy
  <2> QED
    BY <2>2, <2>3
<1>31. Latest(q) => Latest(n)'
  BY <1>30 DEF Latest, LatestFor
<1>32. Turns'
  BY <1>3, TurnsSame
<1> QED
  BY <1>14, <1>23, <1>24, <1>25, <1>26, <1>27, <1>29, <1>31, <1>32 DEF Follows, Good

\* update_server() changes the state of a server that is known.
LEMMA UpdateServerFollows ==
  ASSUME "DELETED" \notin States, ManagerInv, Types', Turns, NEW q, Line(q), Good(q), NEW t \in Threads,
         NEW s \in Servers, NEW st \in States, UpdateServer(t, s, st)
  PROVE  Follows(q)
<1>1. Types /\ q \in Seq(Requests)
  BY LineIs DEF ManagerInv, Types
<1>2. /\ is_base_servers_added /\ Idle(t) /\ t \in Refreshers
      /\ issued' = [issued EXCEPT ![s] = st] /\ LockOrQueue(t, Revalidate(s, st), <<>>)
      /\ rw_lock' = rw_lock /\ table' = table /\ heap' = heap /\ global' = global
      /\ is_base_servers_added' = is_base_servers_added
  BY DEF UpdateServer
<1>3. PICK x : x = Revalidate(s, st)
  OBVIOUS
<1>4. x \in Requests /\ x.op = "revalidate_server" /\ x.server = s /\ x.state = st
  BY <1>3, TaskOf, TaskOp
<1>5. Joins(q, x) /\ Turns'
  <2>1. <<>> \in Seq(Tasks) /\ DOMAIN <<>> = {}
    OBVIOUS
  <2>2. PICK rest \in Seq(Tasks) : rest = <<>> /\ DOMAIN rest = {}
    BY <2>1
  <2>3. Outside(rest) /\ Leaving(t, rest)
    BY <2>2 DEF Outside, Leaving
  <2>4. Takes(t) /\ Calls(t, x)
    BY <1>2, <1>4 DEF Takes, Calls
  <2>5. LockOrQueue(t, x, rest)
    BY <1>2, <1>3, <2>2
  <2> QED
    BY <1>1, <1>2, <1>4, <2>3, <2>4, <2>5, OrderCall
<1>6. PICK n : Line(n)' /\ \E m : Joined(q, n, m, x)
  BY <1>5 DEF Joins
<1>7. PICK m : Joined(q, n, m, x)
  BY <1>6
<1>8. n \in Seq(Requests)
  BY <1>6, LineIsNext
<1>9. StatesStay(q) /\ SettingsStay(q)
  BY <1>2 DEF StatesStay, SettingsStay, SameState, SameSetting
<1>10. issued \in [Servers -> States \cup {"ACTIVE", "DELETED"}]
  BY <1>1 DEF Types
<1>11. issued'[s] = st /\ st # "DELETED" /\ issued[s] # "DELETED" /\ \A r \in Servers : r # s => issued'[r] = issued[r]
  BY <1>2, <1>10 DEF Good, FirstRound
<1>12. Single(n)'
  BY <1>1, <1>2, <1>4, <1>7, <1>8, <1>9, SingleJoin DEF Good
<1>13. Distinct'
  BY <1>2 DEF Good, Distinct
<1>14. FirstRound(n)'
  BY <1>1, <1>2, <1>7, <1>8, <1>11, FirstRoundJoin DEF Good
<1>15. Known(n)'
  <2>1. \A r \in Servers : ~IsRecord(x, r)
    BY <1>4 DEF IsRecord
  <2> QED
    BY <1>1, <1>2, <1>7, <1>8, <1>11, <2>1, KnownJoin DEF Good
<1>16. AddedFirst(n)'
  <2>1. table[s] # NoEntry \/ \E j \in DOMAIN q : IsRecord(q[j], s)
    BY <1>11 DEF Good, Known
  <2> QED
    BY <1>1, <1>2, <1>4, <1>7, <1>8, <2>1, AddedFirstJoin DEF Good
<1>17. ASSUME NEW k \in Kinds PROVE RenewedFor(n, k)'
  <2>1. ~Stale(x, k)'
    BY <1>4 DEF Stale
  <2>2. RenewedFor(q, k)
    BY RenewedIs DEF Good
  <2> QED
    BY <1>1, <1>2, <1>7, <1>8, <1>9, <2>1, <2>2, RenewedOther
<1>18. Renewed(n)'
  BY <1>17 DEF Renewed, RenewedFor
<1>19. ASSUME OneRefresher, Latest(q), NEW r \in Servers PROVE LatestFor(n, r)'
  <2>1. LatestFor(q, r)
    BY <1>19, LatestIs
  <2>2. CASE r # s
    <3>1. ~IsState(x, r) /\ ~IsRecord(x, r)
      BY <1>4, <2>2 DEF IsState, IsRecord
    <3> QED
      BY <1>1, <1>2, <1>7, <1>8, <1>9, <1>11, <2>1, <2>2, <3>1, LatestOther
  <2>3. CASE r = s
    <3>1. Reports(x, s, issued'[s])
      BY <1>4, <1>11 DEF Reports, IsState
    <3>2. \A j \in DOMAIN q : m <= j => Own(q[j])
      BY <1>1, <1>7, <1>8, JoinedPlaces
    <3>3. bucket_mutex \notin Refreshers
      <4>1. SUFFICES ASSUME bucket_mutex \in Refreshers PROVE FALSE
        OBVIOUS
      <4>2. bucket_mutex = t /\ bucket_mutex # NoThread
        BY <1>2, <1>19, <4>1, ManagerAssumption DEF OneRefresher
      <4> QED
        BY <1>1, <1>2, <4>2, HolderBusy
    <3>4. \A j \in DOMAIN q : m <= j => q[j].op = "revalidate_bucket"
      BY <1>1, <3>2, <3>3, LinePlaces, RequestIs DEF Own
    <3> QED
      BY <1>1, <1>7, <1>8, <2>3, <3>1, <3>4, LatestBy
  <2> QED
    BY <2>2, <2>3
<1>20. OneRefresher /\ Latest(q) => Latest(n)'
  BY <1>19 DEF Latest, LatestFor
<1> QED
  BY <1>5, <1>6, <1>12, <1>13, <1>14, <1>15, <1>16, <1>18, <1>20 DEF Follows, Good

\* A new setting is put into the line,
LEMMA QueueSettingFollows ==
  ASSUME Types, Types', Turns, NEW q, Line(q), Good(q), NEW t \in Threads, NEW k \in Kinds, NEW v \in Versions,
         Idle(t), rw_lock = NoThread, rw_lock' = t, global' = [global EXCEPT ![k] = v],
         is_base_servers_added \/ k = "config", LockOrQueue(t, Bucket(k, v), <<EndUpdate(k, v)>>),
         heap'.entry = heap.entry, table' = table, issued' = issued, is_base_servers_added' = is_base_servers_added
  PROVE  Follows(q)
<1>1. q \in Seq(Requests) /\ global \in [Kinds -> Versions]
  BY LineIs DEF Types
<1>2. global'[k] = v /\ \A j \in Kinds : j # k => global'[j] = global[j]
  BY <1>1
<1>3. PICK x : x = Bucket(k, v)
  OBVIOUS
<1>4. x \in Requests /\ x.op = "revalidate_bucket" /\ x.kind = k /\ x.version = v
  BY <1>3, TaskOf, TaskOp
<1>5. Joins(q, x) /\ Turns'
  <2>1. PICK u \in Tasks : u = EndUpdate(k, v) /\ u.op = "end_update"
    BY TaskOf, TaskOp
  <2>2. <<u>> \in Seq(Tasks) /\ Len(<<u>>) = 1 /\ DOMAIN <<u>> = {1} /\ <<u>>[1] = u
    BY <2>1
  <2>3. PICK rest \in Seq(Tasks) : rest = <<u>> /\ Len(rest) = 1 /\ DOMAIN rest = {1} /\ rest[1] = u
    BY <2>2
  <2>4. Outside(rest) /\ Leaving(t, rest)
    BY <2>1, <2>3 DEF Outside, Leaving
  <2>5. Takes(t) /\ Calls(t, x)
    BY <1>4 DEF Takes, Calls
  <2>6. LockOrQueue(t, x, rest)
    BY <1>3, <2>1, <2>3
  <2> QED
    BY <1>4, <2>4, <2>5, <2>6, OrderCall
<1>6. PICK n : Line(n)' /\ \E m : Joined(q, n, m, x)
  BY <1>5 DEF Joins
<1>7. PICK m : Joined(q, n, m, x)
  BY <1>6
<1>8. n \in Seq(Requests)
  BY <1>6, LineIsNext
<1>9. StatesStay(q) /\ SettingsStay(q)
  BY DEF StatesStay, SettingsStay, SameState, SameSetting
<1>10. Single(n)'
  BY <1>1, <1>4, <1>7, <1>8, <1>9, SingleJoin DEF Good
<1>11. Distinct'
  BY DEF Good, Distinct
<1>12. FirstRound(n)'
  BY <1>1, <1>4, <1>7, <1>8, FirstRoundJoin DEF Good
<1>13. Known(n)'
  <2>1. \A r \in Servers : ~IsRecord(x, r)
    BY <1>4 DEF IsRecord
  <2> QED
    BY <1>1, <1>7, <1>8, <2>1, KnownJoin DEF Good
<1>14. AddedFirst(n)'
  BY <1>1, <1>4, <1>7, <1>8, AddedFirstJoin DEF Good
<1>15. ASSUME NEW j \in Kinds PROVE RenewedFor(n, j)'
  <2>1. CASE j # k
    <3>1. ~Stale(x, j)'
      BY <1>4, <2>1 DEF Stale
    <3>2. RenewedFor(q, j)
      BY RenewedIs DEF Good
    <3> QED
      BY <1>1, <1>2, <1>7, <1>8, <1>9, <2>1, <3>1, <3>2, RenewedOther
  <2>2. CASE j = k
    <3>1. Sets(x, k, global'[k])
      BY <1>2, <1>4 DEF Sets
    <3>2. \A i \in DOMAIN q : m <= i => Own(q[i])
      BY <1>1, <1>7, <1>8, JoinedPlaces
    <3>3. \A i \in DOMAIN q : m <= i => q[i].op = "revalidate_server"
      BY <1>1, <3>2, LinePlaces, RequestIs DEF Own
    <3> QED
      BY <1>1, <1>7, <1>8, <2>2, <3>1, <3>3, RenewedBy
  <2> QED
    BY <2>1, <2>2
<1>16. Renewed(n)'
  BY <1>15 DEF Renewed, RenewedFor
<1>17. ASSUME Latest(q), NEW r \in Servers PROVE LatestFor(n, r)'
  <2>1. LatestFor(q, r)
    BY <1>17, LatestIs
  <2>2. ~IsState(x, r) /\ ~IsRecord(x, r)
    BY <1>4 DEF IsState, IsRecord
  <2> QED
    BY <1>1, <1>7, <1>8, <1>9, <2>1, <2>2, LatestOther
<1>18. Latest(q) => Latest(n)'
  BY <1>17 DEF Latest, LatestFor
<1> QED
  BY <1>5, <1>6, <1>10, <1>11, <1>12, <1>13, <1>14, <1>16, <1>18 DEF Follows, Good

\* or is there before the first server is.
LEMMA FirstSettingFollows ==
  ASSUME Types, Turns, NEW q, Line(q), Good(q), NEW v \in Versions,
         \A s \in Servers : issued[s] = "DELETED", ~is_base_servers_added,
         global' = [global EXCEPT !["zone"] = v], heap'.entry = heap.entry, table' = table,
         issued' = issued, is_base_servers_added' = is_base_servers_added, rw_lock' = rw_lock,
         bucket_mutex' = bucket_mutex, todo' = todo, agenda' = agenda
  PROVE  Follows(q)
<1>1. q \in Seq(Requests) /\ global \in [Kinds -> Versions]
  BY LineIs DEF Types
<1>2. \A j \in Kinds : j # "zone" => global'[j] = global[j]
  BY <1>1
<1>3. \A r : Own(r) => Own(r)'
  BY DEF Own
<1>4. Line(q)'
  BY <1>3, LineSame
<1>5. Turns'
  BY TurnsSame
<1>6. Single(q)' /\ Distinct'
  BY DEF Good, Single, Distinct
<1>7. FirstRound(q)' /\ Known(q)' /\ AddedFirst(q)'
  BY DEF Good, FirstRound, Known, AddedFirst, IsRecord
<1>8. \A s \in Servers : table[s] = NoEntry
  BY DEF Good, Known
<1>9. ASSUME NEW i \in DOMAIN q PROVE q[i].op # "add_record" /\ (q[i].op = "revalidate_bucket" => q[i].kind # "zone")
  <2>1. q[i].op # "add_record"
    <3>1. ASSUME q[i].op = "add_record" PROVE q[i].server \in Servers
      BY <1>1, <3>1, LinePlaces, RequestIs
    <3> QED
      BY <3>1 DEF Good, Known, IsRecord
  <2> QED
    BY <2>1 DEF Good, FirstRound
<1>10. ASSUME NEW k \in Kinds PROVE RenewedFor(q, k)'
  <2>1. RenewedFor(q, k)
    BY RenewedIs DEF Good
  <2>2. CASE k = "zone"
    BY <1>8, <1>9, <2>2 DEF RenewedFor, Stale
  <2>3. CASE k # "zone"
    <3>1. global'[k] = global[k]
      BY <1>2, <2>3
    <3> QED
      BY <1>8, <2>1, <3>1 DEF RenewedFor, Stale, Sets
  <2> QED
    BY <2>2, <2>3
<1>11. Renewed(q)'
  BY <1>10 DEF Renewed, RenewedFor
<1>12. Latest(q) => Latest(q)'
  BY DEF Latest, Reports, Last, IsState, IsRecord
<1> QED
  BY <1>4, <1>5, <1>6, <1>7, <1>11, <1>12 DEF Follows, Good

\* A configuration or a zone is replaced.
LEMMA UpdateSettingFollows ==
  ASSUME ManagerInv, Types', Turns, NEW q, Line(q), Good(q), NEW t \in Threads, NEW k \in Kinds,
         UpdateSetting(t, k)
  PROVE  Follows(q)
<1>1. Types /\ heap \in Heaps /\ global \in [Kinds -> Versions]
  BY DEF ManagerInv, Types
<1>2. PICK o, v : o = global[k] /\ v = global[k] + 1
  OBVIOUS
<1>3. /\ Idle(t) /\ rw_lock = NoThread /\ o \in Versions /\ v \in Versions /\ global' = [global EXCEPT ![k] = v]
      /\ table' = table /\ is_base_servers_added' = is_base_servers_added /\ issued' = issued
  BY <1>1, <1>2 DEF UpdateSetting
<1>4. PICK h, g, f : h = heap /\ g = Replaces(heap, k, o, v) /\ f = heap'
  OBVIOUS
<1>5. \/ /\ is_base_servers_added \/ k = "config"
         /\ rw_lock' = t /\ f = GetSetting(g, k, v)
         /\ LockOrQueue(t, Bucket(k, v), <<EndUpdate(k, v)>>)
      \/ /\ ~is_base_servers_added /\ k = "zone" /\ \A s \in Servers : issued[s] = "DELETED"
         /\ f = PutSetting(g, k, v) /\ UNCHANGED <<rw_lock, bucket_mutex, todo, agenda>>
  BY <1>2, <1>4 DEF UpdateSetting, Replaces
<1>6. g \in Heaps /\ g.entry = h.entry
  BY <1>1, <1>3, <1>4, ReplacesIs
<1>7. f.entry = g.entry
  BY <1>3, <1>5, <1>6, GetIs, PutIs
<1>8. heap'.entry = heap.entry
  BY <1>4, <1>6, <1>7
<1>9. CASE /\ is_base_servers_added \/ k = "config"
           /\ rw_lock' = t
           /\ LockOrQueue(t, Bucket(k, v), <<EndUpdate(k, v)>>)
  BY <1>1, <1>3, <1>8, <1>9, QueueSettingFollows
<1>10. CASE /\ ~is_base_servers_added /\ k = "zone" /\ \A s \in Servers : issued[s] = "DELETED"
            /\ UNCHANGED <<rw_lock, bucket_mutex, todo, agenda>>
  BY <1>1, <1>3, <1>8, <1>10, FirstSettingFollows
<1> QED
  BY <1>5, <1>9, <1>10

\* The inductive invariant of the order: with the latest states, if one
\* thread reports them all.
InOrder == is_inited => Turns /\ \E q : Line(q) /\ Good(q) /\ (OneRefresher => Latest(q))

\* Nothing is queued and no server known at first.
LEMMA InitInOrder ==
  ASSUME Init
  PROVE  InOrder
<1>1. /\ bucket_mutex = NoThread /\ todo = <<>> /\ agenda = [t \in Threads |-> <<>>]
      /\ table = [s \in Servers |-> NoEntry] /\ is_base_servers_added = FALSE
      /\ issued = [s \in Servers |-> "DELETED"]
  BY DEF Init
<1>2. PICK q : q = <<>> /\ DOMAIN q = {}
  OBVIOUS
<1>3. Line(q)
  BY <1>1, <1>2 DEF Line
<1>4. \A t \in Threads : agenda[t] = q
  BY <1>1, <1>2
<1>5. Turns
  BY <1>2, <1>4 DEF Turns, Outside
<1>6. (\A s \in Servers : table[s] = NoEntry) /\ \A s \in Servers : issued[s] = "DELETED"
  BY <1>1
<1>7. Single(q) /\ Distinct /\ FirstRound(q)
  BY <1>1, <1>2, <1>6 DEF Single, Distinct, FirstRound
<1>8. Known(q) /\ AddedFirst(q) /\ Renewed(q)
  BY <1>2, <1>6 DEF Known, AddedFirst, Renewed
<1>9. Latest(q)
  BY <1>6 DEF Latest
<1> QED
  BY <1>3, <1>5, <1>7, <1>8, <1>9 DEF InOrder, Good

\* Every step until destroy() leaves the requests in order.
LEMMA NextFollows ==
  ASSUME "DELETED" \notin States, BaseServers = Servers, ManagerInv, ManagerInv', Alive, Alive', Turns,
         NEW q, Line(q), Good(q), [Next]_vars, is_inited'
  PROVE  Follows(q)
<1>1. Types /\ Types'
  BY DEF ManagerInv
<1>2. CASE SetBaseServersAdded
  BY <1>2, SetBaseServersAddedFollows
<1>3. ASSUME NEW t \in Threads, TaskStep(t) PROVE Follows(q)
  BY <1>3, TaskStepFollows
<1>4. ASSUME NEW t \in Threads, NEW s \in Servers, AddBaseServer(t, s) PROVE Follows(q)
  BY <1>1, <1>4, AddBaseServerFollows
<1>5. ASSUME NEW t \in Threads, NEW s \in Servers, NEW st \in States, UpdateServer(t, s, st) PROVE Follows(q)
  BY <1>1, <1>5, UpdateServerFollows
<1>6. ASSUME NEW t \in Threads, NEW k \in Kinds, UpdateSetting(t, k) PROVE Follows(q)
  BY <1>1, <1>6, UpdateSettingFollows
<1>7. ASSUME NEW t \in Threads, LookupDisabled(t) \/ CancelLookup(t) PROVE Follows(q)
  BY <1>1, <1>7, PlainCallsFollow
<1>8. ASSUME NEW t \in Threads, NEW s \in Servers, LookupInCache(t, s) \/ CleanCache(t, s) PROVE Follows(q)
  BY <1>1, <1>8, CachedCallsFollow
<1>9. ASSUME NEW t \in Threads, NEW s \in Servers, LookupInTable(t, s) PROVE Follows(q)
  BY <1>1, <1>9, LookupInTableFollows
<1>10. ASSUME NEW t \in Threads, RetryLookup(t) PROVE Follows(q)
  BY <1>1, <1>10, RetryLookupFollows
<1>11. ASSUME NEW t \in Threads, ReleaseEntry(t) PROVE Follows(q)
  BY <1>1, <1>11, ReleaseEntryFollows
<1>12. ASSUME NEW t \in Threads, ShowCongestion(t) PROVE Follows(q)
  BY <1>1, <1>12, ShowCongestionFollows
<1>13. ASSUME NEW t \in Threads PROVE ~Destroy(t)
  BY DEF Destroy
<1>14. CASE UNCHANGED vars
  <2>1. /\ agenda' = agenda /\ todo' = todo /\ bucket_mutex' = bucket_mutex
        /\ rw_lock' = rw_lock /\ table' = table /\ global' = global /\ issued' = issued /\ heap' = heap
        /\ is_base_servers_added' = is_base_servers_added
    BY <1>14 DEF vars
  <2>2. SteadyFrom(heap, heap')
    BY <2>1, SteadyEntries
  <2> QED
    BY <1>1, <2>1, <2>2, IdleFollows
<1> QED
  BY <1>2, <1>3, <1>4, <1>5, <1>6, <1>7, <1>8, <1>9, <1>10, <1>11, <1>12, <1>13, <1>14 DEF Next

\* The manager is not started again.
LEMMA StaysDestroyed ==
  ASSUME [Next]_vars, is_inited'
  PROVE  is_inited
<1>1. ASSUME NEW t \in Threads, TaskStep(t) PROVE is_inited' = is_inited
  BY <1>1 DEF TaskStep, RunTodoList, ReleaseBucket, SetServerState, RemoveServer, AddNewServer,
              SkipDeletedServer, InsertEntry, SetEntryDeletedState, DropEntry, RemoveAllEntries,
              RevalidateBucket, DropSetting, ReturnFromUpdate, LookupEntry, unsharedVars
<1>2. SetBaseServersAdded => is_inited' = is_inited
  BY DEF SetBaseServersAdded
<1>3. ASSUME NEW t \in Threads, NEW s \in Servers PROVE AddBaseServer(t, s) => is_inited' = is_inited
  BY DEF AddBaseServer
<1>4. ASSUME NEW t \in Threads, NEW s \in Servers, NEW st \in States
      PROVE  UpdateServer(t, s, st) => is_inited' = is_inited
  BY DEF UpdateServer
<1>5. ASSUME NEW t \in Threads, NEW k \in Kinds PROVE UpdateSetting(t, k) => is_inited' = is_inited
  BY DEF UpdateSetting
<1>6. ASSUME NEW t \in Threads, NEW s \in Servers
      PROVE  /\ LookupInCache(t, s) => is_inited' = is_inited
             /\ LookupInTable(t, s) => is_inited' = is_inited
             /\ CleanCache(t, s) => is_inited' = is_inited
  BY DEF LookupInCache, LookupInTable, CleanCache
<1>7. ASSUME NEW t \in Threads
      PROVE  /\ LookupDisabled(t) => is_inited' = is_inited
             /\ RetryLookup(t) => is_inited' = is_inited
             /\ CancelLookup(t) => is_inited' = is_inited
             /\ ReleaseEntry(t) => is_inited' = is_inited
             /\ ShowCongestion(t) => is_inited' = is_inited
  BY DEF LookupDisabled, RetryLookup, CancelLookup, ReleaseEntry, ShowCongestion
<1>8. ASSUME NEW t \in Threads PROVE Destroy(t) => is_inited
  BY DEF Destroy
<1>9. UNCHANGED vars => is_inited' = is_inited
  BY DEF vars
<1> QED
  BY <1>1, <1>2, <1>3, <1>4, <1>5, <1>6, <1>7, <1>8, <1>9 DEF Next

\* So the invariant is inductive.
LEMMA NextInOrder ==
  ASSUME "DELETED" \notin States, BaseServers = Servers, ManagerInv, ManagerInv', Alive, Alive',
         InOrder, [Next]_vars
  PROVE  InOrder'
<1>1. SUFFICES ASSUME is_inited'
               PROVE  Turns' /\ \E n : Line(n)' /\ Good(n)' /\ (OneRefresher => Latest(n)')
  BY DEF InOrder, OneRefresher
<1>2. is_inited
  BY <1>1, StaysDestroyed
<1>3. PICK q : Line(q) /\ Good(q) /\ (OneRefresher => Latest(q))
  BY <1>2 DEF InOrder
<1>4. Turns
  BY <1>2 DEF InOrder
<1>5. Follows(q)
  BY <1>1, <1>3, <1>4, NextFollows
<1> QED
  BY <1>3, <1>5 DEF Follows

\* When nothing is left to do, the line is empty.
LEMMA QuietLine ==
  ASSUME Types, Quiet, NEW q, Line(q)
  PROVE  q = <<>>
<1>1. bucket_mutex = NoThread
  BY HolderBusy DEF Quiet
<1> QED
  BY <1>1 DEF Line, Quiet

\* With an empty line no entry has an old setting,
LEMMA QuietSettings ==
  ASSUME ManagerInv, InOrder
  PROVE  SettingsCurrent
<1>1. SUFFICES ASSUME Quiet, NEW s \in Servers, table[s] # NoEntry PROVE heap.entry[table[s]].setting = global
  BY DEF SettingsCurrent
<1>2. Types /\ heap \in Heaps /\ global \in [Kinds -> Versions]
  BY DEF ManagerInv, Types
<1>3. PICK q : Line(q) /\ Good(q)
  BY <1>1 DEF InOrder, Quiet
<1>4. q = <<>>
  BY <1>1, <1>2, <1>3, QuietLine
<1>5. DOMAIN q = {}
  BY <1>4
<1>6. \A k \in Kinds : heap.entry[table[s]].setting[k] = global[k]
  BY <1>1, <1>3, <1>5 DEF Good, Renewed
<1>7. heap.entry[table[s]].setting \in [Kinds -> Versions]
  <2>1. Alive
    BY InvAlive
  <2>2. table[s] \in EntryIds /\ heap.entry[table[s]].live
    BY <1>1, <1>2, <2>1 DEF Types, Alive
  <2> QED
    BY <1>2, <2>2, EntryIs
<1> QED
  BY <1>2, <1>6, <1>7

\* and every server has its latest state.
LEMMA QuietStates ==
  ASSUME ManagerInv, InOrder, OneRefresher
  PROVE  LastUpdateWins
<1>1. SUFFICES ASSUME Quiet, NEW s \in Servers
               PROVE  IF issued[s] = "DELETED" THEN table[s] = NoEntry
                      ELSE table[s] # NoEntry /\ heap.entry[table[s]].state = issued[s]
  BY DEF LastUpdateWins
<1>2. Types
  BY DEF ManagerInv
<1>3. PICK q : Line(q) /\ Good(q) /\ Latest(q)
  BY <1>1 DEF InOrder, Quiet
<1>4. q = <<>>
  BY <1>1, <1>2, <1>3, QuietLine
<1>5. DOMAIN q = {}
  BY <1>4
<1>6. CASE issued[s] = "DELETED"
  BY <1>3, <1>6 DEF Good, Known
<1>7. CASE issued[s] # "DELETED"
  BY <1>3, <1>5, <1>7 DEF Latest
<1> QED
  BY <1>6, <1>7

\* Every server is reported in the first round and none is given up.  Then no
\* request makes an entry: add_new_server(), which does, runs the todo list
\* from inside, and newer requests overtake the one that is being run.
ServersStay == "DELETED" \notin States /\ BaseServers = Servers

(***************************************************************************)
(* Requests are run in one line: what the holder of the mutex has taken    *)
(* over, the todo list and the holder's own request say together how the   *)
(* table is going to look (run_todo_list(), process()).  For any number of *)
(* threads, servers, entries and versions, if the servers stay.            *)
(***************************************************************************)
THEOREM RequestsInOrder ==
  ASSUME ServersStay
  PROVE  Spec => []InOrder
<1>1. Init => InOrder
  BY InitInOrder
<1>2. ManagerInv => Alive
  BY InvAlive
<1>3. ManagerInv /\ ManagerInv' /\ Alive /\ Alive' /\ InOrder /\ [Next]_vars => InOrder'
  BY NextInOrder DEF ServersStay
<1>4. Spec => []ManagerInv
  BY ManagerInvariant
<1> QED
  BY <1>1, <1>2, <1>3, <1>4, PTL DEF Spec

(***************************************************************************)
(* update_congestion_config() and update_zone() reach every entry: when    *)
(* nothing is queued or under way, each entry of the table has the         *)
(* configuration and the zone state the manager has, whichever threads     *)
(* replaced them and whoever ran the requests, if the servers stay.        *)
(***************************************************************************)
THEOREM SettingsArrive ==
  ASSUME ServersStay
  PROVE  Spec => []SettingsCurrent
<1>1. ManagerInv /\ InOrder => SettingsCurrent
  BY QuietSettings
<1> QED
  BY <1>1, ManagerInvariant, RequestsInOrder, PTL

(***************************************************************************)
(* The state that update_server() was called with last wins, if the        *)
(* servers stay and one thread makes these calls: when nothing is queued   *)
(* or under way, each server's entry has it, although the requests were    *)
(* run by several threads.                                                 *)
(***************************************************************************)
THEOREM LatestStateWins ==
  ASSUME ServersStay, OneRefresher
  PROVE  Spec => []LastUpdateWins
<1>1. ManagerInv /\ InOrder => LastUpdateWins
  BY QuietStates
<1> QED
  BY <1>1, ManagerInvariant, RequestsInOrder, PTL
================================================================================
