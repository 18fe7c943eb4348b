--------------------------- MODULE TableRouteLemmas ----------------------------
(***************************************************************************)
(* Facts about counting that the proofs about route entries need (how      *)
(* often an entry occurs in a list of references, how many holders point   *)
(* to it, what is left of the pool of entries), the parts of the invariant *)
(* that the lookup of a route entry keeps, and what each kind of step does *)
(* to them: moving one continuation, taking the lock of the bucket,        *)
(* calling back, giving and dropping references.                           *)
(***************************************************************************)
EXTENDS TableRoute, FiniteSetTheorems, SequenceTheorems, TLAPS

\* One if x is the entry e.
Is(x, e) == IF x = e THEN 1 ELSE 0

(***************************************************************************)
(* Occurrences in a sequence                                               *)
(***************************************************************************)

\* A sequence holds any entry a finite number of times.
LEMMA CountNat ==
  ASSUME NEW T, NEW s \in Seq(T), NEW e
  PROVE  /\ IsFiniteSet({i \in DOMAIN s : s[i] = e})
         /\ Count(e, s) \in Nat
<1>1. IsFiniteSet(DOMAIN s)
  <2>1. DOMAIN s = 1..Len(s) /\ Len(s) \in Int
    BY LenProperties
  <2> QED
    BY <2>1, FS_Interval
<1>2. IsFiniteSet({i \in DOMAIN s : s[i] = e})
  BY <1>1, FS_Subset
<1> QED
  BY <1>2, FS_CardinalityType DEF Count

\* The empty sequence holds nothing.
LEMMA CountEmpty == \A e : Count(e, <<>>) = 0
<1> SUFFICES ASSUME NEW e PROVE Count(e, <<>>) = 0
  OBVIOUS
<1>1. {i \in DOMAIN <<>> : <<>>[i] = e} = {}
  OBVIOUS
<1> QED
  BY <1>1, FS_EmptySet DEF Count

\* A sequence of one holds its member once.
LEMMA CountOne ==
  ASSUME NEW x, NEW e
  PROVE  Count(e, <<x>>) = Is(x, e)
<1>1. DOMAIN <<x>> = {1} /\ <<x>>[1] = x
  OBVIOUS
<1>2. CASE x = e
  <2>1. {i \in DOMAIN <<x>> : <<x>>[i] = e} = {1}
    BY <1>1, <1>2
  <2> QED
    BY <1>2, <2>1, FS_Singleton DEF Count, Is
<1>3. CASE x # e
  <2>1. {i \in DOMAIN <<x>> : <<x>>[i] = e} = {}
    BY <1>1, <1>3
  <2> QED
    BY <1>3, <2>1, FS_EmptySet DEF Count, Is
<1> QED
  BY <1>2, <1>3

\* Occurrences add up when two lists are joined.
LEMMA CountConcat ==
  ASSUME NEW T, NEW s \in Seq(T), NEW t \in Seq(T), NEW e
  PROVE  Count(e, s \o t) = Count(e, s) + Count(e, t)
<1> DEFINE n == Len(s)
           A == {i \in DOMAIN s : s[i] = e}
           B == {i \in DOMAIN t : t[i] = e}
           C == {i \in DOMAIN (s \o t) : (s \o t)[i] = e}
           D == {i \in (n + 1)..(n + Len(t)) : t[i - n] = e}
           f == [i \in B |-> i + n]
<1>1. n \in Nat /\ Len(t) \in Nat /\ DOMAIN s = 1..n /\ DOMAIN t = 1..Len(t)
  BY LenProperties
<1>2. /\ DOMAIN (s \o t) = 1..(n + Len(t))
      /\ \A i \in 1..(n + Len(t)) : (s \o t)[i] = IF i <= n THEN s[i] ELSE t[i - n]
  <2>1. s \o t \in Seq(T) /\ Len(s \o t) = n + Len(t)
    BY ConcatProperties
  <2>2. DOMAIN (s \o t) = 1..Len(s \o t)
    BY <2>1, LenProperties
  <2>3. \A i \in 1..(n + Len(t)) : (s \o t)[i] = IF i <= n THEN s[i] ELSE t[i - n]
    BY ConcatProperties
  <2> QED
    BY <2>1, <2>2, <2>3
<1>3. C = A \cup D
  <2>1. ASSUME NEW i \in C PROVE i \in A \cup D
    BY <1>1, <1>2
  <2>2. ASSUME NEW i \in A PROVE i \in C
    BY <1>1, <1>2
  <2>3. ASSUME NEW i \in D PROVE i \in C
    BY <1>1, <1>2
  <2> QED
    BY <2>1, <2>2, <2>3
<1>4. A \cap D = {}
  BY <1>1
<1>5. ExistsBijection(B, D)
  <2>1. f \in [B -> D]
    BY <1>1
  <2>2. \A a, b \in B : f[a] = f[b] => a = b
    BY <1>1
  <2>3. \A d \in D : \E b \in B : f[b] = d
    <3> SUFFICES ASSUME NEW d \in D PROVE \E b \in B : f[b] = d
      OBVIOUS
    <3>1. d - n \in B /\ (d - n) + n = d
      BY <1>1
    <3>2. f[d - n] = d
      BY <3>1
    <3> QED
      BY <3>1, <3>2
  <2> HIDE DEF f
  <2>4. f \in Injection(B, D)
    BY <2>1, <2>2 DEF Injection, IsInjective
  <2>5. f \in Surjection(B, D)
    BY <2>1, <2>3 DEF Surjection
  <2> QED
    BY <2>4, <2>5 DEF ExistsBijection, Bijection
<1>6. IsFiniteSet(A) /\ IsFiniteSet(B)
  BY CountNat
<1>7. IsFiniteSet(D) /\ Cardinality(D) = Cardinality(B)
  BY <1>5, <1>6, FS_Bijection
<1> HIDE DEF A, B, C, D, n
<1>8. Cardinality(C) = Cardinality(A) + Cardinality(D) - 0
  BY <1>3, <1>4, <1>6, <1>7, FS_Union, FS_EmptySet
<1>9. Cardinality(A) \in Nat /\ Cardinality(B) \in Nat
  BY <1>6, FS_CardinalityType
<1>10. Cardinality(C) = Cardinality(A) + Cardinality(B)
  BY <1>7, <1>8, <1>9
<1> QED
  BY <1>10 DEF Count, A, B, C

\* Appending adds one occurrence.
LEMMA CountAppend ==
  ASSUME NEW T, NEW s \in Seq(T), NEW x \in T, NEW e
  PROVE  Count(e, Append(s, x)) = Count(e, s) + Is(x, e)
<1>1. Append(s, x) = s \o <<x>> /\ <<x>> \in Seq(T)
  BY AppendIsConcat
<1> QED
  BY <1>1, CountConcat, CountOne

\* What is not in a sequence does not occur in it, and the other way round.
LEMMA CountZero ==
  ASSUME NEW T, NEW s \in Seq(T), NEW e
  PROVE  Count(e, s) = 0 <=> e \notin Range(s)
<1> DEFINE A == {i \in DOMAIN s : s[i] = e}
<1>1. A = {} <=> e \notin Range(s)
  BY DEF Range
<1>2. IsFiniteSet(A) /\ Count(e, s) = Cardinality(A)
  BY CountNat DEF Count
<1> HIDE DEF A
<1> QED
  BY <1>1, <1>2, FS_EmptySet

\* What a list without duplicates holds, it holds once.
LEMMA CountOnce ==
  ASSUME NEW T, NEW s \in Seq(T), NEW e \in Range(s),
         \A i, j \in DOMAIN s : s[i] = s[j] => i = j
  PROVE  Count(e, s) = 1
<1>1. PICK i \in DOMAIN s : s[i] = e
  BY DEF Range
<1>2. {j \in DOMAIN s : s[j] = e} = {i}
  BY <1>1
<1> QED
  BY <1>2, FS_Singleton DEF Count

(***************************************************************************)
(* Holders among callers or continuations                                  *)
(***************************************************************************)

\* How many of the holders S point to e by f.
At(f, S, e) == Cardinality({j \in S : f[j] = e})

\* The number of holders is natural, and zero when nobody holds e.
LEMMA AtNat ==
  ASSUME NEW S, IsFiniteSet(S), NEW f, NEW e
  PROVE  /\ At(f, S, e) \in Nat
         /\ At(f, S, e) = 0 <=> \A j \in S : f[j] # e
<1>1. IsFiniteSet({j \in S : f[j] = e})
  BY FS_Subset
<1> QED
  BY <1>1, FS_CardinalityType, FS_EmptySet DEF At

\* When one holder changes its pointer, the old target loses one and the
\* new one gains one.
LEMMA AtExcept ==
  ASSUME NEW S, IsFiniteSet(S), NEW f, NEW g, NEW k \in S, NEW x, NEW e,
         \A j \in S : g[j] = IF j = k THEN x ELSE f[j]
  PROVE  At(g, S, e) = At(f, S, e) + Is(x, e) - Is(f[k], e)
<1> DEFINE F == {j \in S : f[j] = e}
           G == {j \in S : g[j] = e}
           R == {j \in S : j # k /\ f[j] = e}
<1>1. IsFiniteSet(R) /\ k \notin R
  BY FS_Subset
<1>2. Cardinality(R) \in Nat
  BY <1>1, FS_CardinalityType
<1>6. f[k] = e => F = R \cup {k}
  OBVIOUS
<1>7. f[k] # e => F = R
  OBVIOUS
<1>8. x = e => G = R \cup {k}
  OBVIOUS
<1>9. x # e => G = R
  OBVIOUS
<1>5. At(g, S, e) = Cardinality(G) /\ At(f, S, e) = Cardinality(F)
  BY DEF At
<1> HIDE DEF F, G, R
<1>3. Cardinality(F) = Cardinality(R) + Is(f[k], e)
  BY <1>1, <1>2, <1>6, <1>7, FS_AddElement DEF Is
<1>4. Cardinality(G) = Cardinality(R) + Is(x, e)
  BY <1>1, <1>2, <1>8, <1>9, FS_AddElement DEF Is
<1> QED
  BY <1>2, <1>3, <1>4, <1>5 DEF Is

(***************************************************************************)
(* The pool of entries                                                     *)
(***************************************************************************)

\* The continuations that wait for the lock of the bucket, each of which may
\* still need an unused entry.
Waiting == {c \in Conts : cont[c].pc = "cache"}

\* The unused entries and the waiting continuations are finite sets.
LEMMA PoolFinite ==
  /\ IsFiniteSet(Fresh) /\ Cardinality(Fresh) \in Nat
  /\ IsFiniteSet(Waiting) /\ Cardinality(Waiting) \in Nat
  /\ Fresh \subseteq Entries
<1>1. Fresh \subseteq Entries /\ Waiting \subseteq Conts
  BY DEF Fresh, Waiting
<1>2. IsFiniteSet(Fresh) /\ IsFiniteSet(Waiting)
  BY <1>1, FS_Subset, RouteAssumption
<1> QED
  BY <1>1, <1>2, FS_CardinalityType

\* Memory is handed out while there is some.
LEMMA NewIsFresh ==
  ASSUME Fresh # {}
  PROVE  NewEntry \in Fresh /\ NewEntry \in Entries
<1>1. \E e \in Entries : e \in Fresh
  BY PoolFinite
<1> QED
  BY <1>1 DEF NewEntry

\* A spare entry is one that nobody uses.
LEMMA SpareIsFresh ==
  ASSUME Spare
  PROVE  NewEntry \in Fresh /\ NewEntry \in Entries
<1>1. Cardinality(Fresh) > Cardinality(Waiting)
  BY DEF Spare, Waiting
<1>2. Fresh # {}
  BY <1>1, PoolFinite, FS_EmptySet
<1> QED
  BY <1>2, NewIsFresh

\* Whoever waits for the lock finds an unused entry when its turn comes.
LEMMA ReservedIsFresh ==
  ASSUME Cardinality(Waiting) <= Cardinality(Fresh), NEW c \in Waiting
  PROVE  NewEntry \in Fresh /\ NewEntry \in Entries
<1>1. Cardinality(Waiting) # 0
  BY PoolFinite, FS_EmptySet
<1>2. Fresh # {}
  BY <1>1, PoolFinite, FS_EmptySet
<1> QED
  BY <1>2, NewIsFresh

\* Nobody points to fresh memory.
LEMMA FreshUnknown ==
  ASSUME NEW e \in Fresh, DOMAIN tc = Callers, DOMAIN got = Callers
  PROVE  /\ e \in Entries /\ refs[e] = 0
         /\ e # cache /\ e \notin Range(todo)
         /\ \A k \in Callers : tc[k] # e /\ got[k] # e
         /\ \A c \in Conts : cont[c].ent # e /\ cont[c].newest # e
BY DEF Fresh, Pointers, Range

\* One more waits, or one entry less is left: what either does to the reserve.
LEMMA PoolLess ==
  ASSUME NEW F, NEW G, NEW b, IsFiniteSet(F), IsFiniteSet(G), F \ {b} \subseteq G
  PROVE  Cardinality(F) \in Nat /\ Cardinality(G) \in Nat /\ Cardinality(F) <= Cardinality(G) + 1
<1>0. Cardinality(F) \in Nat /\ Cardinality(G) \in Nat
  BY FS_CardinalityType
<1>1. Cardinality(F \ {b}) <= Cardinality(G)
  BY FS_Subset
<1>2. Cardinality(F \ {b}) = IF b \in F THEN Cardinality(F) - 1 ELSE Cardinality(F)
  BY FS_RemoveElement
<1> QED
  BY <1>0, <1>1, <1>2

\* A set that loses a member is smaller.
LEMMA PoolOneLess ==
  ASSUME NEW V, NEW W, NEW c, IsFiniteSet(V), IsFiniteSet(W), c \in V, W \subseteq V \ {c}
  PROVE  Cardinality(V) \in Nat /\ Cardinality(W) \in Nat /\ Cardinality(W) <= Cardinality(V) - 1
<1>1. IsFiniteSet(V \ {c}) /\ Cardinality(V \ {c}) = Cardinality(V) - 1
  BY FS_RemoveElement
<1>2. Cardinality(W) <= Cardinality(V \ {c})
  BY <1>1, FS_Subset
<1>3. Cardinality(W) \in Nat /\ Cardinality(V) \in Nat
  BY FS_CardinalityType
<1> QED
  BY <1>1, <1>2, <1>3

\* The reserve lasts when a step takes one entry and there was one to spare.
LEMMA PoolSpared ==
  ASSUME NEW F, NEW G, NEW V, NEW W, NEW b,
         IsFiniteSet(F), IsFiniteSet(G), IsFiniteSet(V), IsFiniteSet(W),
         Cardinality(V) < Cardinality(F), F \ {b} \subseteq G, W \subseteq V
  PROVE  Cardinality(W) <= Cardinality(G)
<1>1. Cardinality(F) \in Nat /\ Cardinality(G) \in Nat /\ Cardinality(F) <= Cardinality(G) + 1
  BY PoolLess
<1>2. Cardinality(W) <= Cardinality(V)
  BY FS_Subset
<1>3. Cardinality(W) \in Nat /\ Cardinality(V) \in Nat
  BY FS_CardinalityType
<1> QED
  BY <1>1, <1>2, <1>3

\* The reserve lasts when one continuation joins those that wait and there
\* was an entry to spare.
LEMMA PoolJoined ==
  ASSUME NEW F, NEW G, NEW V, NEW W, NEW c,
         IsFiniteSet(F), IsFiniteSet(G), IsFiniteSet(V), IsFiniteSet(W),
         Cardinality(V) < Cardinality(F), F \subseteq G, W \subseteq V \cup {c}
  PROVE  Cardinality(W) <= Cardinality(G)
<1>1. Cardinality(F) <= Cardinality(G)
  BY FS_Subset
<1>2. IsFiniteSet(V \cup {c}) /\ Cardinality(V \cup {c}) <= Cardinality(V) + 1
  <2>1. IsFiniteSet(V \cup {c}) /\ Cardinality(V) \in Nat
    BY FS_AddElement, FS_CardinalityType
  <2>2. Cardinality(V \cup {c}) = IF c \in V THEN Cardinality(V) ELSE Cardinality(V) + 1
    BY FS_AddElement
  <2> QED
    BY <2>1, <2>2
<1>3. Cardinality(W) <= Cardinality(V \cup {c})
  BY <1>2, FS_Subset
<1>4. Cardinality(W) \in Nat /\ Cardinality(V) \in Nat /\ Cardinality(F) \in Nat /\ Cardinality(G) \in Nat
      /\ Cardinality(V \cup {c}) \in Nat
  BY <1>2, FS_CardinalityType
<1> QED
  BY <1>1, <1>2, <1>3, <1>4

\* The reserve lasts when no entry is taken and nobody joins.
LEMMA PoolKept ==
  ASSUME NEW F, NEW G, NEW V, NEW W,
         IsFiniteSet(F), IsFiniteSet(G), IsFiniteSet(V), IsFiniteSet(W),
         Cardinality(V) <= Cardinality(F), F \subseteq G, W \subseteq V
  PROVE  Cardinality(W) <= Cardinality(G)
<1>1. Cardinality(F) <= Cardinality(G) /\ Cardinality(W) <= Cardinality(V)
  BY FS_Subset
<1>2. Cardinality(W) \in Nat /\ Cardinality(V) \in Nat /\ Cardinality(F) \in Nat /\ Cardinality(G) \in Nat
  BY FS_CardinalityType
<1> QED
  BY <1>1, <1>2

-----------------------------------------------------------------------------
\* A continuation as the handlers leave it.
Shaped(r) ==
  /\ r.pc = "free" => r.who = None /\ r.op = "none" /\ r.stage = "table"
                      /\ r.ent = None /\ r.newest = None /\ ~r.notify /\ ~r.cancelled
  /\ r.pc # "free" => r.who \in Callers
  /\ r.pc \in {"cache", "queued", "notify"} <=> r.op = "none" /\ r.pc # "free"
  /\ r.pc \in {"replace", "chain"} => r.op = "build"
  /\ r.pc \in {"hostname", "lost"} => r.op = "direct" /\ r.stage = "binlog"
  /\ r.pc = "cache" => r.ent = None /\ r.stage = "table"
  /\ r.pc \in {"cache", "queued", "hostname", "lost"} => r.newest = None
  /\ r.pc = "remote" => (r.newest # None <=> r.stage \in {"part", "detail"})
  /\ r.pc \in {"queued", "notify"} \/ r.op \in {"update", "build"} => r.ent \in Entries
  /\ r.stage = "binlog" => r.op = "direct"
  /\ r.op = "direct" => r.ent = None
  /\ r.op = "update" => r.pc = "remote"

\* The types of the variables.
Types ==
  /\ kind \in Kinds
  /\ ask \in [Callers -> {"idle", "waiting", "holding"}]
  /\ got \in [Callers -> Entries \cup {None}]
  /\ cont \in [Conts -> Cont]
  /\ est \in [Entries -> States]
  /\ pendq \in [Entries -> Seq(Conts)]
  /\ refs \in [Entries -> Int]
  /\ lost \in Seq(Entries) /\ Len(lost) <= MaxLost
  /\ cache \in Entries \cup {None}
  /\ todo \in Seq(Entries)
  /\ tc \in [Callers -> Entries \cup {None}]

\* Every continuation is as the handlers leave it.
Shapes == \A c \in Conts : Shaped(cont[c])

\* The caller a continuation will call back waits for no other one.
Expects(c, k) == cont[c].pc # "free" /\ cont[c].who = k /\ Told(c)
Replies ==
  /\ \A k \in Callers, c \in Conts : Expects(c, k) => ask[k] = "waiting"
  /\ \A k \in Callers, c, d \in Conts : Expects(c, k) /\ Expects(d, k) => c = d
  /\ \A k \in Callers : ask[k] = "waiting" => \E c \in Conts : Expects(c, k)
  /\ \A k \in Callers : ask[k] # "holding" => got[k] = None

\* The states of an entry that is in use.
Live == {"BUILDING", "AVAIL", "DIRTY", "UPDATING"}
\* An entry that only the continuation that fetched it knows.
Own(c, e) == cont[c].pc \in {"remote", "replace"} /\ cont[c].newest = e /\ e # None

\* The cache and its todo list: no entry is in them twice, all are live, and
\* a live entry is in them or with the continuation that fetched it.
Store ==
  /\ \A i, j \in DOMAIN todo : todo[i] = todo[j] => i = j
  /\ \A i \in DOMAIN todo : todo[i] # cache /\ est[todo[i]] \in {"AVAIL", "DIRTY"}
  /\ cache # None => est[cache] \in Live
  /\ \A e \in Entries : est[e] \in Live => e \in Reachable \/ \E c \in Conts : Own(c, e)

\* Whoever else can reach e.
Known(e) ==
  \/ e \in Reachable
  \/ \E k \in Callers : tc[k] = e \/ got[k] = e
  \/ \E d \in Conts : \/ cont[d].ent = e
                      \/ cont[d].newest = e /\ cont[d].pc \notin {"remote", "replace"}

\* An entry that is still being fetched is out of everybody else's reach.
Private == \A c \in Conts, e \in Entries : Own(c, e) =>
  /\ ~Known(e)
  /\ \A d \in Conts : Own(d, e) => d = c
  /\ est[e] \in {"BORN", "AVAIL"}
  /\ cont[c].pc = "remote" => est[e] = "BORN"

\* Every continuation that updates holds an entry that is UPDATING or was
\* deleted meanwhile, and no two of them hold the same one.
Updates ==
  /\ \A c \in Conts : cont[c].op = "update" => est[cont[c].ent] \in {"UPDATING", "DELETED"}
  /\ OneUpdate
  /\ UpdatingOwned

\* The continuation c fetches the entry that the placeholder e stands for.
Building(c, e) == cont[c].op = "build" /\ cont[c].ent = e
\* Every placeholder has one continuation that fetches it and will empty its
\* pending queue, and those in the queue are suspended there and only there.
Builds ==
  /\ \A c, d \in Conts, e \in Entries : Building(c, e) /\ Building(d, e) => c = d
  /\ \A e \in Entries : est[e] = "BUILDING" => \E c \in Conts : Building(c, e) /\ cont[c].pc \in {"remote", "replace"}
  /\ \A e \in Entries : pendq[e] # <<>> => \E c \in Conts : Building(c, e)
  /\ \A e \in Entries : \A i \in DOMAIN pendq[e] : cont[pendq[e][i]].pc = "queued" /\ cont[pendq[e][i]].ent = e
  /\ \A e \in Entries : \A i, j \in DOMAIN pendq[e] : pendq[e][i] = pendq[e][j] => i = j
  /\ \A c \in Conts : cont[c].pc = "queued" => \E i \in DOMAIN pendq[cont[c].ent] : pendq[cont[c].ent][i] = c

\* An unused entry is kept for every continuation that waits for the lock.
Reserved == Cardinality(Waiting) <= Cardinality(Fresh)

(***************************************************************************)
(* Records of continuations                                                *)
(***************************************************************************)

\* The fields of a continuation that is free.
LEMMA FreeShape ==
  /\ FreeCont \in Cont /\ Shaped(FreeCont)
  /\ FreeCont.pc = "free" /\ FreeCont.who = None /\ FreeCont.op = "none" /\ FreeCont.stage = "table"
  /\ FreeCont.ent = None /\ FreeCont.newest = None /\ ~FreeCont.notify /\ ~FreeCont.cancelled
BY DEF FreeCont, Cont, Shaped

\* The fields of a continuation that a caller has just allocated.
LEMMA NewShape ==
  ASSUME NEW k \in Callers
  PROVE  /\ NewCont(k) \in Cont
         /\ NewCont(k).pc = "free" /\ NewCont(k).who = k /\ NewCont(k).op = "none" /\ NewCont(k).stage = "table"
         /\ NewCont(k).ent = None /\ NewCont(k).newest = None /\ NewCont(k).notify /\ ~NewCont(k).cancelled
<1> DEFINE r == NewCont(k)
<1>2. r \in Cont
  BY FreeShape DEF NewCont, Cont
<1>3. r.pc = "free" /\ r.who = k /\ r.op = "none" /\ r.stage = "table" /\ r.ent = None /\ r.newest = None
  BY FreeShape DEF NewCont, Cont
<1>4. r.notify
  BY FreeShape DEF NewCont, Cont
<1>5. ~r.cancelled
  BY FreeShape DEF NewCont, Cont
<1> QED
  BY <1>2, <1>3, <1>4, <1>5

\* The fields a handler does not set are kept.
SameBut(r, t, fs) ==
  /\ "pc" \in fs \/ r.pc = t.pc
  /\ "op" \in fs \/ r.op = t.op
  /\ "stage" \in fs \/ r.stage = t.stage
  /\ "ent" \in fs \/ r.ent = t.ent
  /\ "newest" \in fs \/ r.newest = t.newest
  /\ r.who = t.who
  /\ r.notify <=> t.notify
  /\ r.cancelled <=> t.cancelled

\* A lookup that goes to the server for a build or an update.
LEMMA SentShape ==
  ASSUME NEW r \in Cont, r.pc \in {"free", "cache"}, r.who \in Callers, r.op = "none", r.stage = "table",
         r.newest = None, NEW o \in {"update", "build"}, NEW e \in Entries
  PROVE  /\ Sent(r, o, e) \in Cont /\ Shaped(Sent(r, o, e))
         /\ Sent(r, o, e).pc = "remote" /\ Sent(r, o, e).op = o /\ Sent(r, o, e).ent = e
         /\ SameBut(Sent(r, o, e), r, {"pc", "op", "ent"})
<1> DEFINE t == Sent(r, o, e)
<1>1. t \in Cont /\ t.pc = "remote" /\ t.op = o /\ t.ent = e /\ SameBut(t, r, {"pc", "op", "ent"})
  BY DEF Sent, Cont, SameBut
<1> HIDE DEF t
<1>2. Shaped(t)
  BY <1>1, RouteAssumption DEF Shaped, SameBut
<1> QED
  BY <1>1, <1>2 DEF t

\* A lookup without a cache, at its next target.
LEMMA AimShape ==
  ASSUME NEW r \in Cont, r.who \in Callers, r.op = "direct", r.newest = None, r.ent = None,
         NEW f, f.pc \in {"remote", "hostname"}, f.stage \in {"table", "binlog"}, f.left \in Nat,
         f.pc = "hostname" => f.stage = "binlog"
  PROVE  /\ Aim(r, f) \in Cont /\ Shaped(Aim(r, f))
         /\ Aim(r, f).pc = f.pc /\ Aim(r, f).stage = f.stage
         /\ SameBut(Aim(r, f), r, {"pc", "stage"})
<1> DEFINE t == Aim(r, f)
<1>1. t \in Cont /\ t.pc = f.pc /\ t.stage = f.stage /\ SameBut(t, r, {"pc", "stage"})
  BY DEF Aim, Cont, SameBut
<1> HIDE DEF t
<1>2. Shaped(t)
  BY <1>1, RouteAssumption DEF Shaped, SameBut
<1> QED
  BY <1>1, <1>2 DEF t

\* Where a lookup without a cache starts.
LEMMA FetchShape ==
  ASSUME NEW f \in Fetch
  PROVE  f.pc \in {"remote", "hostname"} /\ f.stage \in {"table", "binlog"} /\ f.left \in Nat
         /\ (f.pc = "hostname" => f.stage = "binlog")
BY RouteAssumption DEF Fetch, Target

\* Where a lookup for the binlog service goes next.
LEMMA TargetShape ==
  ASSUME NEW n \in Nat, NEW f \in Target(n)
  PROVE  f.pc \in {"remote", "hostname"} /\ f.stage = "binlog" /\ f.left \in Nat
BY DEF Target

\* One continuation changes.
LEMMA ContStep ==
  ASSUME Types, Shapes, NEW c \in Conts, NEW r \in Cont, Shaped(r), cont' = [cont EXCEPT ![c] = r]
  PROVE  /\ cont' \in [Conts -> Cont] /\ Shapes'
         /\ \A d \in Conts : cont'[d] = IF d = c THEN r ELSE cont[d]
BY DEF Types, Shapes, Shaped

(***************************************************************************)
(* The locked section                                                      *)
(***************************************************************************)

\* What a lookup under the lock of the bucket can find.
LEMMA ReachableIs ==
  ASSUME Types
  PROVE  /\ Reachable \subseteq Entries
         /\ \A e \in Entries : e \in Reachable <=> e = cache \/ \E i \in DOMAIN todo : todo[i] = e
<1>1. \A i \in DOMAIN todo : todo[i] \in Entries
  BY LenProperties, ElementOfSeq DEF Types
<1> QED
  BY <1>1, RouteAssumption DEF Types, Reachable, Range

\* The entry a lookup finds is live, and the todo list is empty when it is
\* being built or updated.
LEMMA CurrentIs ==
  ASSUME Types, Store
  PROVE  /\ Current # None => /\ Current \in Entries /\ Current \in Reachable /\ est[Current] \in Live
                              /\ est[Current] \in {"BUILDING", "UPDATING"} => todo = <<>> /\ Current = cache
         /\ Current = None => cache = None /\ todo = <<>>
<1>1. CASE todo = <<>>
  <2>1. Current = cache
    BY <1>1 DEF Current
  <2> QED
    BY <1>1, <2>1, ReachableIs DEF Types, Store
<1>2. CASE todo # <<>>
  <2>1. Current = todo[Len(todo)]
    BY <1>2 DEF Current, Last
  <2>2. Len(todo) \in DOMAIN todo /\ todo[Len(todo)] \in Entries
    BY <1>2, EmptySeq, LenProperties, ElementOfSeq DEF Types
  <2>3. est[Current] \in {"AVAIL", "DIRTY"}
    BY <2>1, <2>2 DEF Store
  <2> QED
    BY <1>2, <2>1, <2>2, <2>3, ReachableIs, RouteAssumption DEF Live
<1> QED
  BY <1>1, <1>2

\* Expiry turns AVAIL into DIRTY and leaves the other states alone.
LEMMA SeenIs ==
  ASSUME Types, Store, Current # None, NEW exp
  PROVE  /\ Seen(exp) \in Live
         /\ Seen(exp) = "BUILDING" <=> est[Current] = "BUILDING"
         /\ Seen(exp) = "UPDATING" <=> est[Current] = "UPDATING"
         /\ Seen(exp) = "AVAIL" => est[Current] = "AVAIL"
         /\ Seen(exp) = "DIRTY" => est[Current] \in {"AVAIL", "DIRTY"}
BY CurrentIs DEF Seen, Live

\* Whoever finds an entry finds one that is there.
LEMMA FoundIs ==
  ASSUME NEW exp, NEW async, NEW ss, Finds(exp, async, ss)
  PROVE  Current # None /\ Seen(exp) \in ss
BY DEF Finds, MustBuild

\* A step under the lock of the bucket carries out the todo list and leaves e
\* alone in the cache, in state s.
LEMMA LockedIs ==
  ASSUME Types, NEW e \in Entries, NEW s \in States, Locked(e, s)
  PROVE  /\ cache' = e /\ todo' = <<>> /\ est' \in [Entries -> States]
         /\ cache' \in Entries \cup {None} /\ todo' \in Seq(Entries)
         /\ Reachable' = {e}
         /\ \A x \in Entries : est'[x] = IF x = e THEN s ELSE IF x \in Reachable THEN "DELETED" ELSE est[x]
<1>1. cache' = e /\ todo' = <<>>
  BY DEF Locked
<1>2. \A x \in Entries : est'[x] = IF x = e THEN s ELSE IF x \in Reachable THEN "DELETED" ELSE est[x]
  BY RouteAssumption DEF Locked, StateAfter, Gone, Reachable
<1>3. est' \in [Entries -> States]
  BY <1>2 DEF Locked, StateAfter, Types, States
<1>4. Reachable' = {e}
  BY <1>1, RouteAssumption DEF Reachable, Range
<1> QED
  BY <1>1, <1>2, <1>3, <1>4, EmptySeq

\* The key is removed, and e, which nobody has found yet, gets its state.
LEMMA EmptiedIs ==
  ASSUME Types, NEW e \in Entries \cup {None}, NEW s \in States, cache' = None, todo' = <<>>,
         est' = [x \in Entries |-> IF x = e THEN s ELSE StateAfter(x, None)]
  PROVE  /\ est' \in [Entries -> States]
         /\ cache' \in Entries \cup {None} /\ todo' \in Seq(Entries)
         /\ Reachable' = {}
         /\ \A x \in Entries : est'[x] = IF x = e THEN s ELSE IF x \in Reachable THEN "DELETED" ELSE est[x]
<1>2. \A x \in Entries : est'[x] = IF x = e THEN s ELSE IF x \in Reachable THEN "DELETED" ELSE est[x]
  BY RouteAssumption DEF StateAfter, Gone, Reachable
<1>3. est' \in [Entries -> States]
  BY <1>2 DEF StateAfter, Types, States
<1>4. Reachable' = {}
  BY RouteAssumption DEF Reachable, Range
<1> QED
  BY <1>2, <1>3, <1>4, EmptySeq

\* After the section e is the only entry that can be found, and what was found
\* before is deleted.
LEMMA StoreLocked ==
  ASSUME Types, Store, NEW e \in Entries, NEW s \in Live, Locked(e, s),
         \A d \in Conts, x \in Entries \ {e} : Own(d, x) /\ est[x] \in Live => Own(d, x)'
  PROVE  Store'
<1>0. s \in States
  BY DEF Live, States
<1>1. /\ cache' = e /\ todo' = <<>> /\ Reachable' = {e}
      /\ \A x \in Entries : est'[x] = IF x = e THEN s ELSE IF x \in Reachable THEN "DELETED" ELSE est[x]
  BY <1>0, LockedIs
<1>2. ASSUME NEW x \in Entries, est'[x] \in Live
      PROVE  x \in Reachable' \/ \E d \in Conts : Own(d, x)'
  <2>1. CASE x = e
    BY <1>1, <2>1
  <2>2. CASE x # e
    <3>1. x \notin Reachable /\ est[x] \in Live
      BY <1>1, <1>2, <2>2 DEF Live
    <3>2. PICK d \in Conts : Own(d, x)
      BY <3>1 DEF Store
    <3> QED
      BY <2>2, <3>1, <3>2
  <2> QED
    BY <2>1, <2>2
<1>3. DOMAIN todo' = {}
  BY <1>1
<1>4. est'[cache'] \in Live
  BY <1>1
<1> QED
  BY <1>2, <1>3, <1>4 DEF Store

\* Removing the entry keeps the cache in order.
LEMMA StoreEmptied ==
  ASSUME Types, Store, NEW e \in Entries \cup {None}, NEW s \in {"BORN", "DELETED"}, cache' = None, todo' = <<>>,
         est' = [x \in Entries |-> IF x = e THEN s ELSE StateAfter(x, None)],
         \A d \in Conts, x \in Entries \ {e} : Own(d, x) /\ est[x] \in Live => Own(d, x)'
  PROVE  Store'
<1>0. s \in States
  BY DEF States
<1>1. /\ Reachable' = {}
      /\ \A x \in Entries : est'[x] = IF x = e THEN s ELSE IF x \in Reachable THEN "DELETED" ELSE est[x]
  BY <1>0, EmptiedIs
<1>2. ASSUME NEW x \in Entries, est'[x] \in Live
      PROVE  \E d \in Conts : Own(d, x)'
  <2>1. x # e /\ x \notin Reachable /\ est[x] \in Live
    BY <1>1, <1>2 DEF Live
  <2>2. PICK d \in Conts : Own(d, x)
    BY <2>1 DEF Store
  <2> QED
    BY <2>1, <2>2
<1>3. DOMAIN todo' = {}
  OBVIOUS
<1> QED
  BY <1>2, <1>3 DEF Store

\* The cache and the todo list are left alone.
LEMMA StoreKept ==
  ASSUME Types, Store, cache' = cache, todo' = todo,
         \A x \in Reachable : est'[x] = est[x] \/ (est[x] \in {"AVAIL", "UPDATING"} /\ est'[x] = "DIRTY"),
         \A x \in Entries \ Reachable : est'[x] \in Live =>
            \/ est[x] \in Live /\ \A d \in Conts : Own(d, x) => Own(d, x)'
            \/ \E d \in Conts : Own(d, x)'
  PROVE  Store'
<1>1. Reachable' = Reachable
  BY DEF Reachable
<1>2. \A i \in DOMAIN todo : todo[i] \in Reachable
  BY ReachableIs, LenProperties, ElementOfSeq DEF Types
<1>3. \A i \in DOMAIN todo : est'[todo[i]] \in {"AVAIL", "DIRTY"}
  BY <1>2 DEF Store
<1>4. cache # None => cache \in Reachable
  BY ReachableIs DEF Types
<1>5. cache # None => est'[cache] \in Live
  BY <1>4 DEF Store, Live
<1>6. ASSUME NEW x \in Entries, est'[x] \in Live
      PROVE  x \in Reachable \/ \E d \in Conts : Own(d, x)'
  BY <1>6 DEF Store
<1>7. \A e \in Entries : est'[e] \in Live => e \in Reachable' \/ \E d \in Conts : Own(d, e)'
  BY <1>1, <1>6
<1>8. \A i \in DOMAIN todo : todo[i] # cache /\ est'[todo[i]] \in {"AVAIL", "DIRTY"}
  BY <1>3 DEF Store
<1>9. \A i, j \in DOMAIN todo : todo[i] = todo[j] => i = j
  BY DEF Store
<1> QED
  BY <1>5, <1>7, <1>8, <1>9 DEF Store

\* An entry nobody knows waits in the todo list.
LEMMA StoreQueued ==
  ASSUME Types, Store, NEW e \in Entries, e \notin Reachable, cache' = cache, todo' = Append(todo, e),
         \A x \in Entries : est'[x] = IF x = e THEN "AVAIL" ELSE est[x],
         \A d \in Conts, x \in Entries \ {e} : Own(d, x) => Own(d, x)'
  PROVE  Store' /\ todo' \in Seq(Entries) /\ Reachable' = Reachable \cup {e}
<1>1. /\ todo' \in Seq(Entries) /\ Len(todo') = Len(todo) + 1 /\ Len(todo) \in Nat
      /\ DOMAIN todo = 1..Len(todo) /\ DOMAIN todo' = 1..Len(todo')
      /\ \A i \in 1..Len(todo) : todo'[i] = todo[i] /\ todo[i] \in Entries
      /\ todo'[Len(todo) + 1] = e
  BY AppendProperties, LenProperties, ElementOfSeq DEF Types
<1>2. \A i \in DOMAIN todo' : i \in DOMAIN todo \/ i = Len(todo) + 1
  BY <1>1
<1>3. \A i \in DOMAIN todo : todo[i] # e /\ todo[i] \in Reachable
  BY <1>1, ReachableIs
<1>4. e # cache
  BY ReachableIs
<1>5. Range(todo') = Range(todo) \cup {e}
  BY <1>1, <1>2 DEF Range
<1>6. Reachable' = Reachable \cup {e}
  BY <1>5, RouteAssumption DEF Reachable
<1>7. \A i, j \in DOMAIN todo' : todo'[i] = todo'[j] => i = j
  BY <1>1, <1>2, <1>3 DEF Store
<1>8. \A i \in DOMAIN todo' : todo'[i] # cache /\ est'[todo'[i]] \in {"AVAIL", "DIRTY"}
  BY <1>1, <1>2, <1>3, <1>4 DEF Store
<1>9. cache # None => est'[cache] \in Live
  BY <1>4 DEF Store, Types
<1>10. \A x \in Entries : est'[x] \in Live => x \in Reachable' \/ \E d \in Conts : Own(d, x)'
  <2> SUFFICES ASSUME NEW x \in Entries, est'[x] \in Live, x \notin Reachable'
               PROVE  \E d \in Conts : Own(d, x)'
    OBVIOUS
  <2>1. x # e /\ x \notin Reachable /\ est[x] \in Live
    BY <1>6
  <2> QED
    BY <2>1 DEF Store
<1>11. Store'
  BY <1>7, <1>8, <1>9, <1>10 DEF Store
<1> QED
  BY <1>1, <1>6, <1>11

(***************************************************************************)
(* Entries only one continuation knows                                     *)
(***************************************************************************)

\* What a step may make somebody point to: what was known, or b.  The
\* continuation c, if it is one, becomes r.
Old(x, b) == x \in {None, b} \/ Known(x)
Moves(c, r, b) ==
  /\ \A d \in Conts : cont'[d] = IF d = c THEN r ELSE cont[d]
  /\ Old(r.ent, b) /\ Old(r.newest, b)
  /\ \A x \in Reachable' : Old(x, b)
  /\ \A k \in Callers : Old(tc'[k], b) /\ Old(got'[k], b)

\* The continuation c ends up owning nothing, and b is owned by no other.
LEMMA PrivateStep ==
  ASSUME Types, Private, NEW c, NEW r, NEW b,
         Moves(c, r, b),
         r.pc \notin {"remote", "replace"} \/ r.newest = None,
         \A d \in Conts \ {c} : ~Own(d, b),
         \A d \in Conts \ {c}, x \in Entries : Own(d, x) => est'[x] = est[x]
  PROVE  Private'
<1> USE DEF Moves, Old
<1>1. ASSUME NEW d \in Conts, NEW x \in Entries, Own(d, x)'
      PROVE  d # c /\ Own(d, x) /\ cont'[d] = cont[d] /\ x # b
  <2>1. cont'[d].pc \in {"remote", "replace"} /\ cont'[d].newest = x /\ x # None
    BY <1>1 DEF Own
  <2>2. d # c
    BY <2>1
  <2>3. cont'[d] = cont[d]
    BY <2>2
  <2>4. Own(d, x)
    BY <2>1, <2>3 DEF Own
  <2> QED
    BY <2>2, <2>3, <2>4
<1>2. ASSUME NEW x \in Entries, Known(x)', x # b
      PROVE  Known(x)
  <2>0. x # None
    BY RouteAssumption
  <2>1. CASE x \in Reachable'
    BY <1>2, <2>0, <2>1
  <2>2. CASE \E k \in Callers : tc'[k] = x \/ got'[k] = x
    BY <1>2, <2>0, <2>2
  <2>3. CASE \E d \in Conts : \/ cont'[d].ent = x
                              \/ cont'[d].newest = x /\ cont'[d].pc \notin {"remote", "replace"}
    <3>1. PICK d \in Conts : \/ cont'[d].ent = x
                             \/ cont'[d].newest = x /\ cont'[d].pc \notin {"remote", "replace"}
      BY <2>3
    <3>2. CASE d = c
      <4>1. cont'[d] = r
        BY <3>2
      <4> QED
        BY <1>2, <2>0, <3>1, <4>1
    <3>3. CASE d # c
      <4>1. cont'[d] = cont[d]
        BY <3>3
      <4> QED
        BY <3>1, <4>1 DEF Known
    <3> QED
      BY <3>2, <3>3
  <2> QED
    BY <1>2, <2>1, <2>2, <2>3 DEF Known
<1>3. ASSUME NEW d \in Conts, NEW x \in Entries, Own(d, x)'
      PROVE  /\ ~Known(x)'
             /\ \A f \in Conts : Own(f, x)' => f = d
             /\ est'[x] \in {"BORN", "AVAIL"}
             /\ cont'[d].pc = "remote" => est'[x] = "BORN"
  <2>1. d # c /\ Own(d, x) /\ cont'[d] = cont[d] /\ x # b
    BY <1>1, <1>3
  <2>2. ~Known(x)'
    BY <1>2, <2>1 DEF Private
  <2>3. \A f \in Conts : Own(f, x)' => f = d
    BY <1>1, <2>1 DEF Private
  <2>4. est'[x] = est[x]
    BY <2>1
  <2> QED
    BY <2>1, <2>2, <2>3, <2>4 DEF Private
<1> QED
  BY <1>3 DEF Private

\* The continuation c gets b, which nobody had, or keeps what it owns.
LEMMA PrivateTaken ==
  ASSUME Types, Private, NEW c \in Conts, NEW r, NEW b \in Entries,
         \A d \in Conts : cont'[d] = IF d = c THEN r ELSE cont[d],
         r.pc \in {"remote", "replace"}, r.newest = b, r.ent = cont[c].ent,
         cont[c].pc \in {"remote", "replace"},
         ~Known(b), \A d \in Conts : Own(d, b) => d = c,
         UNCHANGED <<cache, todo, tc, got>>,
         est'[b] \in {"BORN", "AVAIL"}, r.pc = "remote" => est'[b] = "BORN",
         \A x \in Entries \ {b} : est'[x] = est[x]
  PROVE  Private'
<1>0. b # None
  BY RouteAssumption
<1>1. ASSUME NEW d \in Conts, NEW x \in Entries, Own(d, x)'
      PROVE  (d = c /\ x = b) \/ (d # c /\ Own(d, x) /\ cont'[d] = cont[d] /\ x # b)
  <2>1. cont'[d].pc \in {"remote", "replace"} /\ cont'[d].newest = x /\ x # None
    BY <1>1 DEF Own
  <2>2. CASE d = c
    BY <2>1, <2>2
  <2>3. CASE d # c
    <3>1. cont'[d] = cont[d]
      BY <2>3
    <3>2. Own(d, x)
      BY <2>1, <3>1 DEF Own
    <3> QED
      BY <2>3, <3>1, <3>2
  <2> QED
    BY <2>2, <2>3
<1>2. ASSUME NEW x \in Entries, Known(x)'
      PROVE  Known(x)
  <2>1. Reachable' = Reachable
    BY DEF Reachable
  <2>2. CASE x \in Reachable' \/ \E k \in Callers : tc'[k] = x \/ got'[k] = x
    BY <2>1, <2>2 DEF Known
  <2>3. CASE \E d \in Conts : \/ cont'[d].ent = x
                              \/ cont'[d].newest = x /\ cont'[d].pc \notin {"remote", "replace"}
    <3>1. PICK d \in Conts : \/ cont'[d].ent = x
                             \/ cont'[d].newest = x /\ cont'[d].pc \notin {"remote", "replace"}
      BY <2>3
    <3>2. CASE d = c
      <4>1. cont'[d] = r /\ cont[d].ent = x
        BY <3>1, <3>2
      <4> QED
        BY <4>1 DEF Known
    <3>3. CASE d # c
      <4>1. cont'[d] = cont[d]
        BY <3>3
      <4> QED
        BY <3>1, <4>1 DEF Known
    <3> QED
      BY <3>2, <3>3
  <2> QED
    BY <1>2, <2>2, <2>3 DEF Known
<1>3. ASSUME NEW d \in Conts, NEW x \in Entries, Own(d, x)'
      PROVE  /\ ~Known(x)'
             /\ \A f \in Conts : Own(f, x)' => f = d
             /\ est'[x] \in {"BORN", "AVAIL"}
             /\ cont'[d].pc = "remote" => est'[x] = "BORN"
  <2>1. CASE d = c /\ x = b
    <3>1. \A f \in Conts : Own(f, x)' => f = d
      BY <1>1, <2>1
    <3>2. cont'[d] = r
      BY <2>1
    <3> QED
      BY <1>2, <2>1, <3>1, <3>2
  <2>2. CASE d # c /\ Own(d, x) /\ cont'[d] = cont[d] /\ x # b
    <3>1. \A f \in Conts : Own(f, x)' => f = d
      BY <1>1, <2>2 DEF Private
    <3>2. est'[x] = est[x] /\ ~Known(x)'
      BY <1>2, <2>2 DEF Private
    <3> QED
      BY <2>2, <3>1, <3>2 DEF Private
  <2> QED
    BY <1>1, <1>3, <2>1, <2>2
<1> QED
  BY <1>3 DEF Private

(***************************************************************************)
(* Updates                                                                 *)
(***************************************************************************)

\* The section leaves e behind, with the state it had or as a new entry.
LEMMA UpdatesLocked ==
  ASSUME Types, Store, Updates, NEW e \in Entries, NEW s \in Live, Locked(e, s), NEW c, NEW r,
         \A d \in Conts : cont'[d] = IF d = c THEN r ELSE cont[d],
         r.op # "update",
         \A d \in Conts \ {c} : cont[d].op = "update" => cont[d].ent \in Entries,
         \A d \in Conts \ {c} : cont[d].op = "update" /\ cont[d].ent = e => s = "UPDATING",
         s = "UPDATING" => e = Current /\ est[e] = "UPDATING" /\ \A d \in Conts : cont[d].op = "update" => d # c
  PROVE  Updates'
<1>0. s \in States
  BY DEF Live, States
<1>1. /\ cache' = e /\ todo' = <<>>
      /\ \A x \in Entries : est'[x] = IF x = e THEN s ELSE IF x \in Reachable THEN "DELETED" ELSE est[x]
  BY <1>0, LockedIs
<1>2. ASSUME NEW d \in Conts, cont'[d].op = "update"
      PROVE  /\ d # c /\ cont'[d] = cont[d] /\ cont[d].op = "update" /\ cont[d].ent \in Entries
             /\ est'[cont[d].ent] \in {"UPDATING", "DELETED"}
  <2>1. d # c /\ cont'[d] = cont[d]
    BY <1>2
  <2>2. cont[d].op = "update" /\ cont[d].ent \in Entries
    BY <1>2, <2>1
  <2>3. est'[cont[d].ent] \in {"UPDATING", "DELETED"}
    BY <1>1, <2>1, <2>2 DEF Updates
  <2> QED
    BY <2>1, <2>2, <2>3
<1>3. OneUpdate'
  BY <1>2 DEF Updates, OneUpdate
<1>4. UpdatingOwned'
  <2> SUFFICES ASSUME est'[e] = "UPDATING"
               PROVE  \E d \in Conts : cont'[d].op = "update" /\ cont'[d].ent = e
    BY <1>1 DEF UpdatingOwned
  <2>1. s = "UPDATING"
    BY <1>1
  <2>2. e # None /\ todo = <<>> /\ e = cache
    BY <2>1, CurrentIs, RouteAssumption
  <2>3. PICK d \in Conts : cont[d].op = "update" /\ cont[d].ent = cache
    BY <2>1, <2>2 DEF Updates, UpdatingOwned
  <2>4. cont'[d] = cont[d]
    BY <2>1, <2>3
  <2> QED
    BY <2>2, <2>3, <2>4
<1> QED
  BY <1>2, <1>3, <1>4 DEF Updates

\* A lookup takes a dirty entry for updating.
LEMMA UpdatesTaken ==
  ASSUME Types, Shapes, Store, Updates, NEW e \in Entries, Locked(e, "UPDATING"), NEW c \in Conts, NEW r,
         \A d \in Conts : cont'[d] = IF d = c THEN r ELSE cont[d],
         r.op = "update", r.ent = e, est[e] \in {"AVAIL", "DIRTY"}
  PROVE  Updates'
<1>0. "UPDATING" \in States
  BY DEF States
<1>1. /\ cache' = e /\ todo' = <<>>
      /\ \A x \in Entries : est'[x] = IF x = e THEN "UPDATING" ELSE IF x \in Reachable THEN "DELETED" ELSE est[x]
  BY <1>0, LockedIs
<1>2. ASSUME NEW d \in Conts, cont'[d].op = "update", d # c
      PROVE  cont'[d] = cont[d] /\ cont[d].op = "update" /\ cont[d].ent \in Entries /\ cont[d].ent # e
  <2>1. cont'[d] = cont[d] /\ cont[d].op = "update"
    BY <1>2
  <2>2. cont[d].ent \in Entries /\ cont[d].ent # e
    BY <2>1 DEF Shapes, Shaped, Updates
  <2> QED
    BY <2>1, <2>2
<1>3. cont'[c] = r
  OBVIOUS
<1>4. \A d \in Conts : cont'[d].op = "update" => est'[cont'[d].ent] \in {"UPDATING", "DELETED"}
  BY <1>1, <1>2, <1>3 DEF Updates
<1>5. OneUpdate'
  BY <1>2, <1>3 DEF Updates, OneUpdate
<1>6. UpdatingOwned'
  BY <1>1, <1>3 DEF UpdatingOwned
<1> QED
  BY <1>4, <1>5, <1>6 DEF Updates

\* Otherwise: no continuation begins to update, and no entry of the cache is
\* left behind as being updated by nobody.
LEMMA UpdatesKept ==
  ASSUME Updates, NEW c, NEW r,
         \A d \in Conts : cont'[d] = IF d = c THEN r ELSE cont[d],
         r.op = "update" => c \in Conts /\ cont[c].op = "update" /\ r.ent = cont[c].ent,
         \A d \in Conts : cont'[d].op = "update" =>
            est'[cont[d].ent] = est[cont[d].ent] \/ est'[cont[d].ent] = "DELETED",
         cache' # None /\ est'[cache'] = "UPDATING" =>
            \/ todo' # <<>>
            \/ /\ cache' = cache /\ est[cache] = "UPDATING" /\ todo' = todo
               /\ \A d \in Conts : cont[d].op = "update" /\ cont[d].ent = cache => cont'[d].op = "update"
  PROVE  Updates'
<1>1. ASSUME NEW d \in Conts, cont'[d].op = "update"
      PROVE  cont[d].op = "update" /\ cont'[d].ent = cont[d].ent
  <2>1. CASE d = c
    BY <1>1, <2>1
  <2>2. CASE d # c
    BY <1>1, <2>2
  <2> QED
    BY <2>1, <2>2
<1>2. OneUpdate'
  BY <1>1 DEF Updates, OneUpdate
<1>3. \A d \in Conts : cont'[d].op = "update" => est'[cont'[d].ent] \in {"UPDATING", "DELETED"}
  BY <1>1 DEF Updates
<1>4. UpdatingOwned'
  <2> SUFFICES ASSUME cache' # None, est'[cache'] = "UPDATING", todo' = <<>>
               PROVE  \E d \in Conts : cont'[d].op = "update" /\ cont'[d].ent = cache'
    BY DEF UpdatingOwned
  <2>1. cache' = cache /\ est[cache] = "UPDATING" /\ todo = <<>>
        /\ \A d \in Conts : cont[d].op = "update" /\ cont[d].ent = cache => cont'[d].op = "update"
    OBVIOUS
  <2>2. PICK d \in Conts : cont[d].op = "update" /\ cont[d].ent = cache
    BY <2>1 DEF Updates, UpdatingOwned
  <2> QED
    BY <1>1, <2>1, <2>2
<1> QED
  BY <1>2, <1>3, <1>4 DEF Updates

(***************************************************************************)
(* Building entries and their queues                                       *)
(***************************************************************************)

\* No queue changes, nor what the continuation c, if it is one, builds or waits for.
LEMMA BuildsKept ==
  ASSUME Types, Builds, pendq' = pendq, NEW c, NEW r,
         \A d \in Conts : cont'[d] = IF d = c THEN r ELSE cont[d],
         c \in Conts => /\ r.op = "build" <=> cont[c].op = "build"
                        /\ r.pc = "queued" <=> cont[c].pc = "queued"
                        /\ r.op = "build" \/ r.pc = "queued" => r.ent = cont[c].ent
                        /\ r.op = "build" /\ cont[c].pc \in {"remote", "replace"} => r.pc \in {"remote", "replace"},
         \A x \in Entries : est'[x] = "BUILDING" => est[x] = "BUILDING"
  PROVE  Builds'
<1>1. ASSUME NEW d \in Conts
      PROVE  /\ cont'[d].op = "build" <=> cont[d].op = "build"
             /\ cont'[d].pc = "queued" <=> cont[d].pc = "queued"
             /\ cont[d].op = "build" \/ cont[d].pc = "queued" => cont'[d].ent = cont[d].ent
             /\ cont[d].op = "build" /\ cont[d].pc \in {"remote", "replace"} => cont'[d].pc \in {"remote", "replace"}
  <2>1. CASE d = c
    BY <2>1
  <2>2. CASE d # c
    BY <2>2
  <2> QED
    BY <2>1, <2>2
<1>2. \A d \in Conts, e \in Entries : Building(d, e)' <=> Building(d, e)
  BY <1>1 DEF Building
<1>3. \A d, f \in Conts, e \in Entries : Building(d, e)' /\ Building(f, e)' => d = f
  BY <1>2 DEF Builds
<1>4. \A e \in Entries : est'[e] = "BUILDING" => \E d \in Conts : Building(d, e)' /\ cont'[d].pc \in {"remote", "replace"}
  <2> SUFFICES ASSUME NEW e \in Entries, est'[e] = "BUILDING"
               PROVE  \E d \in Conts : Building(d, e)' /\ cont'[d].pc \in {"remote", "replace"}
    OBVIOUS
  <2>1. PICK d \in Conts : Building(d, e) /\ cont[d].pc \in {"remote", "replace"}
    BY DEF Builds
  <2> QED
    BY <1>1, <1>2, <2>1 DEF Building
<1>5. \A e \in Entries : pendq[e] # <<>> => \E d \in Conts : Building(d, e)'
  BY <1>2 DEF Builds
<1>6. ASSUME NEW e \in Entries, NEW i \in DOMAIN pendq[e]
      PROVE  cont'[pendq[e][i]].pc = "queued" /\ cont'[pendq[e][i]].ent = e
  <2>1. pendq[e][i] \in Conts
    BY LenProperties, ElementOfSeq DEF Types
  <2> QED
    BY <1>1, <2>1 DEF Builds
<1>7. \A d \in Conts : cont'[d].pc = "queued" => \E i \in DOMAIN pendq[cont'[d].ent] : pendq[cont'[d].ent][i] = d
  BY <1>1 DEF Builds
<1>8. \A e \in Entries : \A i, j \in DOMAIN pendq[e] : pendq[e][i] = pendq[e][j] => i = j
  BY DEF Builds
<1> QED
  BY <1>3, <1>4, <1>5, <1>6, <1>7, <1>8 DEF Builds

\* A continuation begins to build the new entry b.
LEMMA BuildsBegun ==
  ASSUME Types, Builds, Shapes, pendq' = pendq, NEW c \in Conts, NEW r, NEW b \in Entries,
         \A d \in Conts : cont'[d] = IF d = c THEN r ELSE cont[d],
         r.op = "build", r.pc = "remote", r.ent = b,
         cont[c].op = "none", cont[c].pc # "queued",
         \A d \in Conts : cont[d].ent # b,
         \A x \in Entries \ {b} : est'[x] = "BUILDING" => est[x] = "BUILDING"
  PROVE  Builds'
<1>0. cont'[c] = r /\ \A d \in Conts \ {c} : cont'[d] = cont[d]
  OBVIOUS
<1>1. \A d \in Conts, e \in Entries : Building(d, e)' <=> Building(d, e) \/ (d = c /\ e = b)
  BY <1>0 DEF Building
<1>2. \A d \in Conts : ~Building(d, b)
  BY DEF Building
<1>3. \A d, f \in Conts, e \in Entries : Building(d, e)' /\ Building(f, e)' => d = f
  BY <1>1, <1>2 DEF Builds
<1>4. \A e \in Entries : est'[e] = "BUILDING" => \E d \in Conts : Building(d, e)' /\ cont'[d].pc \in {"remote", "replace"}
  <2> SUFFICES ASSUME NEW e \in Entries, est'[e] = "BUILDING"
               PROVE  \E d \in Conts : Building(d, e)' /\ cont'[d].pc \in {"remote", "replace"}
    OBVIOUS
  <2>1. CASE e = b
    BY <1>0, <1>1, <2>1
  <2>2. CASE e # b
    <3>1. PICK d \in Conts : Building(d, e) /\ cont[d].pc \in {"remote", "replace"}
      BY <2>2 DEF Builds
    <3>2. d # c
      BY <3>1 DEF Building
    <3> QED
      BY <1>0, <1>1, <3>1, <3>2
  <2> QED
    BY <2>1, <2>2
<1>5. \A e \in Entries : pendq[e] # <<>> => \E d \in Conts : Building(d, e)'
  BY <1>1 DEF Builds
<1>6. ASSUME NEW e \in Entries, NEW i \in DOMAIN pendq[e]
      PROVE  cont'[pendq[e][i]].pc = "queued" /\ cont'[pendq[e][i]].ent = e
  <2>1. pendq[e][i] \in Conts /\ cont[pendq[e][i]].pc = "queued"
    BY LenProperties, ElementOfSeq DEF Types, Builds
  <2>2. pendq[e][i] # c
    BY <2>1
  <2> QED
    BY <1>0, <2>1, <2>2 DEF Builds
<1>7. \A d \in Conts : cont'[d].pc = "queued" => \E i \in DOMAIN pendq[cont'[d].ent] : pendq[cont'[d].ent][i] = d
  BY <1>0 DEF Builds
<1>8. \A e \in Entries : \A i, j \in DOMAIN pendq[e] : pendq[e][i] = pendq[e][j] => i = j
  BY DEF Builds
<1> QED
  BY <1>3, <1>4, <1>5, <1>6, <1>7, <1>8 DEF Builds

\* A continuation joins the queue of the building entry b.
LEMMA BuildsJoined ==
  ASSUME Types, Builds, Shapes, NEW c \in Conts, NEW r, NEW b \in Entries,
         pendq' = [pendq EXCEPT ![b] = Append(@, c)],
         \A d \in Conts : cont'[d] = IF d = c THEN r ELSE cont[d],
         r.op = "none", r.pc = "queued", r.ent = b,
         cont[c].op = "none", cont[c].pc # "queued",
         est[b] = "BUILDING",
         \A x \in Entries : est'[x] = "BUILDING" => est[x] = "BUILDING"
  PROVE  Builds' /\ pendq' \in [Entries -> Seq(Conts)]
<1>0. cont'[c] = r /\ \A d \in Conts \ {c} : cont'[d] = cont[d]
  OBVIOUS
<1>1. \A d \in Conts, e \in Entries : Building(d, e)' <=> Building(d, e)
  BY <1>0 DEF Building
<1> DEFINE n == Len(pendq[b])
<1>2. /\ pendq'[b] = Append(pendq[b], c) /\ \A e \in Entries \ {b} : pendq'[e] = pendq[e]
      /\ pendq' \in [Entries -> Seq(Conts)]
  BY AppendProperties DEF Types
<1>3. /\ n \in Nat /\ DOMAIN pendq[b] = 1..n /\ DOMAIN pendq'[b] = 1..(n + 1)
      /\ \A i \in 1..n : pendq'[b][i] = pendq[b][i] /\ pendq[b][i] \in Conts
      /\ pendq'[b][n + 1] = c
  BY <1>2, AppendProperties, LenProperties, ElementOfSeq DEF Types
<1> HIDE DEF n
<1>4. \A i \in DOMAIN pendq'[b] : i \in DOMAIN pendq[b] \/ i = n + 1
  BY <1>3
<1>5. \A e \in Entries : \A i \in DOMAIN pendq[e] : pendq[e][i] # c /\ pendq[e][i] \in Conts
  BY LenProperties, ElementOfSeq DEF Types, Builds
<1>6. \A d, f \in Conts, e \in Entries : Building(d, e)' /\ Building(f, e)' => d = f
  BY <1>1 DEF Builds
<1>7. \A e \in Entries : est'[e] = "BUILDING" => \E d \in Conts : Building(d, e)' /\ cont'[d].pc \in {"remote", "replace"}
  <2> SUFFICES ASSUME NEW e \in Entries, est'[e] = "BUILDING"
               PROVE  \E d \in Conts : Building(d, e)' /\ cont'[d].pc \in {"remote", "replace"}
    OBVIOUS
  <2>1. PICK d \in Conts : Building(d, e) /\ cont[d].pc \in {"remote", "replace"}
    BY DEF Builds
  <2>2. d # c
    BY <2>1 DEF Building
  <2> QED
    BY <1>0, <1>1, <2>1, <2>2
<1>8. \A e \in Entries : pendq'[e] # <<>> => \E d \in Conts : Building(d, e)'
  <2> SUFFICES ASSUME NEW e \in Entries, pendq'[e] # <<>>
               PROVE  \E d \in Conts : Building(d, e)'
    OBVIOUS
  <2>1. CASE e = b
    BY <1>1, <2>1 DEF Builds
  <2>2. CASE e # b
    BY <1>1, <1>2, <2>2 DEF Builds
  <2> QED
    BY <2>1, <2>2
<1>9. ASSUME NEW e \in Entries, NEW i \in DOMAIN pendq'[e]
      PROVE  cont'[pendq'[e][i]].pc = "queued" /\ cont'[pendq'[e][i]].ent = e
  <2>1. CASE e = b /\ i = n + 1
    BY <1>0, <1>3, <2>1
  <2>2. CASE e = b /\ i # n + 1
    <3>1. i \in DOMAIN pendq[b] /\ pendq'[b][i] = pendq[b][i]
      BY <1>3, <1>4, <2>2
    <3> QED
      BY <1>0, <1>5, <2>2, <3>1 DEF Builds
  <2>3. CASE e # b
    <3>1. pendq'[e] = pendq[e]
      BY <1>2, <2>3
    <3> QED
      BY <1>0, <1>5, <3>1 DEF Builds
  <2> QED
    BY <2>1, <2>2, <2>3
<1>10. ASSUME NEW d \in Conts, cont'[d].pc = "queued"
       PROVE  \E i \in DOMAIN pendq'[cont'[d].ent] : pendq'[cont'[d].ent][i] = d
  <2>1. CASE d = c
    <3>1. n + 1 \in DOMAIN pendq'[b]
      BY <1>3
    <3> QED
      BY <1>0, <1>3, <2>1, <3>1
  <2>2. CASE d # c
    <3> DEFINE e == cont[d].ent
    <3>1. cont'[d] = cont[d] /\ e \in Entries
      BY <1>0, <1>10, <2>2 DEF Shapes, Shaped
    <3>2. PICK i \in DOMAIN pendq[e] : pendq[e][i] = d
      BY <1>10, <3>1 DEF Builds
    <3>3. CASE e = b
      <4>1. i \in DOMAIN pendq'[b] /\ pendq'[b][i] = d
        BY <1>3, <3>2, <3>3
      <4> QED
        BY <3>1, <3>3, <4>1
    <3>4. CASE e # b
      BY <1>2, <3>1, <3>2, <3>4
    <3> QED
      BY <3>3, <3>4
  <2> QED
    BY <2>1, <2>2
<1>11. ASSUME NEW e \in Entries, NEW i \in DOMAIN pendq'[e], NEW j \in DOMAIN pendq'[e], pendq'[e][i] = pendq'[e][j]
       PROVE  i = j
  <2>1. CASE e = b
    <3>1. \A m \in DOMAIN pendq[b] : pendq'[b][m] = pendq[b][m] /\ pendq[b][m] # c
      BY <1>3, <1>5
    <3> QED
      BY <1>3, <1>4, <1>11, <2>1, <3>1 DEF Builds
  <2>2. CASE e # b
    BY <1>2, <1>11, <2>2 DEF Builds
  <2> QED
    BY <2>1, <2>2
<1> QED
  BY <1>2, <1>6, <1>7, <1>8, <1>9, <1>10, <1>11 DEF Builds

\* A builder ends when the entry it built is no longer building and the queue
\* is empty or it goes on to pop it.
LEMMA BuildsEnded ==
  ASSUME Types, Builds, Shapes, pendq' = pendq, NEW c \in Conts, NEW r, NEW b \in Entries,
         \A d \in Conts : cont'[d] = IF d = c THEN r ELSE cont[d],
         cont[c].op = "build", cont[c].ent = b, r.pc # "queued",
         (r.op = "build" /\ r.ent = b) \/ (r.op = "none" /\ pendq[b] = <<>>),
         est'[b] # "BUILDING",
         \A x \in Entries : est'[x] = "BUILDING" => est[x] = "BUILDING"
  PROVE  Builds'
<1>0. cont'[c] = r /\ \A d \in Conts \ {c} : cont'[d] = cont[d]
  OBVIOUS
<1>1. \A d \in Conts, e \in Entries : Building(d, e)' => Building(d, e)
  BY <1>0 DEF Building
<1>2. \A d \in Conts, e \in Entries : Building(d, e) /\ e # b => Building(d, e)' /\ cont'[d] = cont[d]
  BY <1>0 DEF Building
<1>3. pendq[b] # <<>> => Building(c, b)'
  BY <1>0 DEF Building
<1>4. \A d, f \in Conts, e \in Entries : Building(d, e)' /\ Building(f, e)' => d = f
  BY <1>1 DEF Builds
<1>5. \A e \in Entries : est'[e] = "BUILDING" => \E d \in Conts : Building(d, e)' /\ cont'[d].pc \in {"remote", "replace"}
  BY <1>2 DEF Builds
<1>6. \A e \in Entries : pendq[e] # <<>> => \E d \in Conts : Building(d, e)'
  BY <1>2, <1>3 DEF Builds
<1>7. cont[c].pc # "queued"
  BY DEF Shapes, Shaped
<1>8. ASSUME NEW e \in Entries, NEW i \in DOMAIN pendq[e]
      PROVE  cont'[pendq[e][i]].pc = "queued" /\ cont'[pendq[e][i]].ent = e
  <2>1. pendq[e][i] \in Conts /\ cont[pendq[e][i]].pc = "queued"
    BY LenProperties, ElementOfSeq DEF Types, Builds
  <2>2. pendq[e][i] # c
    BY <1>7, <2>1
  <2> QED
    BY <1>0, <2>1, <2>2 DEF Builds
<1>9. \A d \in Conts : cont'[d].pc = "queued" => \E i \in DOMAIN pendq[cont'[d].ent] : pendq[cont'[d].ent][i] = d
  BY <1>0 DEF Builds
<1>10. \A e \in Entries : \A i, j \in DOMAIN pendq[e] : pendq[e][i] = pendq[e][j] => i = j
  BY DEF Builds
<1> QED
  BY <1>4, <1>5, <1>6, <1>8, <1>9, <1>10 DEF Builds

\* The first of the queue of b is popped.
LEMMA BuildsPopped ==
  ASSUME Types, Builds, Shapes, NEW b \in Entries, pendq[b] # <<>>,
         pendq' = [pendq EXCEPT ![b] = Tail(@)], NEW r, est' = est,
         \A d \in Conts : cont'[d] = IF d = Head(pendq[b]) THEN r ELSE cont[d],
         r.op = "none", r.pc # "queued"
  PROVE  /\ Builds' /\ pendq' \in [Entries -> Seq(Conts)]
         /\ Head(pendq[b]) \in Conts
         /\ cont[Head(pendq[b])].pc = "queued" /\ cont[Head(pendq[b])].ent = b
<1> DEFINE q == Head(pendq[b])
           n == Len(pendq[b])
<1>1. /\ n \in Nat \ {0} /\ DOMAIN pendq[b] = 1..n /\ q = pendq[b][1]
      /\ pendq'[b] = Tail(pendq[b]) /\ pendq'[b] \in Seq(Conts)
      /\ DOMAIN pendq'[b] = 1..(n - 1) /\ \A i \in 1..(n - 1) : pendq'[b][i] = pendq[b][i + 1]
      /\ \A i \in 1..n : pendq[b][i] \in Conts
      /\ \A e \in Entries \ {b} : pendq'[e] = pendq[e]
      /\ pendq' \in [Entries -> Seq(Conts)]
  <2>1. pendq[b] \in Seq(Conts)
    BY DEF Types
  <2>2. /\ n \in Nat \ {0} /\ DOMAIN pendq[b] = 1..n /\ q = pendq[b][1]
        /\ \A i \in 1..n : pendq[b][i] \in Conts
    BY <2>1, EmptySeq, LenProperties, ElementOfSeq
  <2>3. /\ Tail(pendq[b]) \in Seq(Conts) /\ Len(Tail(pendq[b])) = n - 1
        /\ \A i \in 1..(n - 1) : Tail(pendq[b])[i] = pendq[b][i + 1]
    BY <2>1, HeadTailProperties
  <2>4. DOMAIN Tail(pendq[b]) = 1..(n - 1)
    BY <2>3, LenProperties
  <2>5. pendq'[b] = Tail(pendq[b]) /\ (\A e \in Entries \ {b} : pendq'[e] = pendq[e])
        /\ pendq' \in [Entries -> Seq(Conts)]
    BY <2>3 DEF Types
  <2> QED
    BY <2>2, <2>3, <2>4, <2>5
<1> HIDE DEF q, n
<1>2. q \in Conts /\ cont[q].pc = "queued" /\ cont[q].ent = b
  <2>1. 1 \in DOMAIN pendq[b]
    BY <1>1
  <2> QED
    BY <1>1, <2>1 DEF Builds
<1>3. cont'[q] = r /\ \A d \in Conts \ {q} : cont'[d] = cont[d]
  BY <1>2 DEF q
<1>4. cont[q].op = "none"
  BY <1>2 DEF Shapes, Shaped
<1>5. \A d \in Conts, e \in Entries : Building(d, e)' <=> Building(d, e)
  BY <1>3, <1>4 DEF Building
<1>6. \A d, f \in Conts, e \in Entries : Building(d, e)' /\ Building(f, e)' => d = f
  BY <1>5 DEF Builds
<1>7. \A e \in Entries : est[e] = "BUILDING" => \E d \in Conts : Building(d, e)' /\ cont'[d].pc \in {"remote", "replace"}
  <2> SUFFICES ASSUME NEW e \in Entries, est[e] = "BUILDING"
               PROVE  \E d \in Conts : Building(d, e)' /\ cont'[d].pc \in {"remote", "replace"}
    OBVIOUS
  <2>1. PICK d \in Conts : Building(d, e) /\ cont[d].pc \in {"remote", "replace"}
    BY DEF Builds
  <2>2. d # q
    BY <1>2, <2>1
  <2> QED
    BY <1>3, <1>5, <2>1, <2>2
<1>8. \A e \in Entries : pendq'[e] # <<>> => \E d \in Conts : Building(d, e)'
  <2> SUFFICES ASSUME NEW e \in Entries, pendq'[e] # <<>>
               PROVE  \E d \in Conts : Building(d, e)'
    OBVIOUS
  <2>1. pendq[e] # <<>>
    BY <1>1
  <2> QED
    BY <1>5, <2>1 DEF Builds
<1>9. \A i \in 1..(n - 1) : i + 1 \in DOMAIN pendq[b] /\ pendq[b][i + 1] # q
  <2> SUFFICES ASSUME NEW i \in 1..(n - 1) PROVE i + 1 \in DOMAIN pendq[b] /\ pendq[b][i + 1] # q
    OBVIOUS
  <2>1. i + 1 \in DOMAIN pendq[b] /\ 1 \in DOMAIN pendq[b] /\ i + 1 # 1
    BY <1>1
  <2> QED
    BY <1>1, <2>1 DEF Builds
<1>10. \A e \in Entries \ {b} : \A i \in DOMAIN pendq[e] : pendq[e][i] \in Conts /\ pendq[e][i] # q
  BY <1>2, LenProperties, ElementOfSeq DEF Types, Builds
<1>11. ASSUME NEW e \in Entries, NEW i \in DOMAIN pendq'[e]
       PROVE  cont'[pendq'[e][i]].pc = "queued" /\ cont'[pendq'[e][i]].ent = e
  <2>1. CASE e = b
    <3>1. pendq'[e][i] = pendq[b][i + 1] /\ i + 1 \in DOMAIN pendq[b] /\ pendq[b][i + 1] \in Conts \ {q}
      BY <1>1, <1>9, <2>1
    <3> QED
      BY <1>3, <2>1, <3>1 DEF Builds
  <2>2. CASE e # b
    <3>1. pendq'[e] = pendq[e]
      BY <1>1, <2>2
    <3> QED
      BY <1>3, <1>10, <2>2, <3>1 DEF Builds
  <2> QED
    BY <2>1, <2>2
<1>12. ASSUME NEW d \in Conts, cont'[d].pc = "queued"
       PROVE  \E i \in DOMAIN pendq'[cont'[d].ent] : pendq'[cont'[d].ent][i] = d
  <2> DEFINE e == cont[d].ent
  <2>1. d # q /\ cont'[d] = cont[d] /\ e \in Entries
    BY <1>3, <1>12 DEF Shapes, Shaped
  <2>2. PICK i \in DOMAIN pendq[e] : pendq[e][i] = d
    BY <1>12, <2>1 DEF Builds
  <2>3. CASE e = b
    <3>1. i # 1 /\ i \in 1..n
      BY <1>1, <2>1, <2>2, <2>3
    <3>2. i - 1 \in 1..(n - 1) /\ (i - 1) + 1 = i
      BY <1>1, <3>1
    <3>3. pendq'[b][i - 1] = d /\ i - 1 \in DOMAIN pendq'[b]
      BY <1>1, <2>2, <2>3, <3>2
    <3> QED
      BY <2>1, <2>3, <3>3
  <2>4. CASE e # b
    BY <1>1, <2>1, <2>2, <2>4
  <2> QED
    BY <2>3, <2>4
<1>13. ASSUME NEW e \in Entries, NEW i \in DOMAIN pendq'[e], NEW j \in DOMAIN pendq'[e], pendq'[e][i] = pendq'[e][j]
       PROVE  i = j
  <2>1. CASE e = b
    <3>1. i \in 1..(n - 1) /\ j \in 1..(n - 1)
      BY <1>1, <2>1
    <3>2. i + 1 \in DOMAIN pendq[b] /\ j + 1 \in DOMAIN pendq[b] /\ pendq[b][i + 1] = pendq[b][j + 1]
      BY <1>1, <1>9, <1>13, <2>1, <3>1
    <3>3. i + 1 = j + 1
      BY <3>2 DEF Builds
    <3> QED
      BY <1>1, <3>1, <3>3
  <2>2. CASE e # b
    BY <1>1, <1>13, <2>2 DEF Builds
  <2> QED
    BY <2>1, <2>2
<1>14. Builds'
  BY <1>6, <1>7, <1>8, <1>11, <1>12, <1>13 DEF Builds
<1> QED
  BY <1>1, <1>2, <1>14 DEF q

(***************************************************************************)
(* Callers and the continuations that will call them back                  *)
(***************************************************************************)

\* Nobody begins or ends to wait, and the continuation c, if it is one, keeps
\* its caller.
LEMMA RepliesKept ==
  ASSUME Replies, UNCHANGED <<ask, got>>, NEW c, NEW r,
         \A d \in Conts : cont'[d] = IF d = c THEN r ELSE cont[d],
         c \in Conts => /\ r.pc # "free" /\ cont[c].pc # "free" /\ r.who = cont[c].who
                        /\ r.notify <=> cont[c].notify
                        /\ r.cancelled <=> cont[c].cancelled
  PROVE  Replies'
<1>1. ASSUME NEW d \in Conts, NEW k \in Callers
      PROVE  Expects(d, k)' <=> Expects(d, k)
  <2>1. CASE d = c
    BY <2>1 DEF Expects, Told
  <2>2. CASE d # c
    <3>1. cont'[d] = cont[d]
      BY <2>2
    <3> QED
      BY <3>1 DEF Expects, Told
  <2> QED
    BY <2>1, <2>2
<1> QED
  BY <1>1 DEF Replies

\* A caller begins to wait for a new continuation.
LEMMA RepliesBegun ==
  ASSUME Types, Replies, NEW k \in Callers, NEW c \in Conts, NEW r,
         ask[k] = "idle", ask' = [ask EXCEPT ![k] = "waiting"], got' = got,
         \A d \in Conts : cont'[d] = IF d = c THEN r ELSE cont[d],
         cont[c].pc = "free", r.pc # "free", r.who = k, r.notify, ~r.cancelled
  PROVE  Replies'
<1>0. ask' \in [Callers -> {"idle", "waiting", "holding"}] /\ ask'[k] = "waiting" /\ \A j \in Callers \ {k} : ask'[j] = ask[j]
  BY DEF Types
<1>1. \A d \in Conts : ~Expects(d, k) /\ \A j \in Callers : ~Expects(c, j)
  BY DEF Replies, Expects
<1>2. \A d \in Conts \ {c}, j \in Callers : Expects(d, j)' <=> Expects(d, j)
  BY DEF Expects, Told
<1>3. \A j \in Callers : Expects(c, j)' <=> j = k
  <2>1. cont'[c] = r
    OBVIOUS
  <2> QED
    BY <2>1 DEF Expects, Told
<1>4. \A j \in Callers, d \in Conts : Expects(d, j)' => ask'[j] = "waiting"
  BY <1>0, <1>1, <1>2, <1>3 DEF Replies
<1>5. \A j \in Callers, d, f \in Conts : Expects(d, j)' /\ Expects(f, j)' => d = f
  BY <1>1, <1>2, <1>3 DEF Replies
<1>6. \A j \in Callers : ask'[j] = "waiting" => \E d \in Conts : Expects(d, j)'
  BY <1>0, <1>1, <1>2, <1>3 DEF Replies
<1>7. \A j \in Callers : ask'[j] # "holding" => got'[j] = None
  BY <1>0 DEF Replies
<1> QED
  BY <1>4, <1>5, <1>6, <1>7 DEF Replies

\* A caller that was idle is given an entry at once; a continuation c that calls
\* nobody back may go on.
LEMMA RepliesServed ==
  ASSUME Types, Replies, NEW k \in Callers, NEW e, NEW c, NEW r,
         ask[k] = "idle", ask' = [ask EXCEPT ![k] = "holding"], got' = [got EXCEPT ![k] = e],
         \A d \in Conts : cont'[d] = IF d = c THEN r ELSE cont[d],
         c \in Conts => cont[c].pc = "free" /\ ~r.notify
  PROVE  Replies'
<1>0. /\ ask'[k] = "holding" /\ \A j \in Callers \ {k} : ask'[j] = ask[j] /\ got'[j] = got[j]
  BY DEF Types
<1>1. \A d \in Conts : ~Expects(d, k)
  BY DEF Replies, Expects
<1>2. \A d \in Conts, j \in Callers : Expects(d, j)' <=> Expects(d, j)
  BY DEF Expects, Told
<1> QED
  BY <1>0, <1>1, <1>2 DEF Replies

\* Serving a caller at once leaves nobody who would call it back.
LEMMA RepliesGranted ==
  ASSUME Types, Replies, NEW k \in Callers, NEW e, NEW c \in Conts, NEW r,
         ask[k] = "idle", ask' = [ask EXCEPT ![k] = "holding"], got' = [got EXCEPT ![k] = e],
         \A d \in Conts : cont'[d] = IF d = c THEN r ELSE cont[d],
         cont[c].pc = "free", ~r.notify
  PROVE  Replies'
<1>0. /\ ask'[k] = "holding" /\ \A j \in Callers \ {k} : ask'[j] = ask[j] /\ got'[j] = got[j]
  BY DEF Types
<1>1. \A d \in Conts : ~Expects(d, k)
  BY DEF Replies, Expects
<1>2. \A d \in Conts, j \in Callers : Expects(d, j)' <=> Expects(d, j)
  BY DEF Expects, Told
<1> QED
  BY <1>0, <1>1, <1>2 DEF Replies

\* The continuation c calls back and ends.
LEMMA RepliesEnded ==
  ASSUME Types, Shapes, Replies, NEW c \in Conts, NEW e, NEW s, cont[c].pc # "free",
         Notify(c, e, s), cont' = [cont EXCEPT ![c] = FreeCont]
  PROVE  Replies'
<1> DEFINE k == cont[c].who
<1>0. k \in Callers /\ cont'[c] = FreeCont /\ \A d \in Conts \ {c} : cont'[d] = cont[d]
  BY DEF Types, Shapes, Shaped
<1>1. \A d \in Conts \ {c}, j \in Callers : Expects(d, j)' <=> Expects(d, j)
  BY <1>0 DEF Expects, Told
<1>2. \A j \in Callers : ~Expects(c, j)'
  BY <1>0, FreeShape DEF Expects
<1>3. CASE Told(c)
  <2>1. Expects(c, k)
    BY <1>3 DEF Expects
  <2>2. ask'[k] = "holding" /\ \A j \in Callers \ {k} : ask'[j] = ask[j] /\ got'[j] = got[j]
    BY <1>0, <1>3 DEF Notify, Types
  <2>3. \A j \in Callers \ {k} : ~Expects(c, j)
    BY DEF Expects
  <2>4. \A d \in Conts : Expects(d, k) => d = c
    BY <1>0, <2>1 DEF Replies
  <2> HIDE DEF k
  <2> QED
    BY <1>0, <1>1, <1>2, <2>2, <2>3, <2>4 DEF Replies
<1>4. CASE ~Told(c)
  <2>1. ask' = ask /\ got' = got
    BY <1>4 DEF Notify
  <2>2. \A j \in Callers : ~Expects(c, j)
    BY <1>4 DEF Expects
  <2> QED
    BY <1>1, <1>2, <2>1, <2>2 DEF Replies
<1> QED
  BY <1>3, <1>4

\* notify_caller() gives the entry to one caller and to its thread's map.
LEMMA NotifyTypes ==
  ASSUME Types, Shapes, NEW c \in Conts, NEW e \in Entries \cup {None}, NEW s, cont[c].pc # "free", Notify(c, e, s)
  PROVE  /\ ask' \in [Callers -> {"idle", "waiting", "holding"}]
         /\ got' \in [Callers -> Entries \cup {None}]
         /\ tc' \in [Callers -> Entries \cup {None}]
         /\ \A k \in Callers : got'[k] \in {got[k], e}
         /\ \A k \in Callers : tc'[k] \in {tc[k], e}
BY DEF Types, Shapes, Shaped, Notify

(***************************************************************************)
(* References                                                              *)
(***************************************************************************)

\* The pointers of the continuations: to the entry in the cache, and to the
\* one that was fetched.
EntOf == [c \in Conts |-> cont[c].ent]
NewestOf == [c \in Conts |-> cont[c].newest]

\* Holders outside the cache and its todo list.
Used(x) == At(tc, Callers, x) + At(got, Callers, x)
Kept(x) == At(EntOf, Conts, x) + At(NewestOf, Conts, x)
Outside(x) == Used(x) + Kept(x)
Inside(x) == Is(cache, x) + 2 * Count(x, todo)

\* The references to an entry, by who holds them.
LEMMA HoldersAre ==
  ASSUME Types, NEW x
  PROVE  /\ Holders(x) = Inside(x) + Outside(x)
         /\ Outside(x) \in Nat /\ Inside(x) \in Nat
         /\ Used(x) \in Nat /\ Kept(x) \in Nat
         /\ At(tc, Callers, x) \in Nat /\ At(got, Callers, x) \in Nat
         /\ At(EntOf, Conts, x) \in Nat /\ At(NewestOf, Conts, x) \in Nat
         /\ Count(x, todo) \in Nat /\ Count(x, lost) \in Nat
<1>1. /\ At(tc, Callers, x) \in Nat /\ At(got, Callers, x) \in Nat
      /\ At(EntOf, Conts, x) \in Nat /\ At(NewestOf, Conts, x) \in Nat
  BY AtNat, RouteAssumption
<1>2. Count(x, todo) \in Nat /\ Count(x, lost) \in Nat
  BY CountNat DEF Types
<1>3. At(EntOf, Conts, x) = Cardinality({c \in Conts : cont[c].ent = x})
  <2>1. {c \in Conts : cont[c].ent = x} = {c \in Conts : EntOf[c] = x}
    BY DEF EntOf
  <2> QED
    BY <2>1 DEF At
<1>4. At(NewestOf, Conts, x) = Cardinality({c \in Conts : cont[c].newest = x})
  <2>1. {c \in Conts : cont[c].newest = x} = {c \in Conts : NewestOf[c] = x}
    BY DEF NewestOf
  <2> QED
    BY <2>1 DEF At
<1>5. At(tc, Callers, x) = Cardinality({k \in Callers : tc[k] = x}) /\ At(got, Callers, x) = Cardinality({k \in Callers : got[k] = x})
  BY DEF At
<1>6. Inside(x) \in Nat /\ Is(cache, x) \in Nat
  BY <1>2 DEF Inside, Is
<1>7. Used(x) \in Nat /\ Kept(x) \in Nat /\ Outside(x) \in Nat
  BY <1>1 DEF Outside, Used, Kept
<1>8. Holders(x) = Is(cache, x) + 2 * Count(x, todo) + At(tc, Callers, x) + At(got, Callers, x)
                   + At(EntOf, Conts, x) + At(NewestOf, Conts, x)
  BY <1>3, <1>4, <1>5 DEF Holders, Is
<1>9. Holders(x) = Inside(x) + Outside(x)
  BY <1>1, <1>2, <1>6, <1>8 DEF Inside, Outside, Used, Kept
<1> QED
  BY <1>1, <1>2, <1>6, <1>7, <1>9

\* A continuation changes what it points to.
LEMMA ContHolds ==
  ASSUME Types, NEW c \in Conts, NEW r, \A d \in Conts : cont'[d] = IF d = c THEN r ELSE cont[d], NEW x
  PROVE  /\ At(EntOf, Conts, x)' = At(EntOf, Conts, x) + Is(r.ent, x) - Is(cont[c].ent, x)
         /\ At(NewestOf, Conts, x)' = At(NewestOf, Conts, x) + Is(r.newest, x) - Is(cont[c].newest, x)
<1>1. \A d \in Conts : EntOf'[d] = IF d = c THEN r.ent ELSE EntOf[d]
  BY DEF EntOf
<1>2. \A d \in Conts : NewestOf'[d] = IF d = c THEN r.newest ELSE NewestOf[d]
  BY DEF NewestOf
<1>3. EntOf[c] = cont[c].ent /\ NewestOf[c] = cont[c].newest
  BY DEF EntOf, NewestOf
<1>4. At(EntOf', Conts, x) = At(EntOf, Conts, x) + Is(r.ent, x) - Is(EntOf[c], x)
  BY <1>1, AtExcept, RouteAssumption
<1>5. At(NewestOf', Conts, x) = At(NewestOf, Conts, x) + Is(r.newest, x) - Is(NewestOf[c], x)
  BY <1>2, AtExcept, RouteAssumption
<1>6. At(EntOf, Conts, x)' = At(EntOf', Conts, x) /\ At(NewestOf, Conts, x)' = At(NewestOf', Conts, x)
  BY DEF At
<1> QED
  BY <1>3, <1>4, <1>5, <1>6

\* Nobody gains when the continuations keep their pointers.
LEMMA ContSame ==
  ASSUME \A d \in Conts : cont'[d].ent = cont[d].ent /\ cont'[d].newest = cont[d].newest, NEW x
  PROVE  /\ At(EntOf, Conts, x)' = At(EntOf, Conts, x)
         /\ At(NewestOf, Conts, x)' = At(NewestOf, Conts, x)
<1>1. EntOf' = EntOf /\ NewestOf' = NewestOf
  BY DEF EntOf, NewestOf
<1> QED
  BY <1>1 DEF At

\* What a change of one caller's pointer, or of one thread's map, counts for.
LEMMA MapHolds ==
  ASSUME Types, NEW k \in Callers, NEW e, NEW x
  PROVE  /\ tc' = [tc EXCEPT ![k] = e] => At(tc, Callers, x)' = At(tc, Callers, x) + Is(e, x) - Is(tc[k], x)
         /\ got' = [got EXCEPT ![k] = e] => At(got, Callers, x)' = At(got, Callers, x) + Is(e, x) - Is(got[k], x)
         /\ tc' = tc => At(tc, Callers, x)' = At(tc, Callers, x)
         /\ got' = got => At(got, Callers, x)' = At(got, Callers, x)
<1>1. ASSUME tc' = [tc EXCEPT ![k] = e]
      PROVE  At(tc, Callers, x)' = At(tc, Callers, x) + Is(e, x) - Is(tc[k], x)
  <2>1. \A j \in Callers : tc'[j] = IF j = k THEN e ELSE tc[j]
    BY <1>1 DEF Types
  <2>2. At(tc', Callers, x) = At(tc, Callers, x) + Is(e, x) - Is(tc[k], x)
    BY <2>1, AtExcept, RouteAssumption
  <2> QED
    BY <2>2 DEF At
<1>2. ASSUME got' = [got EXCEPT ![k] = e]
      PROVE  At(got, Callers, x)' = At(got, Callers, x) + Is(e, x) - Is(got[k], x)
  <2>1. \A j \in Callers : got'[j] = IF j = k THEN e ELSE got[j]
    BY <1>2 DEF Types
  <2>2. At(got', Callers, x) = At(got, Callers, x) + Is(e, x) - Is(got[k], x)
    BY <2>1, AtExcept, RouteAssumption
  <2> QED
    BY <2>2 DEF At
<1> QED
  BY <1>1, <1>2 DEF At

\* Nobody gains when callers and maps keep their pointers.
LEMMA MapSame ==
  ASSUME NEW x
  PROVE  /\ tc' = tc => At(tc, Callers, x)' = At(tc, Callers, x)
         /\ got' = got => At(got, Callers, x)' = At(got, Callers, x)
BY DEF At

\* What the section does to the references of the cache: an entry that is new
\* to it must bring one of its own.
LEMMA InsideLocked ==
  ASSUME Types, Store, NEW e \in Entries \cup {None}, cache' = e, todo' = <<>>, NEW x \in Entries
  PROVE  Inside(x)' = Inside(x) - Count(x, todo) - (IF x \in Gone(e) THEN 1 ELSE 0)
                      + (IF e = x /\ e \notin Reachable THEN 1 ELSE 0)
<1>0. x # None
  BY RouteAssumption
<1>1. Inside(x)' = Is(e, x)
  <2>1. Count(x, todo)' = 0
    BY CountEmpty DEF Count
  <2> QED
    BY <2>1 DEF Inside, Is
<1>2. x \in Gone(e) <=> x \in Reachable /\ x # e
  BY <1>0 DEF Gone, Reachable
<1>3. Is(cache, x) + Count(x, todo) = IF x \in Reachable THEN 1 ELSE 0
  <2>1. CASE x \in Range(todo)
    <3>1. Count(x, todo) = 1
      BY <2>1, CountOnce DEF Types, Store
    <3>2. x # cache /\ x \in Reachable
      BY <1>0, <2>1 DEF Store, Range, Reachable
    <3> QED
      BY <3>1, <3>2 DEF Is
  <2>2. CASE x \notin Range(todo)
    <3>1. Count(x, todo) = 0
      BY <2>2, CountZero DEF Types
    <3>2. x \in Reachable <=> x = cache
      BY <1>0, <2>2 DEF Reachable
    <3> QED
      BY <3>1, <3>2 DEF Is
  <2> QED
    BY <2>1, <2>2
<1>4. Count(x, todo) \in Nat
  BY HoldersAre
<1>5. Inside(x) = Is(cache, x) + 2 * Count(x, todo) /\ Is(cache, x) \in Nat
  BY DEF Inside, Is
<1>6. Is(e, x) = IF e = x THEN 1 ELSE 0
  BY DEF Is
<1> QED
  BY <1>1, <1>2, <1>3, <1>4, <1>5, <1>6

\* Nobody gains when the cache and its todo list stay as they are.
LEMMA InsideSame ==
  ASSUME cache' = cache, todo' = todo, NEW x
  PROVE  Inside(x)' = Inside(x)
BY DEF Inside, Is, Count

\* All the counts are natural numbers and add up.
Counts == \A x : /\ Holders(x) = Inside(x) + Outside(x)
                 /\ Outside(x) = Used(x) + Kept(x)
                 /\ Outside(x) \in Nat /\ Inside(x) \in Nat /\ Used(x) \in Nat /\ Kept(x) \in Nat
                 /\ Count(x, lost) \in Nat

\* The counts of a state whose variables have their types.
LEMMA CountsAre == Types => Counts
BY HoldersAre DEF Counts, Outside

\* The same after a step.
LEMMA CountsAreNext == Types' => Counts'
BY CountsAre, PTL

\* The references counted change as the holders do.
LEMMA RefsStep ==
  ASSUME Types, Types', RefsExact,
         \A x \in Entries : refs'[x] = refs[x] + (Inside(x)' - Inside(x)) + (Outside(x)' - Outside(x))
                                       + (Count(x, lost)' - Count(x, lost))
  PROVE  RefsExact'
<1>1. ASSUME NEW x \in Entries
      PROVE  refs'[x] = Holders(x)' + Count(x, lost)'
  <2>1. /\ Holders(x) = Inside(x) + Outside(x) /\ Outside(x) \in Nat /\ Inside(x) \in Nat /\ Count(x, lost) \in Nat
    BY CountsAre DEF Counts
  <2>2. /\ Holders(x)' = Inside(x)' + Outside(x)' /\ Outside(x)' \in Nat /\ Inside(x)' \in Nat /\ Count(x, lost)' \in Nat
    BY CountsAreNext DEF Counts
  <2>3. refs[x] = Holders(x) + Count(x, lost)
    BY DEF RefsExact
  <2>4. refs'[x] = refs[x] + (Inside(x)' - Inside(x)) + (Outside(x)' - Outside(x))
                   + (Count(x, lost)' - Count(x, lost))
    OBVIOUS
  <2> QED
    BY <2>1, <2>2, <2>3, <2>4
<1> QED
  BY <1>1 DEF RefsExact

\* No reference is lost when the list of lost ones stays as it is.
LEMMA LostSame ==
  ASSUME lost' = lost, NEW x
  PROVE  Count(x, lost)' = Count(x, lost)
BY DEF Count

\* Calling back moves the reference of e to the caller or gives it back.
LEMMA NotifyHolds ==
  ASSUME Types, Shapes, Replies, NEW c \in Conts, cont[c].pc # "free", NEW e \in Entries \cup {None}, NEW s,
         Notify(c, e, s), cont' = [cont EXCEPT ![c] = FreeCont], NEW x \in Entries
  PROVE  /\ Outside(x)' = Outside(x) + Count(x, NotifyInc(c, e, s)) - Count(x, NotifyDec(c, e, s))
                          + Is(e, x) - Is(cont[c].newest, x)
         /\ Count(x, NotifyInc(c, e, s)) \in Nat /\ Count(x, NotifyDec(c, e, s)) \in Nat
         /\ NotifyInc(c, e, s) \in Seq(Entries \cup {None}) /\ NotifyDec(c, e, s) \in Seq(Entries \cup {None})
<1> DEFINE m == Mapped(c, e, s)
           t == Told(c)
           P == Entries \cup {None}
<1>a. PICK k \in Callers : k = cont[c].who
  BY DEF Shapes, Shaped
<1>0. k \in Callers /\ cont[c].ent \in P /\ cont[c].newest \in P /\ tc[k] \in P /\ x # None
  BY <1>a, RouteAssumption DEF Types, Cont
<1>1. NotifyInc(c, e, s) \in Seq(P) /\ Count(x, NotifyInc(c, e, s)) = IF m THEN Is(e, x) ELSE 0
  <2>1. CASE m
    BY <2>1, CountOne DEF NotifyInc
  <2>2. CASE ~m
    BY <2>2, CountEmpty, EmptySeq DEF NotifyInc
  <2> QED
    BY <2>1, <2>2
<1>2. /\ NotifyDec(c, e, s) \in Seq(P)
      /\ Count(x, NotifyDec(c, e, s)) = Is(cont[c].ent, x) + (IF m THEN Is(tc[k], x) ELSE 0) + (IF t THEN 0 ELSE Is(e, x))
  <2> DEFINE a == <<cont[c].ent>>
             u == IF m THEN <<tc[k]>> ELSE <<>>
             v == IF t THEN <<>> ELSE <<e>>
  <2>1. NotifyDec(c, e, s) = (a \o u) \o v
    BY <1>a DEF NotifyDec
  <2>2. a \in Seq(P) /\ Count(x, a) = Is(cont[c].ent, x)
    BY <1>0, CountOne
  <2>3. u \in Seq(P) /\ Count(x, u) = IF m THEN Is(tc[k], x) ELSE 0
    <3>1. CASE m
      <4>1. u = <<tc[k]>>
        BY <3>1
      <4> HIDE DEF m, u
      <4> QED
        BY <1>0, <3>1, <4>1, CountOne
    <3>2. CASE ~m
      <4>1. u = <<>>
        BY <3>2
      <4> HIDE DEF m, u
      <4> QED
        BY <3>2, <4>1, CountEmpty, EmptySeq
    <3> QED
      BY <3>1, <3>2
  <2>4. v \in Seq(P) /\ Count(x, v) = IF t THEN 0 ELSE Is(e, x)
    <3>1. CASE t
      <4>1. v = <<>>
        BY <3>1
      <4> HIDE DEF t, v
      <4> QED
        BY <3>1, <4>1, CountEmpty, EmptySeq
    <3>2. CASE ~t
      <4>1. v = <<e>>
        BY <3>2
      <4> HIDE DEF t, v
      <4> QED
        BY <3>2, <4>1, CountOne
    <3> QED
      BY <3>1, <3>2
  <2> HIDE DEF a, u, v
  <2>5. a \o u \in Seq(P) /\ (a \o u) \o v \in Seq(P)
    BY <2>2, <2>3, <2>4, ConcatProperties
  <2>6. Count(x, (a \o u) \o v) = Count(x, a) + Count(x, u) + Count(x, v)
    <3>1. Count(x, (a \o u) \o v) = Count(x, a \o u) + Count(x, v)
      BY <2>4, <2>5, CountConcat
    <3>2. Count(x, a \o u) = Count(x, a) + Count(x, u)
      BY <2>2, <2>3, CountConcat
    <3> QED
      BY <3>1, <3>2
  <2> QED
    BY <2>1, <2>2, <2>3, <2>4, <2>5, <2>6
<1>3. /\ At(EntOf, Conts, x)' = At(EntOf, Conts, x) - Is(cont[c].ent, x)
      /\ At(NewestOf, Conts, x)' = At(NewestOf, Conts, x) - Is(cont[c].newest, x)
  <2>1. \A d \in Conts : cont'[d] = IF d = c THEN FreeCont ELSE cont[d]
    BY DEF Types
  <2>2. Is(FreeCont.ent, x) = 0 /\ Is(FreeCont.newest, x) = 0
    BY <1>0, FreeShape DEF Is
  <2>3. /\ At(EntOf, Conts, x)' = At(EntOf, Conts, x) + Is(FreeCont.ent, x) - Is(cont[c].ent, x)
        /\ At(NewestOf, Conts, x)' = At(NewestOf, Conts, x) + Is(FreeCont.newest, x) - Is(cont[c].newest, x)
    BY <2>1, ContHolds
  <2> QED
    BY <2>2, <2>3, HoldersAre DEF Is
<1>4. At(tc, Callers, x)' = At(tc, Callers, x) + (IF m THEN Is(e, x) - Is(tc[k], x) ELSE 0)
  <2>1. tc' = IF m THEN [tc EXCEPT ![k] = e] ELSE tc
    BY <1>a DEF Notify
  <2> HIDE DEF m
  <2>2. tc' = [tc EXCEPT ![k] = e] => At(tc, Callers, x)' = At(tc, Callers, x) + Is(e, x) - Is(tc[k], x)
    BY <1>0, MapHolds
  <2>3. tc' = tc => At(tc, Callers, x)' = At(tc, Callers, x)
    BY MapSame
  <2>4. At(tc, Callers, x) \in Nat /\ Is(e, x) \in Nat /\ Is(tc[k], x) \in Nat
    BY HoldersAre DEF Is
  <2> QED
    BY <2>1, <2>2, <2>3, <2>4
<1>5. At(got, Callers, x)' = At(got, Callers, x) + (IF t THEN Is(e, x) ELSE 0)
  <2>1. got' = IF t THEN [got EXCEPT ![k] = e] ELSE got
    BY <1>a DEF Notify
  <2>2. t => Is(got[k], x) = 0
    BY <1>0, <1>a DEF Replies, Expects, Is
  <2> HIDE DEF t
  <2>3. got' = [got EXCEPT ![k] = e] => At(got, Callers, x)' = At(got, Callers, x) + Is(e, x) - Is(got[k], x)
    BY <1>0, MapHolds
  <2>4. got' = got => At(got, Callers, x)' = At(got, Callers, x)
    BY MapSame
  <2>5. At(got, Callers, x) \in Nat /\ Is(e, x) \in Nat
    BY HoldersAre DEF Is
  <2> QED
    BY <2>1, <2>2, <2>3, <2>4, <2>5
<1>6. /\ Is(e, x) \in Nat /\ Is(cont[c].ent, x) \in Nat /\ Is(cont[c].newest, x) \in Nat /\ Is(tc[k], x) \in Nat
  BY DEF Is
<1>7. /\ At(tc, Callers, x) \in Nat /\ At(got, Callers, x) \in Nat
      /\ At(EntOf, Conts, x) \in Nat /\ At(NewestOf, Conts, x) \in Nat
  BY HoldersAre
<1>8. /\ Outside(x) = (At(tc, Callers, x) + At(got, Callers, x)) + (At(EntOf, Conts, x) + At(NewestOf, Conts, x))
      /\ Outside(x)' = (At(tc, Callers, x)' + At(got, Callers, x)') + (At(EntOf, Conts, x)' + At(NewestOf, Conts, x)')
  BY DEF Outside, Used, Kept
<1> HIDE DEF m, t
<1>9. /\ At(tc, Callers, x)' \in Int /\ At(got, Callers, x)' \in Int
      /\ At(EntOf, Conts, x)' \in Int /\ At(NewestOf, Conts, x)' \in Int
  BY <1>3, <1>4, <1>5, <1>6, <1>7
<1>10. Outside(x)' = Outside(x) + Count(x, NotifyInc(c, e, s)) - Count(x, NotifyDec(c, e, s))
                          + Is(e, x) - Is(cont[c].newest, x)
  <2>1. CASE m /\ t
    <3>1. /\ Count(x, NotifyInc(c, e, s)) = Is(e, x)
          /\ Count(x, NotifyDec(c, e, s)) = Is(cont[c].ent, x) + Is(tc[k], x)
      BY <1>1, <1>2, <1>6, <2>1
    <3>2. /\ At(tc, Callers, x)' = At(tc, Callers, x) + (Is(e, x) - Is(tc[k], x))
          /\ At(got, Callers, x)' = At(got, Callers, x) + Is(e, x)
      BY <1>4, <1>5, <1>6, <1>7, <2>1
    <3> QED
      BY <1>3, <1>6, <1>7, <1>8, <3>1, <3>2
  <2>2. CASE m /\ ~t
    <3>1. /\ Count(x, NotifyInc(c, e, s)) = Is(e, x)
          /\ Count(x, NotifyDec(c, e, s)) = Is(cont[c].ent, x) + Is(tc[k], x) + Is(e, x)
      BY <1>1, <1>2, <1>6, <2>2
    <3>2. /\ At(tc, Callers, x)' = At(tc, Callers, x) + (Is(e, x) - Is(tc[k], x))
          /\ At(got, Callers, x)' = At(got, Callers, x)
      BY <1>4, <1>5, <1>6, <1>7, <2>2
    <3> QED
      BY <1>3, <1>6, <1>7, <1>8, <3>1, <3>2
  <2>3. CASE ~m /\ t
    <3>1. /\ Count(x, NotifyInc(c, e, s)) = 0
          /\ Count(x, NotifyDec(c, e, s)) = Is(cont[c].ent, x)
      BY <1>1, <1>2, <1>6, <2>3
    <3>2. /\ At(tc, Callers, x)' = At(tc, Callers, x)
          /\ At(got, Callers, x)' = At(got, Callers, x) + Is(e, x)
      BY <1>4, <1>5, <1>6, <1>7, <2>3
    <3> QED
      BY <1>3, <1>6, <1>7, <1>8, <3>1, <3>2
  <2>4. CASE ~m /\ ~t
    <3>1. /\ Count(x, NotifyInc(c, e, s)) = 0
          /\ Count(x, NotifyDec(c, e, s)) = Is(cont[c].ent, x) + Is(e, x)
      BY <1>1, <1>2, <1>6, <2>4
    <3>2. /\ At(tc, Callers, x)' = At(tc, Callers, x)
          /\ At(got, Callers, x)' = At(got, Callers, x)
      BY <1>4, <1>5, <1>6, <1>7, <2>4
    <3> QED
      BY <1>3, <1>6, <1>7, <1>8, <3>1, <3>2
  <2> QED
    BY <2>1, <2>2, <2>3, <2>4
<1> QED
  BY <1>1, <1>2, <1>6, <1>10

(***************************************************************************)
(* What is left of the pool                                                *)
(***************************************************************************)

\* An entry that nobody knows and nobody fetched has no reference.
LEMMA Unpointed ==
  ASSUME Types, NEW x \in Entries, ~Known(x), \A d \in Conts : cont[d].newest # x
  PROVE  x \notin Pointers /\ Holders(x) = 0
<1>1. /\ x # cache /\ x \notin Range(todo)
      /\ \A k \in Callers : tc[k] # x /\ got[k] # x
      /\ \A d \in Conts : cont[d].ent # x /\ cont[d].newest # x
  BY RouteAssumption DEF Known, Reachable
<1>2. x \notin Pointers
  BY <1>1 DEF Pointers, Range, Types
<1>3. Is(cache, x) = 0 /\ Count(x, todo) = 0
  BY <1>1, CountZero DEF Is, Types
<1>4. At(tc, Callers, x) = 0 /\ At(got, Callers, x) = 0
  BY <1>1, AtNat, RouteAssumption
<1>5. At(EntOf, Conts, x) = 0 /\ At(NewestOf, Conts, x) = 0
  <2>1. \A d \in Conts : EntOf[d] # x /\ NewestOf[d] # x
    BY <1>1 DEF EntOf, NewestOf
  <2> QED
    BY <2>1, AtNat, RouteAssumption
<1>6. Inside(x) = 0 /\ Outside(x) = 0
  BY <1>3, <1>4, <1>5 DEF Inside, Outside, Used, Kept
<1> QED
  BY <1>2, <1>6, HoldersAre

\* The same for all entries.
LEMMA UnpointedAll ==
  Types => \A x \in Entries : ~Known(x) /\ (\A d \in Conts : cont[d].newest # x) => x \notin Pointers /\ Holders(x) = 0
BY Unpointed

\* The same after a step.
LEMMA UnpointedNext ==
  Types' => (\A x \in Entries : ~Known(x) /\ (\A d \in Conts : cont[d].newest # x) => x \notin Pointers /\ Holders(x) = 0)'
BY UnpointedAll, PTL

\* Nobody points to an unused entry.
LEMMA FreshIsUnknown ==
  ASSUME Types, NEW e \in Fresh
  PROVE  e \in Entries /\ e # None /\ refs[e] = 0 /\ ~Known(e)
         /\ \A d \in Conts : cont[d].newest # e /\ cont[d].ent # e /\ ~Own(d, e)
<1>1. /\ e \in Entries /\ refs[e] = 0
      /\ e # cache /\ e \notin Range(todo)
      /\ \A k \in Callers : tc[k] # e /\ got[k] # e
      /\ \A c \in Conts : cont[c].ent # e /\ cont[c].newest # e
  BY FreshUnknown DEF Types
<1> QED
  BY <1>1, RouteAssumption DEF Known, Own, Reachable

\* A step uses up no entry but the one it takes.
LEMMA FreshKept ==
  ASSUME Types, Types', RefsExact, RefsExact', NEW c, NEW r, NEW b, Moves(c, r, b),
         lost' = lost \/ \E y \in Entries : Known(y) /\ lost' = Append(lost, y)
  PROVE  Fresh \ {b} \subseteq Fresh'
<1> SUFFICES ASSUME NEW e \in Fresh, e # b PROVE e \in Fresh'
  OBVIOUS
<1>1. /\ e \in Entries /\ e # None /\ refs[e] = 0 /\ ~Known(e)
      /\ \A d \in Conts : cont[d].newest # e /\ cont[d].ent # e /\ ~Own(d, e)
  BY FreshIsUnknown
<1>2. ~Old(e, b)
  BY <1>1 DEF Old
<1>3. \A d \in Conts : cont'[d].ent # e /\ cont'[d].newest # e
  <2> SUFFICES ASSUME NEW d \in Conts PROVE cont'[d].ent # e /\ cont'[d].newest # e
    OBVIOUS
  <2>1. CASE d = c
    <3>1. cont'[d] = r
      BY <2>1 DEF Moves
    <3> QED
      BY <1>2, <3>1 DEF Moves
  <2>2. CASE d # c
    <3>1. cont'[d] = cont[d]
      BY <2>2 DEF Moves
    <3> QED
      BY <1>1, <3>1
  <2> QED
    BY <2>1, <2>2
<1>4. ~Known(e)'
  BY <1>2, <1>3 DEF Known, Moves
<1>5. (e \notin Pointers)' /\ Holders(e)' = 0
  BY <1>1, <1>3, <1>4, UnpointedNext
<1>6. Count(e, lost) = 0
  <2>1. refs[e] = Holders(e) + Count(e, lost) /\ Holders(e) = 0 /\ Count(e, lost) \in Nat
    BY <1>1, Unpointed, HoldersAre DEF RefsExact
  <2> QED
    BY <1>1, <2>1
<1>7. Count(e, lost)' = 0
  <2>1. CASE lost' = lost
    BY <1>6, <2>1 DEF Count
  <2>2. CASE \E y \in Entries : Known(y) /\ lost' = Append(lost, y)
    <3>1. PICK y \in Entries : Known(y) /\ lost' = Append(lost, y)
      BY <2>2
    <3>2. y # e
      BY <1>1, <3>1
    <3>3. Count(e, lost') = Count(e, lost) + Is(y, e)
      BY <3>1, CountAppend DEF Types
    <3> QED
      BY <1>6, <3>2, <3>3 DEF Count, Is
  <2> QED
    BY <2>1, <2>2
<1>8. refs'[e] = 0
  BY <1>1, <1>5, <1>7 DEF RefsExact
<1> QED
  BY <1>1, <1>5, <1>8 DEF Fresh

\* The pool is finite after a step as well.
LEMMA PoolFiniteNext ==
  (/\ IsFiniteSet(Fresh) /\ Cardinality(Fresh) \in Nat
   /\ IsFiniteSet(Waiting) /\ Cardinality(Waiting) \in Nat
   /\ Fresh \subseteq Entries)'
BY PoolFinite, PTL

\* A building entry can be allocated for whoever looks again.
LEMMA ReservedStep ==
  ASSUME Types, Types', RefsExact, RefsExact', Reserved, NEW c, NEW r, NEW b, Moves(c, r, b),
         lost' = lost \/ \E y \in Entries : Known(y) /\ lost' = Append(lost, y),
         \/ r.pc # "cache" /\ b \notin Fresh
         \/ r.pc # "cache" /\ Spare
         \/ r.pc # "cache" /\ c \in Conts /\ cont[c].pc = "cache"
         \/ Spare /\ b \notin Fresh
  PROVE  Reserved'
<1>1. Fresh \ {b} \subseteq Fresh'
  BY FreshKept
<1>2. Waiting' \subseteq Waiting \cup {c}
  BY DEF Waiting, Moves
<1>3. r.pc # "cache" => Waiting' \subseteq Waiting \ {c}
  BY DEF Waiting, Moves
<1>4. Spare => Cardinality(Waiting) < Cardinality(Fresh)
  BY PoolFinite DEF Spare, Waiting
<1>5. /\ IsFiniteSet(Fresh) /\ IsFiniteSet(Fresh') /\ IsFiniteSet(Waiting) /\ IsFiniteSet(Waiting')
      /\ Cardinality(Waiting) <= Cardinality(Fresh)
  BY PoolFinite, PoolFiniteNext DEF Reserved
<1>6. Cardinality(Waiting') <= Cardinality(Fresh')
  <2>1. CASE r.pc # "cache" /\ b \notin Fresh
    <3>1. Fresh \subseteq Fresh' /\ Waiting' \subseteq Waiting
      BY <1>1, <1>3, <2>1
    <3> QED
      BY <1>5, <3>1, PoolKept
  <2>2. CASE r.pc # "cache" /\ Spare
    <3>1. Waiting' \subseteq Waiting
      BY <1>3, <2>2
    <3> QED
      BY <1>1, <1>4, <1>5, <2>2, <3>1, PoolSpared
  <2>3. CASE r.pc # "cache" /\ c \in Conts /\ cont[c].pc = "cache"
    <3>1. c \in Waiting /\ Waiting' \subseteq Waiting \ {c}
      BY <1>3, <2>3 DEF Waiting
    <3> QED
      <4>1. Cardinality(Fresh) \in Nat /\ Cardinality(Fresh') \in Nat /\ Cardinality(Fresh) <= Cardinality(Fresh') + 1
        BY <1>1, <1>5, PoolLess
      <4>2. Cardinality(Waiting') \in Nat /\ Cardinality(Waiting) \in Nat /\ Cardinality(Waiting') <= Cardinality(Waiting) - 1
        BY <1>5, <3>1, PoolOneLess
      <4> QED
        BY <1>5, <4>1, <4>2
  <2>4. CASE Spare /\ b \notin Fresh
    <3>1. Fresh \subseteq Fresh'
      BY <1>1, <2>4
    <3> QED
      BY <1>2, <1>4, <1>5, <2>4, <3>1, PoolJoined
  <2> QED
    BY <2>1, <2>2, <2>3, <2>4
<1>7. Cardinality(Waiting)' = Cardinality(Waiting') /\ Cardinality(Fresh)' = Cardinality(Fresh')
  OBVIOUS
<1> QED
  BY <1>6, <1>7 DEF Reserved

(***************************************************************************)
(* A step as a whole                                                       *)
(***************************************************************************)

\* One or zero.
LEMMA IsNat == \A y, x : Is(y, x) \in Nat
BY DEF Is

\* A sequence of two.
LEMMA CountTwo ==
  ASSUME NEW y \in Entries \cup {None}, NEW z \in Entries \cup {None}, NEW x
  PROVE  Count(x, <<y, z>>) = Is(y, x) + Is(z, x)
<1>1. <<y, z>> = Append(<<y>>, z) /\ <<y>> \in Seq(Entries \cup {None})
  OBVIOUS
<1>2. Count(x, Append(<<y>>, z)) = Count(x, <<y>>) + Is(z, x)
  BY <1>1, CountAppend
<1> QED
  BY <1>1, <1>2, CountOne

\* What changes for the continuations when one of them moves.
LEMMA KeptStep ==
  ASSUME Types, NEW c \in Conts, NEW r, \A d \in Conts : cont'[d] = IF d = c THEN r ELSE cont[d], NEW x
  PROVE  Kept(x)' = Kept(x) + (Is(r.ent, x) - Is(cont[c].ent, x)) + (Is(r.newest, x) - Is(cont[c].newest, x))
<1>1. /\ At(EntOf, Conts, x)' = At(EntOf, Conts, x) + Is(r.ent, x) - Is(cont[c].ent, x)
      /\ At(NewestOf, Conts, x)' = At(NewestOf, Conts, x) + Is(r.newest, x) - Is(cont[c].newest, x)
  BY ContHolds
<1>2. /\ Kept(x) = At(EntOf, Conts, x) + At(NewestOf, Conts, x)
      /\ Kept(x)' = At(EntOf, Conts, x)' + At(NewestOf, Conts, x)'
  BY DEF Kept
<1>3. At(EntOf, Conts, x) \in Nat /\ At(NewestOf, Conts, x) \in Nat
  BY HoldersAre
<1>4. Is(r.ent, x) \in Nat /\ Is(cont[c].ent, x) \in Nat /\ Is(r.newest, x) \in Nat /\ Is(cont[c].newest, x) \in Nat
  BY IsNat
<1> QED
  BY <1>1, <1>2, <1>3, <1>4

\* The continuations hold what they held when none changes its pointers.
LEMMA KeptSame ==
  ASSUME \A d \in Conts : cont'[d].ent = cont[d].ent /\ cont'[d].newest = cont[d].newest, NEW x
  PROVE  Kept(x)' = Kept(x)
<1>1. /\ At(EntOf, Conts, x)' = At(EntOf, Conts, x)
      /\ At(NewestOf, Conts, x)' = At(NewestOf, Conts, x)
  BY ContSame
<1> QED
  BY <1>1 DEF Kept

\* What changes for the callers when one is served and its map is set.
LEMMA UsedStep ==
  ASSUME Types, NEW k \in Callers, NEW t, NEW g,
         tc' = [tc EXCEPT ![k] = t], got' = [got EXCEPT ![k] = g], NEW x
  PROVE  Used(x)' = Used(x) + (Is(t, x) - Is(tc[k], x)) + (Is(g, x) - Is(got[k], x))
<1>1. /\ At(tc, Callers, x)' = At(tc, Callers, x) + Is(t, x) - Is(tc[k], x)
      /\ At(got, Callers, x)' = At(got, Callers, x) + Is(g, x) - Is(got[k], x)
  BY MapHolds
<1>2. /\ Used(x) = At(tc, Callers, x) + At(got, Callers, x)
      /\ Used(x)' = At(tc, Callers, x)' + At(got, Callers, x)'
  BY DEF Used
<1>3. At(tc, Callers, x) \in Nat /\ At(got, Callers, x) \in Nat
  BY HoldersAre
<1>4. Is(t, x) \in Nat /\ Is(tc[k], x) \in Nat /\ Is(g, x) \in Nat /\ Is(got[k], x) \in Nat
  BY IsNat
<1> QED
  BY <1>1, <1>2, <1>3, <1>4

\* What changes for the callers when one of them is served.
LEMMA UsedGot ==
  ASSUME Types, NEW k \in Callers, NEW g, tc' = tc, got' = [got EXCEPT ![k] = g], NEW x
  PROVE  Used(x)' = Used(x) + (Is(g, x) - Is(got[k], x))
<1>1. /\ At(tc, Callers, x)' = At(tc, Callers, x)
      /\ At(got, Callers, x)' = At(got, Callers, x) + Is(g, x) - Is(got[k], x)
  BY MapHolds, MapSame
<1>2. /\ Used(x) = At(tc, Callers, x) + At(got, Callers, x)
      /\ Used(x)' = At(tc, Callers, x)' + At(got, Callers, x)'
  BY DEF Used
<1>3. At(tc, Callers, x) \in Nat /\ At(got, Callers, x) \in Nat
  BY HoldersAre
<1>4. Is(g, x) \in Nat /\ Is(got[k], x) \in Nat
  BY IsNat
<1> QED
  BY <1>1, <1>2, <1>3, <1>4

\* What changes for the callers when one thread's map is set.
LEMMA UsedMap ==
  ASSUME Types, NEW k \in Callers, NEW t, got' = got, tc' = [tc EXCEPT ![k] = t], NEW x
  PROVE  Used(x)' = Used(x) + (Is(t, x) - Is(tc[k], x))
<1>1. /\ At(got, Callers, x)' = At(got, Callers, x)
      /\ At(tc, Callers, x)' = At(tc, Callers, x) + Is(t, x) - Is(tc[k], x)
  BY MapHolds, MapSame
<1>2. /\ Used(x) = At(tc, Callers, x) + At(got, Callers, x)
      /\ Used(x)' = At(tc, Callers, x)' + At(got, Callers, x)'
  BY DEF Used
<1>3. At(tc, Callers, x) \in Nat /\ At(got, Callers, x) \in Nat
  BY HoldersAre
<1>4. Is(t, x) \in Nat /\ Is(tc[k], x) \in Nat
  BY IsNat
<1> QED
  BY <1>1, <1>2, <1>3, <1>4

\* The callers hold what they held when nothing is set.
LEMMA UsedSame ==
  ASSUME tc' = tc, got' = got, NEW x
  PROVE  Used(x)' = Used(x)
BY MapSame DEF Used

\* What a step pays for: the references outside the cache it adds to or takes away.
Gain(x) == (Used(x)' - Used(x)) + (Kept(x)' - Kept(x)) + (Count(x, lost)' - Count(x, lost))

\* The gain is a difference of counts.
LEMMA GainOutside ==
  ASSUME Types, Types', NEW x
  PROVE  Gain(x) = (Outside(x)' - Outside(x)) + (Count(x, lost)' - Count(x, lost)) /\ Gain(x) \in Int
<1>1. Outside(x) = Used(x) + Kept(x) /\ Used(x) \in Nat /\ Kept(x) \in Nat /\ Count(x, lost) \in Nat
  BY CountsAre DEF Counts
<1>2. Outside(x)' = Used(x)' + Kept(x)' /\ Used(x)' \in Nat /\ Kept(x)' \in Nat /\ Count(x, lost)' \in Nat
  BY CountsAreNext DEF Counts
<1>3. Gain(x) = (Used(x)' - Used(x)) + (Kept(x)' - Kept(x)) + (Count(x, lost)' - Count(x, lost))
  BY DEF Gain
<1> QED
  BY <1>1, <1>2, <1>3

\* Counts stay integers under inc_ref() and dec_ref().
LEMMA CountedInt ==
  ASSUME Types, NEW plus, NEW minus,
         \A x \in Entries : Count(x, plus) \in Nat /\ Count(x, minus) \in Nat
  PROVE  Counted(plus, minus) \in [Entries -> Int]
BY DEF Counted, Types

\* The same when the todo list is carried out as well.
LEMMA LockedInt ==
  ASSUME Types, NEW e, NEW plus, NEW minus,
         \A x \in Entries : Count(x, plus) \in Nat /\ Count(x, minus) \in Nat
  PROVE  LockedCount(e, plus, minus) \in [Entries -> Int]
<1>1. \A x \in Entries : refs[x] \in Int /\ Count(x, todo) \in Nat
  BY HoldersAre DEF Types
<1> QED
  BY <1>1 DEF LockedCount

\* The gain, by who holds the references.
LEMMA GainIs ==
  ASSUME NEW x
  PROVE  Gain(x) = (Used(x)' - Used(x)) + (Kept(x)' - Kept(x)) + (Count(x, lost)' - Count(x, lost))
BY DEF Gain

\* A step under the lock keeps the counts exact when its inc_ref() and
\* dec_ref() calls balance what it gives out and takes back.
LEMMA RefsLocked ==
  ASSUME Types, Types', Store, RefsExact, NEW e \in Entries \cup {None}, cache' = e, todo' = <<>>,
         NEW plus, NEW minus, refs' = LockedCount(e, plus, minus),
         \A x \in Entries : /\ Count(x, plus) \in Nat /\ Count(x, minus) \in Nat
                            /\ Count(x, plus) - Count(x, minus)
                                 = Gain(x) + (IF e = x /\ e \notin Reachable THEN 1 ELSE 0)
  PROVE  RefsExact'
<1>1. ASSUME NEW x \in Entries
      PROVE  refs'[x] = refs[x] + (Inside(x)' - Inside(x)) + (Outside(x)' - Outside(x))
                                + (Count(x, lost)' - Count(x, lost))
  <2> DEFINE o == IF x \in Gone(e) THEN 1 ELSE 0
             n == IF e = x /\ e \notin Reachable THEN 1 ELSE 0
  <2>1. refs'[x] = refs[x] + Count(x, plus) - Count(x, minus) - Count(x, todo) - o
    BY DEF LockedCount
  <2>2. Inside(x)' = Inside(x) - Count(x, todo) - o + n
    BY InsideLocked
  <2>3. Gain(x) = (Outside(x)' - Outside(x)) + (Count(x, lost)' - Count(x, lost)) /\ Gain(x) \in Int
    BY GainOutside
  <2>4. /\ Outside(x) \in Nat /\ Inside(x) \in Nat /\ Count(x, lost) \in Nat
        /\ Outside(x)' \in Nat /\ Inside(x)' \in Nat /\ Count(x, lost)' \in Nat
    BY CountsAre, CountsAreNext DEF Counts
  <2>5. Count(x, todo) \in Nat /\ refs[x] \in Int
    BY HoldersAre DEF Types
  <2>6. o \in Nat /\ n \in Nat
    OBVIOUS
  <2>7. Count(x, plus) \in Nat /\ Count(x, minus) \in Nat /\ Count(x, plus) - Count(x, minus) = Gain(x) + n
    OBVIOUS
  <2> HIDE DEF o, n
  <2>8. refs'[x] = refs[x] + (Gain(x) + n) - Count(x, todo) - o
    BY <2>1, <2>3, <2>5, <2>6, <2>7
  <2>9. Inside(x)' - Inside(x) = n - Count(x, todo) - o
    BY <2>2, <2>4, <2>5, <2>6
  <2> QED
    <3>1. refs'[x] = refs[x] + (Inside(x)' - Inside(x)) + Gain(x)
      <4>1. refs'[x] = refs[x] + (Gain(x) + (n - Count(x, todo) - o))
        BY <2>3, <2>5, <2>6, <2>8
      <4>2. refs'[x] = refs[x] + (Gain(x) + (Inside(x)' - Inside(x)))
        BY <2>9, <4>1
      <4>3. Inside(x)' - Inside(x) \in Int
        BY <2>4
      <4>4. Gain(x) \in Int
        BY <2>3
      <4>5. refs[x] \in Int
        BY <2>5
      <4>6. refs[x] + (Gain(x) + (Inside(x)' - Inside(x))) = refs[x] + (Inside(x)' - Inside(x)) + Gain(x)
        BY <4>3, <4>4, <4>5
      <4> QED
        BY <4>2, <4>6
    <3> QED
      BY <2>3, <2>4, <2>5, <3>1
<1> QED
  BY <1>1, RefsStep

\* The same for a step that does not take the lock.
LEMMA RefsCounted ==
  ASSUME Types, Types', RefsExact, NEW plus, NEW minus, refs' = Counted(plus, minus),
         \A x \in Entries : /\ Count(x, plus) \in Nat /\ Count(x, minus) \in Nat
                            /\ Count(x, plus) - Count(x, minus) = Gain(x) + (Inside(x)' - Inside(x))
  PROVE  RefsExact'
<1>1. ASSUME NEW x \in Entries
      PROVE  refs'[x] = refs[x] + (Inside(x)' - Inside(x)) + (Outside(x)' - Outside(x))
                                + (Count(x, lost)' - Count(x, lost))
  <2>1. refs'[x] = refs[x] + Count(x, plus) - Count(x, minus)
    BY DEF Counted
  <2>3. Gain(x) = (Outside(x)' - Outside(x)) + (Count(x, lost)' - Count(x, lost)) /\ Gain(x) \in Int
    BY GainOutside
  <2>4. /\ Outside(x) \in Nat /\ Inside(x) \in Nat /\ Count(x, lost) \in Nat
        /\ Outside(x)' \in Nat /\ Inside(x)' \in Nat /\ Count(x, lost)' \in Nat
    BY CountsAre, CountsAreNext DEF Counts
  <2>5. refs[x] \in Int
    BY DEF Types
  <2>7. Count(x, plus) \in Nat /\ Count(x, minus) \in Nat
        /\ Count(x, plus) - Count(x, minus) = Gain(x) + (Inside(x)' - Inside(x))
    OBVIOUS
  <2> QED
    BY <2>1, <2>3, <2>4, <2>5, <2>7
<1> QED
  BY <1>1, RefsStep

\* Nothing that is counted moves.
LEMMA RefsSame ==
  ASSUME Types, Types', RefsExact, UNCHANGED <<refs, cache, todo, lost, tc, got>>,
         \A d \in Conts : cont'[d].ent = cont[d].ent /\ cont'[d].newest = cont[d].newest
  PROVE  RefsExact'
<1>1. ASSUME NEW x \in Entries
      PROVE  refs'[x] = refs[x] + (Inside(x)' - Inside(x)) + (Outside(x)' - Outside(x))
                                + (Count(x, lost)' - Count(x, lost))
  <2>1. Inside(x)' = Inside(x) /\ Used(x)' = Used(x) /\ Kept(x)' = Kept(x) /\ Count(x, lost)' = Count(x, lost)
    BY InsideSame, UsedSame, KeptSame, LostSame
  <2>2. Outside(x)' = Outside(x)
    BY <2>1 DEF Outside
  <2>3. /\ Outside(x) \in Nat /\ Inside(x) \in Nat /\ Count(x, lost) \in Nat
    BY CountsAre DEF Counts
  <2>4. refs[x] \in Int /\ refs'[x] = refs[x]
    BY DEF Types
  <2> QED
    BY <2>1, <2>2, <2>3, <2>4
<1> QED
  BY <1>1, RefsStep

\* No continuation changes.
LEMMA StillConts ==
  ASSUME UNCHANGED cont
  PROVE  /\ \A d \in Conts : cont'[d] = IF d = None THEN FreeCont ELSE cont[d]
         /\ None \notin Conts
BY RouteAssumption

\* Whoever points to e after the step pointed to it before, or it was known.
LEMMA MovesBy ==
  ASSUME NEW c, NEW r, NEW b, NEW e, Old(e, b),
         \A d \in Conts : cont'[d] = IF d = c THEN r ELSE cont[d],
         Old(r.ent, b), Old(r.newest, b),
         \A x \in Reachable' : x \in Reachable \/ x = e,
         \A k \in Callers : (tc'[k] = tc[k] \/ tc'[k] = e) /\ (got'[k] = got[k] \/ got'[k] = e)
  PROVE  Moves(c, r, b)
<1>1. \A x \in Reachable : Old(x, b)
  BY DEF Old, Known
<1>2. \A k \in Callers : Old(tc[k], b) /\ Old(got[k], b)
  BY DEF Old, Known
<1>3. \A x \in Reachable' : Old(x, b)
  BY <1>1
<1>4. \A k \in Callers : Old(tc'[k], b) /\ Old(got'[k], b)
  BY <1>2
<1> QED
  BY <1>3, <1>4 DEF Moves

\* The section leaves e in the cache: known already, or b, which only c had.
LEMMA LockedKeeps ==
  ASSUME Types, Store, Private, NEW e \in Entries, NEW s \in Live, Locked(e, s),
         NEW c, NEW r, NEW b, Moves(c, r, b),
         \A d \in Conts \ {c} : ~Own(d, b),
         b = e \/ Known(e),
         r.pc \notin {"remote", "replace"} \/ r.newest = None,
         c \in Conts => \A x \in Entries \ {e} : ~Own(c, x)
  PROVE  /\ Store' /\ Private'
         /\ \A x \in Entries \ {e} : est'[x] = "BUILDING" => est[x] = "BUILDING"
<1>0. s \in States
  BY DEF Live, States
<1>1. \A x \in Entries : est'[x] = IF x = e THEN s ELSE IF x \in Reachable THEN "DELETED" ELSE est[x]
  BY <1>0, LockedIs
<1>2. \A d \in Conts \ {c} : cont'[d] = cont[d]
  BY DEF Moves
<1>3. \A d \in Conts, x \in Entries \ {e} : Own(d, x) /\ est[x] \in Live => Own(d, x)'
  BY <1>2 DEF Own
<1>4. Store'
  BY <1>3, StoreLocked
<1>5. \A d \in Conts \ {c}, x \in Entries : Own(d, x) => est'[x] = est[x]
  <2> SUFFICES ASSUME NEW d \in Conts \ {c}, NEW x \in Entries, Own(d, x) PROVE est'[x] = est[x]
    OBVIOUS
  <2>1. ~Known(x)
    BY DEF Private
  <2>2. x # e /\ x \notin Reachable
    BY <2>1 DEF Known
  <2> QED
    BY <1>1, <2>2
<1>6. Private'
  BY <1>5, PrivateStep
<1> QED
  BY <1>1, <1>4, <1>6

\* Lists of one or two references, put together.
LEMMA CountJoined ==
  ASSUME NEW y \in Entries \cup {None}, NEW z \in Entries \cup {None}, NEW x
  PROVE  /\ Count(x, <<y>> \o <<z>>) = Is(y, x) + Is(z, x)
         /\ Count(x, <<y>> \o <<>>) = Is(y, x)
         /\ <<y>> \o <<z>> \in Seq(Entries \cup {None})
         /\ <<y>> \o <<>> \in Seq(Entries \cup {None})
<1>1. <<y>> \in Seq(Entries \cup {None}) /\ <<z>> \in Seq(Entries \cup {None}) /\ <<>> \in Seq(Entries \cup {None})
  BY EmptySeq
<1>2. Count(x, <<y>> \o <<z>>) = Count(x, <<y>>) + Count(x, <<z>>)
  BY <1>1, CountConcat
<1>3. Count(x, <<y>> \o <<>>) = Count(x, <<y>>) + Count(x, <<>>)
  BY <1>1, CountConcat
<1>4. Count(x, <<y>>) = Is(y, x) /\ Count(x, <<z>>) = Is(z, x) /\ Count(x, <<>>) = 0 /\ Is(y, x) \in Nat
  BY CountOne, CountEmpty, IsNat
<1>5. <<y>> \o <<z>> \in Seq(Entries \cup {None}) /\ <<y>> \o <<>> \in Seq(Entries \cup {None})
  BY <1>1, ConcatProperties
<1> QED
  BY <1>2, <1>3, <1>4, <1>5

\* The section leaves an entry in the cache that was found there.
LEMMA RefsFound ==
  ASSUME Types, Types', Store, RefsExact, NEW e \in Entries, e \in Reachable, cache' = e, todo' = <<>>,
         NEW plus, NEW minus, refs' = LockedCount(e, plus, minus),
         \A x \in Entries : /\ Count(x, plus) \in Nat /\ Count(x, minus) \in Nat
                            /\ Count(x, plus) - Count(x, minus) = Gain(x)
  PROVE  RefsExact'
<1>1. ASSUME NEW x \in Entries
      PROVE  Count(x, plus) - Count(x, minus) = Gain(x) + (IF e = x /\ e \notin Reachable THEN 1 ELSE 0)
  <2>1. Gain(x) \in Int
    BY GainOutside
  <2> QED
    BY <2>1
<1> QED
  BY <1>1, RefsLocked
================================================================================
