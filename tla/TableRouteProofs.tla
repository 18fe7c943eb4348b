--------------------------- MODULE TableRouteProofs ----------------------------
(***************************************************************************)
(* Proofs about the lookup of a route entry, for any number of callers,    *)
(* continuations and entries: every handler keeps the invariant, and what  *)
(* follows from it.                                                        *)
(***************************************************************************)
EXTENDS TableRouteLemmas

\* The inductive invariant.
RouteInv ==
  /\ Types /\ Shapes /\ Replies /\ Store /\ Private
  /\ Updates /\ Builds /\ RefsExact /\ Reserved

(***************************************************************************)
(* Steps that leave the continuations alone                                *)
(***************************************************************************)

\* What a step has to keep when it moves no continuation.
LEMMA StillStep ==
  ASSUME RouteInv, UNCHANGED <<cont, pendq, lost>>, Types', Replies', Store', RefsExact', NEW e, Old(e, None),
         \A x \in Reachable' : x \in Reachable \/ x = e,
         \A k \in Callers : (tc'[k] = tc[k] \/ tc'[k] = e) /\ (got'[k] = got[k] \/ got'[k] = e),
         \A x \in Entries : est'[x] # est[x] => Known(x) /\ est'[x] # "BUILDING",
         Updates'
  PROVE  RouteInv'
<1>0. Types /\ Shapes /\ Replies /\ Store /\ Private /\ Updates /\ Builds /\ RefsExact /\ Reserved
  BY DEF RouteInv
<1>1. (\A d \in Conts : cont'[d] = IF d = None THEN FreeCont ELSE cont[d]) /\ None \notin Conts
  BY StillConts
<1>2. Shapes'
  BY <1>0 DEF Shapes
<1>3. Moves(None, FreeCont, None)
  <2>1. Old(FreeCont.ent, None) /\ Old(FreeCont.newest, None)
    BY FreeShape DEF Old
  <2> QED
    BY <1>1, <2>1, MovesBy
<1>4. \A d \in Conts \ {None}, x \in Entries : Own(d, x) => est'[x] = est[x]
  BY <1>0 DEF Private
<1>5. \A d \in Conts \ {None} : ~Own(d, None)
  BY DEF Own
<1>6. Private'
  BY <1>0, <1>3, <1>4, <1>5, FreeShape, PrivateStep
<1>7. \A x \in Entries : est'[x] = "BUILDING" => est[x] = "BUILDING"
  OBVIOUS
<1>8. Builds'
  BY <1>0, <1>1, <1>7, BuildsKept
<1>9. None \notin Fresh
  BY RouteAssumption DEF Fresh
<1>10. Reserved'
  BY <1>0, <1>3, <1>9, FreeShape, ReservedStep
<1> QED
  BY <1>2, <1>6, <1>8, <1>10 DEF RouteInv

\* A caller is served from the map of its thread.
LEMMA StepGetFromThreadCache ==
  ASSUME RouteInv, NEW k \in Callers, GetFromThreadCache(k)
  PROVE  RouteInv'
<1>0. Types /\ Shapes /\ Replies /\ Store /\ Private /\ Updates /\ Builds /\ RefsExact /\ Reserved
  BY DEF RouteInv
<1>a. /\ ask[k] = "idle" /\ tc[k] # None
      /\ ask' = [ask EXCEPT ![k] = "holding"]
      /\ got' = [got EXCEPT ![k] = tc[k]]
      /\ refs' = Counted(<<tc[k]>>, <<>>)
      /\ UNCHANGED <<kind, cont, est, pendq, lost, cache, todo, tc>>
  BY DEF GetFromThreadCache, Looks, Idle
<1>b. PICK e \in Entries : e = tc[k]
  BY <1>0, <1>a DEF Types
<1>c. got[k] = None /\ tc' = [tc EXCEPT ![k] = e] /\ got' = [got EXCEPT ![k] = e] /\ refs' = Counted(<<e>>, <<>>)
  BY <1>0, <1>a, <1>b DEF Replies, Types
<1>d. \A x \in Entries : Count(x, <<e>>) = Is(e, x) /\ Count(x, <<>>) = 0 /\ Is(e, x) \in Nat /\ Is(None, x) = 0
  BY CountOne, CountEmpty, IsNat, RouteAssumption DEF Is
<1>1. Types'
  <2>1. Counted(<<e>>, <<>>) \in [Entries -> Int]
    BY <1>0, <1>d, CountedInt
  <2> QED
    BY <1>0, <1>a, <1>b, <2>1 DEF Types
<1>2. Replies'
  <2>1. \A d \in Conts : cont'[d] = IF d = None THEN FreeCont ELSE cont[d]
    BY <1>a, StillConts
  <2> QED
    BY <1>0, <1>a, <1>c, <2>1, RepliesServed, StillConts
<1>3. Store'
  BY <1>0, <1>a, StoreKept DEF Own
<1>4. RefsExact'
  <2>1. ASSUME NEW x \in Entries
        PROVE  Count(x, <<e>>) - Count(x, <<>>) = Gain(x) + (Inside(x)' - Inside(x))
    <3>1. Used(x)' = Used(x) + (Is(e, x) - Is(e, x)) + (Is(e, x) - Is(None, x))
      BY <1>0, <1>b, <1>c, UsedStep
    <3>2. Kept(x)' = Kept(x) /\ Inside(x)' = Inside(x) /\ Count(x, lost)' = Count(x, lost)
      BY <1>a, KeptSame, InsideSame, LostSame
    <3>3. Used(x) \in Nat /\ Kept(x) \in Nat /\ Inside(x) \in Nat /\ Count(x, lost) \in Nat
      BY <1>0, CountsAre DEF Counts
    <3> QED
      BY <1>d, <3>1, <3>2, <3>3, GainIs
  <2> QED
    BY <1>0, <1>1, <1>a, <1>b, <1>d, <2>1, RefsCounted
<1>5. Updates'
  BY <1>0, <1>a DEF Updates, OneUpdate, UpdatingOwned
<1>6. Old(e, None)
  BY <1>b DEF Old, Known
<1>7. /\ \A x \in Reachable' : x \in Reachable \/ x = e
      /\ \A j \in Callers : (tc'[j] = tc[j] \/ tc'[j] = e) /\ (got'[j] = got[j] \/ got'[j] = e)
      /\ \A x \in Entries : est'[x] # est[x] => Known(x) /\ est'[x] # "BUILDING"
  BY <1>0, <1>a, <1>b DEF Reachable, Types
<1> QED
  BY <1>1, <1>2, <1>3, <1>4, <1>5, <1>6, <1>7, <1>a, StillStep

\* A caller gives its entry back.
LEMMA StepRelease ==
  ASSUME RouteInv, NEW k \in Callers, Release(k)
  PROVE  RouteInv'
<1>0. Types /\ Shapes /\ Replies /\ Store /\ Private /\ Updates /\ Builds /\ RefsExact /\ Reserved
  BY DEF RouteInv
<1>a. /\ ask[k] = "holding"
      /\ ask' = [ask EXCEPT ![k] = "idle"]
      /\ got' = [got EXCEPT ![k] = None]
      /\ refs' = Counted(<<>>, <<got[k]>>)
      /\ UNCHANGED <<kind, cont, est, pendq, lost, cache, todo, tc>>
  BY DEF Release
<1>b. PICK e \in Entries \cup {None} : e = got[k]
  BY <1>0 DEF Types
<1>d. refs' = Counted(<<>>, <<e>>)
  BY <1>a, <1>b
<1>e. \A x \in Entries : Count(x, <<e>>) = Is(e, x) /\ Count(x, <<>>) = 0 /\ Is(e, x) \in Nat /\ Is(None, x) = 0
  BY CountOne, CountEmpty, IsNat, RouteAssumption DEF Is
<1>1. Types'
  <2>1. Counted(<<>>, <<e>>) \in [Entries -> Int]
    BY <1>0, <1>e, CountedInt
  <2> QED
    BY <1>0, <1>a, <1>d, <2>1 DEF Types
<1>2. Replies'
  <2>1. \A d \in Conts, j \in Callers : Expects(d, j)' <=> Expects(d, j)
    BY <1>a DEF Expects, Told
  <2>2. ask'[k] = "idle" /\ got'[k] = None /\ \A j \in Callers \ {k} : ask'[j] = ask[j] /\ got'[j] = got[j]
    BY <1>0, <1>a DEF Types
  <2> QED
    BY <1>0, <1>a, <2>1, <2>2 DEF Replies
<1>3. Store'
  BY <1>0, <1>a, StoreKept DEF Own
<1>4. RefsExact'
  <2>1. ASSUME NEW x \in Entries
        PROVE  Count(x, <<>>) - Count(x, <<e>>) = Gain(x) + (Inside(x)' - Inside(x))
    <3>1. Used(x)' = Used(x) + (Is(None, x) - Is(e, x))
      BY <1>0, <1>a, <1>b, UsedGot
    <3>2. Kept(x)' = Kept(x) /\ Inside(x)' = Inside(x) /\ Count(x, lost)' = Count(x, lost)
      BY <1>a, KeptSame, InsideSame, LostSame
    <3>3. Used(x) \in Nat /\ Kept(x) \in Nat /\ Inside(x) \in Nat /\ Count(x, lost) \in Nat
      BY <1>0, CountsAre DEF Counts
    <3> QED
      BY <1>e, <3>1, <3>2, <3>3, GainIs
  <2> QED
    BY <1>0, <1>1, <1>d, <1>e, <2>1, RefsCounted
<1>5. Updates'
  BY <1>0, <1>a DEF Updates, OneUpdate, UpdatingOwned
<1>6. Old(None, None)
  BY DEF Old
<1>7. /\ \A x \in Reachable' : x \in Reachable \/ x = None
      /\ \A j \in Callers : (tc'[j] = tc[j] \/ tc'[j] = None) /\ (got'[j] = got[j] \/ got'[j] = None)
      /\ \A x \in Entries : est'[x] # est[x] => Known(x) /\ est'[x] # "BUILDING"
  BY <1>0, <1>a DEF Reachable, Types
<1> QED
  BY <1>1, <1>2, <1>3, <1>4, <1>5, <1>6, <1>7, <1>a, StillStep

\* A caller finds its entry out of date.
LEMMA StepMarkDirty ==
  ASSUME RouteInv, NEW k \in Callers, MarkDirty(k)
  PROVE  RouteInv'
<1>0. Types /\ Shapes /\ Replies /\ Store /\ Private /\ Updates /\ Builds /\ RefsExact /\ Reserved
  BY DEF RouteInv
<1>a. /\ got[k] # None /\ est[got[k]] = "AVAIL"
      /\ est' = [est EXCEPT ![got[k]] = "DIRTY"]
      /\ UNCHANGED <<kind, ask, got, cont, pendq, refs, lost, cache, todo, tc>>
  BY DEF MarkDirty
<1>b. PICK e \in Entries : e = got[k]
  BY <1>0, <1>a DEF Types
<1>c. est[e] = "AVAIL" /\ \A x \in Entries : est'[x] = IF x = e THEN "DIRTY" ELSE est[x]
  BY <1>0, <1>a, <1>b DEF Types
<1>1. Types'
  BY <1>0, <1>a, <1>b DEF Types, States
<1>2. Replies'
  <2>1. \A d \in Conts, j \in Callers : Expects(d, j)' <=> Expects(d, j)
    BY <1>a DEF Expects, Told
  <2> QED
    BY <1>0, <1>a, <2>1 DEF Replies
<1>3. Store'
  <2>1. \A x \in Reachable : x \in Entries
    BY <1>0, ReachableIs
  <2> QED
    BY <1>0, <1>a, <1>c, <2>1, StoreKept DEF Own, Live
<1>4. RefsExact'
  BY <1>0, <1>1, <1>a, RefsSame
<1>5. Updates'
  <2>1. \A d \in Conts : cont[d].op = "update" => cont[d].ent \in Entries /\ cont[d].ent # e
    BY <1>0, <1>c DEF Updates, Shapes, Shaped
  <2>2. \A d \in Conts : cont'[d].op = "update" => est'[cont'[d].ent] \in {"UPDATING", "DELETED"}
    BY <1>0, <1>a, <1>c, <2>1 DEF Updates
  <2>3. cache # None /\ est'[cache] = "UPDATING" => est[cache] = "UPDATING"
    BY <1>0, <1>c DEF Types
  <2> QED
    BY <1>0, <1>a, <2>2, <2>3 DEF Updates, OneUpdate, UpdatingOwned
<1>6. Old(None, None) /\ Known(e)
  BY <1>b DEF Old, Known
<1>7. /\ \A x \in Reachable' : x \in Reachable \/ x = None
      /\ \A j \in Callers : (tc'[j] = tc[j] \/ tc'[j] = None) /\ (got'[j] = got[j] \/ got'[j] = None)
      /\ \A x \in Entries : est'[x] # est[x] => Known(x) /\ est'[x] # "BUILDING"
  BY <1>a, <1>c, <1>6 DEF Reachable
<1> QED
  BY <1>1, <1>2, <1>3, <1>4, <1>5, <1>6, <1>7, <1>a, StillStep

\* The collection of expired entries.
LEMMA StepGcExpired ==
  ASSUME RouteInv, GcExpired
  PROVE  RouteInv'
<1>0. Types /\ Shapes /\ Replies /\ Store /\ Private /\ Updates /\ Builds /\ RefsExact /\ Reserved
  BY DEF RouteInv
<1>a. /\ cache # None /\ cache' = None
      /\ est' = [est EXCEPT ![cache] = "DELETED"]
      /\ refs' = Counted(<<>>, <<cache>>)
      /\ UNCHANGED <<kind, ask, got, cont, pendq, lost, todo, tc>>
  BY DEF GcExpired
<1>b. PICK e \in Entries : e = cache
  BY <1>0, <1>a DEF Types
<1>c. \A x \in Entries : est'[x] = IF x = e THEN "DELETED" ELSE est[x]
  BY <1>0, <1>a, <1>b DEF Types
<1>d. \A x \in Entries : Count(x, <<e>>) = Is(e, x) /\ Count(x, <<>>) = 0 /\ Is(e, x) \in Nat /\ Is(None, x) = 0
  BY CountOne, CountEmpty, IsNat, RouteAssumption DEF Is
<1>1. Types'
  <2>1. Counted(<<>>, <<e>>) \in [Entries -> Int]
    BY <1>0, <1>d, CountedInt
  <2>2. est' \in [Entries -> States]
    BY <1>0, <1>a DEF Types, States
  <2> QED
    BY <1>0, <1>a, <1>b, <2>1, <2>2 DEF Types
<1>2. Replies'
  <2>1. \A d \in Conts, j \in Callers : Expects(d, j)' <=> Expects(d, j)
    BY <1>a DEF Expects, Told
  <2> QED
    BY <1>0, <1>a, <2>1 DEF Replies
<1>e. \A i \in DOMAIN todo : todo[i] \in Entries /\ todo[i] # e
  BY <1>0, <1>b, LenProperties, ElementOfSeq DEF Types, Store
<1>f. \A x \in Entries : x \in Reachable' <=> x \in Reachable /\ x # e
  BY <1>0, <1>a, <1>b, <1>e, RouteAssumption DEF Reachable, Range
<1>3. Store'
  <2>1. \A i \in DOMAIN todo : todo[i] # None /\ est'[todo[i]] \in {"AVAIL", "DIRTY"}
    BY <1>0, <1>c, <1>e, RouteAssumption DEF Store
  <2>2. \A x \in Entries : est'[x] \in Live => x \in Reachable' \/ \E c \in Conts : Own(c, x)'
    <3> SUFFICES ASSUME NEW x \in Entries, est'[x] \in Live, x \notin Reachable'
                 PROVE  \E c \in Conts : Own(c, x)'
      OBVIOUS
    <3>1. x # e /\ est[x] \in Live /\ x \notin Reachable
      BY <1>c, <1>f DEF Live
    <3>2. PICK c \in Conts : Own(c, x)
      BY <1>0, <3>1 DEF Store
    <3> QED
      BY <1>a, <3>2 DEF Own
  <2>3. \A i, j \in DOMAIN todo : todo[i] = todo[j] => i = j
    BY <1>0 DEF Store
  <2> QED
    BY <1>a, <2>1, <2>2, <2>3 DEF Store
<1>4. RefsExact'
  <2>1. ASSUME NEW x \in Entries
        PROVE  Count(x, <<>>) - Count(x, <<e>>) = Gain(x) + (Inside(x)' - Inside(x))
    <3>1. Used(x)' = Used(x) /\ Kept(x)' = Kept(x) /\ Count(x, lost)' = Count(x, lost)
      BY <1>a, UsedSame, KeptSame, LostSame
    <3>2. Inside(x) = Is(e, x) + 2 * Count(x, todo) /\ Inside(x)' = Is(None, x) + 2 * Count(x, todo)
      BY <1>a, <1>b DEF Inside, Count, Is
    <3>3. Used(x) \in Nat /\ Kept(x) \in Nat /\ Inside(x) \in Nat /\ Count(x, lost) \in Nat /\ Count(x, todo) \in Nat
      BY <1>0, CountsAre, HoldersAre DEF Counts
    <3> QED
      BY <1>d, <3>1, <3>2, <3>3, GainIs
  <2> QED
    BY <1>0, <1>1, <1>a, <1>b, <1>d, <2>1, RefsCounted
<1>5. Updates'
  <2>1. \A d \in Conts : cont'[d].op = "update" => est'[cont'[d].ent] \in {"UPDATING", "DELETED"}
    BY <1>0, <1>a, <1>c DEF Updates, Shapes, Shaped
  <2> QED
    BY <1>0, <1>a, <2>1 DEF Updates, OneUpdate, UpdatingOwned
<1>6. Old(None, None) /\ Known(e)
  BY <1>0, <1>b, ReachableIs DEF Old, Known
<1>7. /\ \A x \in Reachable' : x \in Reachable \/ x = None
      /\ \A j \in Callers : (tc'[j] = tc[j] \/ tc'[j] = None) /\ (got'[j] = got[j] \/ got'[j] = None)
      /\ \A x \in Entries : est'[x] # est[x] => Known(x) /\ est'[x] # "BUILDING"
  BY <1>a, <1>c, <1>6 DEF Reachable
<1> QED
  BY <1>1, <1>2, <1>3, <1>4, <1>5, <1>6, <1>7, <1>a, StillStep

\* The washing of the cache when it is full.
LEMMA StepWash ==
  ASSUME RouteInv, Wash
  PROVE  RouteInv'
<1>0. Types /\ Shapes /\ Replies /\ Store /\ Private /\ Updates /\ Builds /\ RefsExact /\ Reserved
  BY DEF RouteInv
<1>a. /\ cache' = None /\ todo' = <<>>
      /\ est' = [x \in Entries |-> StateAfter(x, None)]
      /\ refs' = LockedCount(None, <<>>, <<>>)
      /\ UNCHANGED <<kind, ask, got, cont, pendq, lost, tc>>
  BY DEF Wash
<1>b. est' = [x \in Entries |-> IF x = None THEN "DELETED" ELSE StateAfter(x, None)]
  BY <1>a, RouteAssumption
<1>c. /\ est' \in [Entries -> States] /\ Reachable' = {} /\ todo' \in Seq(Entries)
      /\ \A x \in Entries : est'[x] = IF x \in Reachable THEN "DELETED" ELSE est[x]
  <2>1. "DELETED" \in States /\ None \in Entries \cup {None}
    BY DEF States
  <2> QED
    BY <1>0, <1>a, <1>b, <2>1, EmptiedIs, RouteAssumption
<1>d. \A x \in Entries : Count(x, <<>>) = 0
  BY CountEmpty
<1>1. Types'
  <2>1. LockedCount(None, <<>>, <<>>) \in [Entries -> Int]
    BY <1>0, <1>d, LockedInt
  <2> QED
    BY <1>0, <1>a, <1>c, <2>1 DEF Types
<1>2. Replies'
  <2>1. \A d \in Conts, j \in Callers : Expects(d, j)' <=> Expects(d, j)
    BY <1>a DEF Expects, Told
  <2> QED
    BY <1>0, <1>a, <2>1 DEF Replies
<1>3. Store'
  <2>1. \A d \in Conts, x \in Entries \ {None} : Own(d, x) /\ est[x] \in Live => Own(d, x)'
    BY <1>a DEF Own
  <2> QED
    BY <1>0, <1>a, <1>b, <2>1, StoreEmptied
<1>4. RefsExact'
  <2>1. ASSUME NEW x \in Entries
        PROVE  Count(x, <<>>) - Count(x, <<>>) = Gain(x) + (IF None = x /\ None \notin Reachable THEN 1 ELSE 0)
    <3>1. Used(x)' = Used(x) /\ Kept(x)' = Kept(x) /\ Count(x, lost)' = Count(x, lost)
      BY <1>a, UsedSame, KeptSame, LostSame
    <3>2. None # x
      BY RouteAssumption
    <3>3. Used(x) \in Nat /\ Kept(x) \in Nat /\ Count(x, lost) \in Nat
      BY <1>0, CountsAre DEF Counts
    <3> QED
      BY <1>d, <3>1, <3>2, <3>3, GainIs
  <2> QED
    BY <1>0, <1>1, <1>a, <1>d, <2>1, RefsLocked
<1>5. Updates'
  <2>1. \A d \in Conts : cont'[d].op = "update" => est'[cont'[d].ent] \in {"UPDATING", "DELETED"}
    BY <1>0, <1>a, <1>c DEF Updates, Shapes, Shaped
  <2> QED
    BY <1>0, <1>a, <2>1 DEF Updates, OneUpdate, UpdatingOwned
<1>6. Old(None, None) /\ \A x \in Reachable : Known(x)
  BY DEF Old, Known
<1>7. /\ \A x \in Reachable' : x \in Reachable \/ x = None
      /\ \A j \in Callers : (tc'[j] = tc[j] \/ tc'[j] = None) /\ (got'[j] = got[j] \/ got'[j] = None)
      /\ \A x \in Entries : est'[x] # est[x] => Known(x) /\ est'[x] # "BUILDING"
  BY <1>a, <1>c, <1>6
<1> QED
  BY <1>1, <1>2, <1>3, <1>4, <1>5, <1>6, <1>7, <1>a, StillStep

\* The cleaning of a thread's map.
LEMMA StepCleanThreadCache ==
  ASSUME RouteInv, NEW k \in Callers, CleanThreadCache(k)
  PROVE  RouteInv'
<1>0. Types /\ Shapes /\ Replies /\ Store /\ Private /\ Updates /\ Builds /\ RefsExact /\ Reserved
  BY DEF RouteInv
<1>a. /\ tc[k] # None
      /\ tc' = [tc EXCEPT ![k] = None]
      /\ refs' = Counted(<<>>, <<tc[k]>>)
      /\ UNCHANGED <<kind, ask, got, cont, est, pendq, lost, cache, todo>>
  BY DEF CleanThreadCache
<1>b. PICK e \in Entries : e = tc[k]
  BY <1>0, <1>a DEF Types
<1>d. refs' = Counted(<<>>, <<e>>)
  BY <1>a, <1>b
<1>e. \A x \in Entries : Count(x, <<e>>) = Is(e, x) /\ Count(x, <<>>) = 0 /\ Is(e, x) \in Nat /\ Is(None, x) = 0
  BY CountOne, CountEmpty, IsNat, RouteAssumption DEF Is
<1>1. Types'
  <2>1. Counted(<<>>, <<e>>) \in [Entries -> Int]
    BY <1>0, <1>e, CountedInt
  <2> QED
    BY <1>0, <1>a, <1>d, <2>1 DEF Types
<1>2. Replies'
  <2>1. \A d \in Conts, j \in Callers : Expects(d, j)' <=> Expects(d, j)
    BY <1>a DEF Expects, Told
  <2> QED
    BY <1>0, <1>a, <2>1 DEF Replies
<1>3. Store'
  BY <1>0, <1>a, StoreKept DEF Own
<1>4. RefsExact'
  <2>1. ASSUME NEW x \in Entries
        PROVE  Count(x, <<>>) - Count(x, <<e>>) = Gain(x) + (Inside(x)' - Inside(x))
    <3>1. Used(x)' = Used(x) + (Is(None, x) - Is(e, x))
      BY <1>0, <1>a, <1>b, UsedMap
    <3>2. Kept(x)' = Kept(x) /\ Inside(x)' = Inside(x) /\ Count(x, lost)' = Count(x, lost)
      BY <1>a, KeptSame, InsideSame, LostSame
    <3>3. Used(x) \in Nat /\ Kept(x) \in Nat /\ Inside(x) \in Nat /\ Count(x, lost) \in Nat
      BY <1>0, CountsAre DEF Counts
    <3> QED
      BY <1>e, <3>1, <3>2, <3>3, GainIs
  <2> QED
    BY <1>0, <1>1, <1>d, <1>e, <2>1, RefsCounted
<1>5. Updates'
  BY <1>0, <1>a DEF Updates, OneUpdate, UpdatingOwned
<1>6. Old(None, None)
  BY DEF Old
<1>7. /\ \A x \in Reachable' : x \in Reachable \/ x = None
      /\ \A j \in Callers : (tc'[j] = tc[j] \/ tc'[j] = None) /\ (got'[j] = got[j] \/ got'[j] = None)
      /\ \A x \in Entries : est'[x] # est[x] => Known(x) /\ est'[x] # "BUILDING"
  BY <1>0, <1>a DEF Reachable, Types
<1> QED
  BY <1>1, <1>2, <1>3, <1>4, <1>5, <1>6, <1>7, <1>a, StillStep

\* What a lookup that does not have to build finds.
LEMMA Found ==
  ASSUME Types, Store, Updates, Shapes, NEW exp, NEW async, NEW ss, Finds(exp, async, ss)
  PROVE  /\ Current \in Entries /\ Current \in Reachable /\ Current # None /\ Known(Current)
         /\ Seen(exp) \in Live /\ Seen(exp) \in States /\ Seen(exp) \in ss
         /\ Seen(exp) = "UPDATING" => est[Current] = "UPDATING"
         /\ Seen(exp) = "BUILDING" => est[Current] = "BUILDING"
         /\ Seen(exp) = "DIRTY" => est[Current] \in {"AVAIL", "DIRTY"}
         /\ \A d \in Conts : cont[d].op = "update" => cont[d].ent \in Entries
         /\ \A d \in Conts : cont[d].op = "update" /\ cont[d].ent = Current => Seen(exp) = "UPDATING"
<1>1. Current # None /\ Seen(exp) \in ss
  BY FoundIs
<1>2. Current \in Entries /\ Current \in Reachable /\ est[Current] \in Live /\ Known(Current)
  BY <1>1, CurrentIs DEF Known
<1>3. /\ Seen(exp) \in Live
      /\ Seen(exp) = "BUILDING" <=> est[Current] = "BUILDING"
      /\ Seen(exp) = "UPDATING" <=> est[Current] = "UPDATING"
      /\ Seen(exp) = "DIRTY" => est[Current] \in {"AVAIL", "DIRTY"}
  BY <1>1, SeenIs
<1>4. Seen(exp) \in States
  BY <1>3 DEF Live, States
<1>5. \A d \in Conts : cont[d].op = "update" => cont[d].ent \in Entries /\ est[cont[d].ent] \in {"UPDATING", "DELETED"}
  BY DEF Updates, Shapes, Shaped
<1>6. \A d \in Conts : cont[d].op = "update" /\ cont[d].ent = Current => Seen(exp) = "UPDATING"
  BY <1>2, <1>3, <1>5 DEF Live
<1> QED
  BY <1>1, <1>2, <1>3, <1>4, <1>5, <1>6

\* A lookup that finds the entry in the global cache.
LEMMA StepGetHit ==
  ASSUME RouteInv, NEW k \in Callers, NEW exp, NEW async, GetHit(k, exp, async)
  PROVE  RouteInv'
<1>0. Types /\ Shapes /\ Replies /\ Store /\ Private /\ Updates /\ Builds /\ RefsExact /\ Reserved
  BY DEF RouteInv
<1>a. Finds(exp, async, {"AVAIL", "UPDATING", "DIRTY"}) /\ ask[k] = "idle"
  BY DEF GetHit, Looks, Idle
<1>b. PICK e \in Entries : e = Current
  BY <1>0, <1>a, Found
<1>c. PICK s \in Live : s = Seen(exp)
  BY <1>0, <1>a, Found
<1>d. PICK t \in Entries \cup {None} : t = tc[k]
  BY <1>0 DEF Types
<1> DEFINE set == s \in {"AVAIL", "UPDATING"}
           plus == <<e>> \o (IF set THEN <<e>> ELSE <<>>)
           minus == IF set THEN <<t>> ELSE <<>>
<1>e. /\ s \in {"AVAIL", "UPDATING", "DIRTY"} /\ s \in States /\ e \in Reachable /\ Known(e)
      /\ s = "UPDATING" => est[e] = "UPDATING"
      /\ \A d \in Conts : cont[d].op = "update" => cont[d].ent \in Entries
      /\ \A d \in Conts : cont[d].op = "update" /\ cont[d].ent = e => s = "UPDATING"
  BY <1>0, <1>a, <1>b, <1>c, Found
<1>f. /\ Locked(e, s)
      /\ ask' = [ask EXCEPT ![k] = "holding"]
      /\ got' = [got EXCEPT ![k] = e]
      /\ tc' = IF set THEN [tc EXCEPT ![k] = e] ELSE tc
      /\ refs' = LockedCount(e, plus, minus)
      /\ UNCHANGED <<kind, cont, pendq, lost>>
  BY <1>b, <1>c, <1>d DEF GetHit
<1>g. got[k] = None
  BY <1>0, <1>a DEF Replies
<1>h. /\ cache' = e /\ todo' = <<>> /\ est' \in [Entries -> States] /\ todo' \in Seq(Entries) /\ Reachable' = {e}
      /\ \A x \in Entries : est'[x] = IF x = e THEN s ELSE IF x \in Reachable THEN "DELETED" ELSE est[x]
  BY <1>0, <1>e, <1>f, LockedIs
<1>i. \A x \in Entries : /\ Count(x, plus) = Is(e, x) + (IF set THEN Is(e, x) ELSE 0)
                         /\ Count(x, minus) = (IF set THEN Is(t, x) ELSE 0)
                         /\ Is(e, x) \in Nat /\ Is(t, x) \in Nat /\ Is(None, x) = 0
                         /\ Count(x, plus) \in Nat /\ Count(x, minus) \in Nat
  <2>1. \A x \in Entries : Is(e, x) \in Nat /\ Is(t, x) \in Nat /\ Is(None, x) = 0
    BY IsNat, RouteAssumption DEF Is
  <2>2. \A x \in Entries : Count(x, <<e>> \o <<e>>) = Is(e, x) + Is(e, x) /\ Count(x, <<e>> \o <<>>) = Is(e, x)
    BY CountJoined
  <2>3. \A x \in Entries : Count(x, <<t>>) = Is(t, x) /\ Count(x, <<>>) = 0
    BY CountOne, CountEmpty
  <2>4. CASE set
    BY <2>1, <2>2, <2>3, <2>4
  <2>5. CASE ~set
    <3>1. plus = <<e>> \o <<>> /\ minus = <<>>
      BY <2>5
    <3>2. \A x \in Entries : (IF set THEN Is(e, x) ELSE 0) = 0 /\ (IF set THEN Is(t, x) ELSE 0) = 0
      BY <2>5
    <3> HIDE DEF plus, minus, set
    <3>3. \A x \in Entries : Count(x, plus) = Is(e, x) /\ Count(x, minus) = 0
      BY <2>2, <2>3, <3>1
    <3> QED
      BY <2>1, <3>2, <3>3
  <2> QED
    BY <2>4, <2>5
<1> HIDE DEF plus, minus
<1>1. Types'
  <2>1. LockedCount(e, plus, minus) \in [Entries -> Int]
    BY <1>0, <1>i, LockedInt
  <2> QED
    BY <1>0, <1>f, <1>h, <2>1 DEF Types
<1>2. Replies'
  <2>1. \A d \in Conts : cont'[d] = IF d = None THEN FreeCont ELSE cont[d]
    BY <1>f, StillConts
  <2> QED
    BY <1>0, <1>a, <1>f, <2>1, RepliesServed, StillConts
<1>3. Store'
  <2>1. \A d \in Conts, x \in Entries \ {e} : Own(d, x) /\ est[x] \in Live => Own(d, x)'
    BY <1>f DEF Own
  <2> QED
    BY <1>0, <1>f, <2>1, StoreLocked
<1>4. RefsExact'
  <2>1. ASSUME NEW x \in Entries
        PROVE  Count(x, plus) - Count(x, minus) = Gain(x) + (IF e = x /\ e \notin Reachable THEN 1 ELSE 0)
    <3>1. Kept(x)' = Kept(x) /\ Count(x, lost)' = Count(x, lost)
      BY <1>f, KeptSame, LostSame
    <3>2. Used(x) \in Nat /\ Kept(x) \in Nat /\ Count(x, lost) \in Nat
      BY <1>0, CountsAre DEF Counts
    <3>3. CASE set
      <4>1. tc' = [tc EXCEPT ![k] = e] /\ got' = [got EXCEPT ![k] = e]
        BY <1>f, <3>3
      <4>2. Used(x)' = Used(x) + (Is(e, x) - Is(t, x)) + (Is(e, x) - Is(None, x))
        BY <1>0, <1>d, <1>g, <4>1, UsedStep
      <4> QED
        BY <1>e, <1>i, <3>1, <3>2, <3>3, <4>2, GainIs
    <3>4. CASE ~set
      <4>1. tc' = tc /\ got' = [got EXCEPT ![k] = e]
        BY <1>f, <3>4
      <4>2. Used(x)' = Used(x) + (Is(e, x) - Is(None, x))
        BY <1>0, <1>g, <4>1, UsedGot
      <4> QED
        BY <1>e, <1>i, <3>1, <3>2, <3>4, <4>2, GainIs
    <3> QED
      BY <3>3, <3>4
  <2> QED
    BY <1>0, <1>1, <1>f, <1>h, <1>i, <2>1, RefsLocked
<1>5. Updates'
  <2>1. (\A d \in Conts : cont'[d] = IF d = None THEN FreeCont ELSE cont[d]) /\ None \notin Conts
    BY <1>f, StillConts
  <2>2. FreeCont.op # "update"
    BY FreeShape
  <2> QED
    BY <1>0, <1>b, <1>e, <1>f, <2>1, <2>2, UpdatesLocked
<1>6. Old(e, None)
  BY <1>e DEF Old
<1>7. /\ \A x \in Reachable' : x \in Reachable \/ x = e
      /\ \A j \in Callers : (tc'[j] = tc[j] \/ tc'[j] = e) /\ (got'[j] = got[j] \/ got'[j] = e)
      /\ \A x \in Entries : est'[x] # est[x] => Known(x) /\ est'[x] # "BUILDING"
  <2>1. \A x \in Reachable : Known(x)
    BY DEF Known
  <2>2. \A j \in Callers : (tc'[j] = tc[j] \/ tc'[j] = e) /\ (got'[j] = got[j] \/ got'[j] = e)
    BY <1>0, <1>f DEF Types
  <2> QED
    BY <1>e, <1>h, <2>1, <2>2
<1> QED
  BY <1>1, <1>2, <1>3, <1>4, <1>5, <1>6, <1>7, <1>f, StillStep

(***************************************************************************)
(* Steps of a continuation that leave the cache and the entries alone      *)
(***************************************************************************)

\* What a step has to keep when it moves one continuation and leaves cache
\* and states alone.
LEMMA QuietStep ==
  ASSUME RouteInv, Types', Replies', Builds', RefsExact', UNCHANGED <<est, cache, todo, lost>>,
         NEW c \in Conts, NEW r \in Cont, Shaped(r), cont' = [cont EXCEPT ![c] = r],
         NEW e, Old(e, None),
         \A k \in Callers : (tc'[k] = tc[k] \/ tc'[k] = e) /\ (got'[k] = got[k] \/ got'[k] = e),
         Old(r.ent, None), Old(r.newest, None),
         cont[c].pc \notin {"remote", "replace"} \/ cont[c].newest = None,
         r.pc \notin {"remote", "replace"} \/ r.newest = None,
         cont[c].op # "update", r.op # "update",
         r.pc # "cache" \/ Spare
  PROVE  RouteInv'
<1>0. Types /\ Shapes /\ Replies /\ Store /\ Private /\ Updates /\ Builds /\ RefsExact /\ Reserved
  BY DEF RouteInv
<1>1. Shapes' /\ \A d \in Conts : cont'[d] = IF d = c THEN r ELSE cont[d]
  BY <1>0, ContStep
<1>2. Reachable' = Reachable
  BY DEF Reachable
<1>3. Moves(c, r, None)
  BY <1>1, <1>2, MovesBy
<1>4. \A d \in Conts, x \in Entries : Own(d, x) => d # c /\ Own(d, x)'
  <2> SUFFICES ASSUME NEW d \in Conts, NEW x \in Entries, Own(d, x) PROVE d # c /\ Own(d, x)'
    OBVIOUS
  <2>1. d # c
    BY DEF Own
  <2>2. cont'[d] = cont[d]
    BY <1>1, <2>1
  <2> QED
    BY <2>1, <2>2 DEF Own
<1>5. Store'
  BY <1>0, <1>4, StoreKept
<1>6. \A d \in Conts \ {c} : ~Own(d, None)
  BY DEF Own
<1>7. Private'
  BY <1>0, <1>3, <1>6, PrivateStep
<1>8. Updates'
  <2>1. \A d \in Conts : cont[d].op = "update" => cont'[d].op = "update"
    BY <1>1
  <2> QED
    BY <1>0, <1>1, <2>1, UpdatesKept
<1>9. None \notin Fresh
  BY RouteAssumption DEF Fresh
<1>10. Reserved'
  BY <1>0, <1>3, <1>9, ReservedStep
<1> QED
  BY <1>1, <1>5, <1>7, <1>8, <1>10 DEF RouteInv

\* A free continuation has nothing.
LEMMA FreeIs ==
  ASSUME Shapes, NEW c \in Conts, cont[c].pc = "free"
  PROVE  /\ cont[c].op = "none" /\ cont[c].ent = None /\ cont[c].newest = None
         /\ \A x : ~Own(c, x)
BY DEF Shapes, Shaped, Own

\* A caller begins to wait for a continuation that takes nothing of the cache.
LEMMA BegunStep ==
  ASSUME RouteInv, NEW k \in Callers, NEW c \in Conts, NEW r \in Cont, Shaped(r), cont[c].pc = "free",
         ask[k] = "idle", ask' = [ask EXCEPT ![k] = "waiting"], cont' = [cont EXCEPT ![c] = r],
         r.pc \in {"cache", "remote", "hostname"}, r.op \in {"none", "direct"}, r.who = k, r.notify, ~r.cancelled,
         r.ent = None, r.newest = None, r.pc = "cache" => Spare,
         UNCHANGED <<kind, got, est, pendq, refs, lost, cache, todo, tc>>
  PROVE  RouteInv'
<1>0. Types /\ Shapes /\ Replies /\ Store /\ Private /\ Updates /\ Builds /\ RefsExact /\ Reserved
  BY DEF RouteInv
<1>a. cont[c].op = "none" /\ cont[c].ent = None /\ cont[c].newest = None
  BY <1>0, FreeIs
<1>b. cont' \in [Conts -> Cont] /\ \A d \in Conts : cont'[d] = IF d = c THEN r ELSE cont[d]
  BY <1>0, ContStep
<1>1. Types'
  BY <1>0, <1>b DEF Types
<1>2. Replies'
  BY <1>0, <1>b, RepliesBegun
<1>3. Builds'
  BY <1>0, <1>a, <1>b, BuildsKept
<1>4. RefsExact'
  <2>1. \A d \in Conts : cont'[d].ent = cont[d].ent /\ cont'[d].newest = cont[d].newest
    BY <1>a, <1>b
  <2> QED
    BY <1>0, <1>1, <2>1, RefsSame
<1>5. Old(None, None) /\ Old(r.ent, None) /\ Old(r.newest, None)
  BY DEF Old
<1> QED
  BY <1>1, <1>2, <1>3, <1>4, <1>5, <1>a, QuietStep

\* A lookup that finds the bucket locked.
LEMMA StepGetContended ==
  ASSUME RouteInv, NEW k \in Callers, NEW c \in Conts, GetContended(k, c)
  PROVE  RouteInv'
<1>a. /\ ask[k] = "idle" /\ cont[c].pc = "free" /\ Spare
      /\ ask' = [ask EXCEPT ![k] = "waiting"]
      /\ cont' = [cont EXCEPT ![c] = [NewCont(k) EXCEPT !.pc = "cache"]]
      /\ UNCHANGED <<kind, got, est, pendq, refs, lost, cache, todo, tc>>
  BY DEF GetContended, Looks, Idle
<1>b. PICK r : r = [NewCont(k) EXCEPT !.pc = "cache"]
  OBVIOUS
<1>c. /\ r \in Cont /\ r.pc = "cache" /\ r.who = k /\ r.op = "none" /\ r.stage = "table"
      /\ r.ent = None /\ r.newest = None /\ r.notify /\ ~r.cancelled
  BY <1>b, NewShape DEF Cont
<1>d. Shaped(r)
  BY <1>c, RouteAssumption DEF Shaped
<1>e. cont' = [cont EXCEPT ![c] = r]
  BY <1>a, <1>b
<1> QED
  BY <1>a, <1>c, <1>d, <1>e, BegunStep

\* A lookup that asks the server and leaves the cache out.
LEMMA StepGetDirect ==
  ASSUME RouteInv, NEW k \in Callers, NEW c \in Conts, NEW f \in Fetch, GetDirect(k, c, f)
  PROVE  RouteInv'
<1>a. /\ ask[k] = "idle" /\ cont[c].pc = "free"
      /\ ask' = [ask EXCEPT ![k] = "waiting"]
      /\ cont' = [cont EXCEPT ![c] = Aim([NewCont(k) EXCEPT !.op = "direct"], f)]
      /\ UNCHANGED <<kind, got, est, pendq, refs, lost, cache, todo, tc>>
  BY DEF GetDirect, Idle
<1>b. PICK n : n = [NewCont(k) EXCEPT !.op = "direct"]
  OBVIOUS
<1>c. /\ n \in Cont /\ n.who = k /\ n.op = "direct" /\ n.ent = None /\ n.newest = None /\ n.notify /\ ~n.cancelled
  BY <1>b, NewShape DEF Cont
<1>d. PICK r : r = Aim(n, f)
  OBVIOUS
<1>e. /\ f.pc \in {"remote", "hostname"} /\ f.stage \in {"table", "binlog"} /\ f.left \in Nat
      /\ f.pc = "hostname" => f.stage = "binlog"
  BY FetchShape
<1>f. r \in Cont /\ Shaped(r) /\ r.pc = f.pc /\ SameBut(r, n, {"pc", "stage"})
  BY <1>c, <1>d, <1>e, AimShape
<1>g. r.who = k /\ r.op = "direct" /\ r.ent = None /\ r.newest = None /\ r.notify /\ ~r.cancelled
  BY <1>c, <1>f DEF SameBut
<1>h. cont' = [cont EXCEPT ![c] = r] /\ r.pc \in {"remote", "hostname"}
  BY <1>a, <1>b, <1>d, <1>e, <1>f
<1> QED
  BY <1>a, <1>f, <1>g, <1>h, BegunStep

(***************************************************************************)
(* Steps of a continuation that run the todo list and leave e in the cache *)
(***************************************************************************)

\* What a step has to keep when it takes the lock and leaves e in the cache.
LEMMA LockedStep ==
  ASSUME RouteInv, Types', Replies', Updates', Builds', RefsExact', NEW e \in Entries, NEW s \in Live, Locked(e, s),
         NEW c \in Conts, NEW r \in Cont, Shaped(r), \A d \in Conts : cont'[d] = IF d = c THEN r ELSE cont[d],
         NEW b, b = e \/ Known(e), \A d \in Conts \ {c} : ~Own(d, b),
         \A x \in Entries \ {e} : ~Own(c, x),
         r.pc \notin {"remote", "replace"} \/ r.newest = None,
         Old(r.ent, b), Old(r.newest, b),
         \A k \in Callers : (tc'[k] = tc[k] \/ tc'[k] = e) /\ (got'[k] = got[k] \/ got'[k] = e),
         lost' = lost \/ \E y \in Entries : Known(y) /\ lost' = Append(lost, y),
         r.pc # "cache", b \notin Fresh \/ Spare \/ cont[c].pc = "cache"
  PROVE  RouteInv'
<1>0. Types /\ Shapes /\ Replies /\ Store /\ Private /\ Updates /\ Builds /\ RefsExact /\ Reserved
  BY DEF RouteInv
<1>1. Shapes'
  BY <1>0 DEF Shapes, Shaped
<1>2. s \in States /\ Reachable' = {e}
  <2>1. s \in States
    BY DEF Live, States
  <2> QED
    BY <1>0, <2>1, LockedIs
<1>3. Moves(c, r, b)
  <2>1. Old(e, b)
    BY DEF Old
  <2> QED
    BY <1>2, <2>1, MovesBy
<1>4. Store' /\ Private'
  BY <1>0, <1>3, LockedKeeps
<1>5. Reserved'
  BY <1>0, <1>3, ReservedStep
<1> QED
  BY <1>1, <1>4, <1>5 DEF RouteInv

\* A continuation begins to build the new entry b.
LEMMA BuildStep ==
  ASSUME RouteInv, Types', Replies', NEW b \in Fresh, Locked(b, "BUILDING"),
         NEW c \in Conts, NEW r \in Cont, Shaped(r), \A d \in Conts : cont'[d] = IF d = c THEN r ELSE cont[d],
         r.pc = "remote", r.op = "build", r.ent = b, r.newest = None,
         cont[c].pc \in {"free", "cache"}, cont[c].ent = None, cont[c].newest = None, cont[c].op = "none",
         Spare \/ cont[c].pc = "cache",
         refs' = LockedCount(b, <<b, b>>, <<>>),
         UNCHANGED <<got, tc, lost, pendq>>
  PROVE  RouteInv'
<1>0. Types /\ Shapes /\ Replies /\ Store /\ Private /\ Updates /\ Builds /\ RefsExact /\ Reserved
  BY DEF RouteInv
<1>a. /\ b \in Entries /\ b # None /\ ~Known(b)
      /\ \A d \in Conts : cont[d].newest # b /\ cont[d].ent # b /\ ~Own(d, b)
  BY <1>0, FreshIsUnknown
<1>b. b \notin Reachable /\ "BUILDING" \in Live /\ "BUILDING" \in States
  BY <1>a DEF Known, Live, States
<1>c. /\ cache' = b /\ todo' = <<>>
      /\ \A x \in Entries : est'[x] = IF x = b THEN "BUILDING" ELSE IF x \in Reachable THEN "DELETED" ELSE est[x]
  BY <1>0, <1>a, <1>b, LockedIs
<1>1. Builds'
  <2>1. \A x \in Entries \ {b} : est'[x] = "BUILDING" => est[x] = "BUILDING"
    BY <1>c
  <2> QED
    BY <1>0, <1>a, <2>1, BuildsBegun
<1>2. Updates'
  <2>1. \A d \in Conts : cont[d].op = "update" => cont[d].ent \in Entries
    BY <1>0 DEF Shapes, Shaped
  <2> QED
    BY <1>0, <1>a, <1>b, <2>1, UpdatesLocked
<1>3. RefsExact'
  <2>1. \A x \in Entries : /\ Count(x, <<b, b>>) = Is(b, x) + Is(b, x) /\ Count(x, <<>>) = 0
                           /\ Is(b, x) \in Nat /\ Is(None, x) = 0
                           /\ Count(x, <<b, b>>) \in Nat /\ Count(x, <<>>) \in Nat
    BY <1>a, CountTwo, CountEmpty, IsNat, RouteAssumption DEF Is
  <2>2. ASSUME NEW x \in Entries
        PROVE  Count(x, <<b, b>>) - Count(x, <<>>) = Gain(x) + (IF b = x /\ b \notin Reachable THEN 1 ELSE 0)
    <3>1. Used(x)' = Used(x) /\ Count(x, lost)' = Count(x, lost)
      BY UsedSame, LostSame
    <3>2. Kept(x)' = Kept(x) + (Is(b, x) - Is(None, x)) + (Is(None, x) - Is(None, x))
      BY <1>0, KeptStep
    <3>3. Used(x) \in Nat /\ Kept(x) \in Nat /\ Count(x, lost) \in Nat
      BY <1>0, CountsAre DEF Counts
    <3>4. Is(b, x) = IF b = x /\ b \notin Reachable THEN 1 ELSE 0
      BY <1>b DEF Is
    <3>6. Is(b, x) \in Nat /\ Is(None, x) = 0
      BY <2>1
    <3>7. Kept(x)' = Kept(x) + Is(b, x)
      BY <3>2, <3>3, <3>6
    <3>5. Gain(x) = Is(b, x)
      BY <3>1, <3>3, <3>6, <3>7, GainIs
    <3> QED
      BY <2>1, <3>4, <3>5
  <2>3. PICK plus : plus = <<b, b>>
    OBVIOUS
  <2>4. /\ refs' = LockedCount(b, plus, <<>>)
        /\ \A x \in Entries : /\ Count(x, plus) \in Nat /\ Count(x, <<>>) \in Nat
                              /\ Count(x, plus) - Count(x, <<>>) = Gain(x) + (IF b = x /\ b \notin Reachable THEN 1 ELSE 0)
    BY <2>1, <2>2, <2>3
  <2> QED
    BY <1>0, <1>a, <1>c, <2>4, RefsLocked
<1>4. Old(r.ent, b) /\ Old(r.newest, b)
  BY DEF Old
<1>5. \A x \in Entries \ {b} : ~Own(c, x)
  BY DEF Own
<1> QED
  BY <1>1, <1>2, <1>3, <1>4, <1>5, <1>a, <1>b, LockedStep

\* A lookup that finds nothing and puts a placeholder in the cache.
LEMMA StepGetBuild ==
  ASSUME RouteInv, NEW k \in Callers, NEW c \in Conts, NEW exp, NEW async, GetBuild(k, c, exp, async)
  PROVE  RouteInv'
<1>0. Types /\ Shapes /\ Replies /\ Store /\ Private /\ Updates /\ Builds /\ RefsExact /\ Reserved
  BY DEF RouteInv
<1>a. ask[k] = "idle" /\ cont[c].pc = "free" /\ Spare
  BY DEF GetBuild, Looks, Idle
<1>b. PICK b \in Fresh : b = NewEntry
  BY <1>a, SpareIsFresh
<1>c. b \in Entries
  BY DEF Fresh
<1>d. PICK r : r = Sent(NewCont(k), "build", b)
  OBVIOUS
<1>e. /\ r \in Cont /\ Shaped(r) /\ r.pc = "remote" /\ r.op = "build" /\ r.ent = b
      /\ r.who = k /\ r.notify /\ ~r.cancelled /\ r.newest = None
  <2>1. /\ r \in Cont /\ Shaped(r) /\ r.pc = "remote" /\ r.op = "build" /\ r.ent = b
        /\ SameBut(r, NewCont(k), {"pc", "op", "ent"})
    BY <1>c, <1>d, NewShape, SentShape
  <2> QED
    BY <2>1, NewShape DEF SameBut
<1>f. /\ Locked(b, "BUILDING")
      /\ ask' = [ask EXCEPT ![k] = "waiting"]
      /\ cont' = [cont EXCEPT ![c] = r]
      /\ refs' = LockedCount(b, <<b, b>>, <<>>)
      /\ UNCHANGED <<kind, got, pendq, lost, tc>>
  BY <1>b, <1>d DEF GetBuild
<1>g. cont[c].op = "none" /\ cont[c].ent = None /\ cont[c].newest = None
  BY <1>0, <1>a, FreeIs
<1>h. cont' \in [Conts -> Cont] /\ \A d \in Conts : cont'[d] = IF d = c THEN r ELSE cont[d]
  BY <1>0, <1>e, <1>f, ContStep
<1>1. Types'
  <2>1. LockedCount(b, <<b, b>>, <<>>) \in [Entries -> Int]
    <3>1. \A x \in Entries : Count(x, <<b, b>>) \in Nat /\ Count(x, <<>>) \in Nat
      BY <1>c, CountTwo, CountEmpty, IsNat
    <3> QED
      BY <1>0, <3>1, LockedInt
  <2>2. cache' = b /\ todo' \in Seq(Entries) /\ est' \in [Entries -> States]
    BY <1>0, <1>c, <1>f, LockedIs DEF States
  <2> QED
    BY <1>0, <1>c, <1>f, <1>h, <2>1, <2>2 DEF Types
<1>2. Replies'
  BY <1>0, <1>a, <1>e, <1>f, <1>h, RepliesBegun
<1> QED
  BY <1>1, <1>2, <1>a, <1>e, <1>f, <1>g, <1>h, BuildStep

\* The same on the second try for the lock.
LEMMA StepAgainBuild ==
  ASSUME RouteInv, NEW c \in Conts, NEW exp, NEW async, AgainBuild(c, exp, async)
  PROVE  RouteInv'
<1>0. Types /\ Shapes /\ Replies /\ Store /\ Private /\ Updates /\ Builds /\ RefsExact /\ Reserved
  BY DEF RouteInv
<1>a. cont[c].pc = "cache"
  BY DEF AgainBuild, Again
<1>b. PICK b \in Fresh : b = NewEntry
  BY <1>0, <1>a, ReservedIsFresh DEF Reserved, Waiting
<1>c. b \in Entries
  BY DEF Fresh
<1>g. /\ cont[c] \in Cont /\ cont[c].op = "none" /\ cont[c].ent = None /\ cont[c].newest = None
      /\ cont[c].who \in Callers /\ cont[c].stage = "table"
  BY <1>0, <1>a DEF Types, Shapes, Shaped
<1>d. PICK r : r = Sent(cont[c], "build", b)
  OBVIOUS
<1>e. /\ r \in Cont /\ Shaped(r) /\ r.pc = "remote" /\ r.op = "build" /\ r.ent = b
      /\ SameBut(r, cont[c], {"pc", "op", "ent"})
  BY <1>a, <1>c, <1>d, <1>g, SentShape
<1>i. r.who = cont[c].who /\ (r.notify <=> cont[c].notify) /\ (r.cancelled <=> cont[c].cancelled) /\ r.newest = None
  BY <1>e, <1>g DEF SameBut
<1>f. /\ Locked(b, "BUILDING")
      /\ cont' = [cont EXCEPT ![c] = r]
      /\ refs' = LockedCount(b, <<b, b>>, <<>>)
      /\ UNCHANGED <<kind, ask, got, pendq, lost, tc>>
  BY <1>0, <1>b, <1>d DEF AgainBuild, Types
<1>h. cont' \in [Conts -> Cont] /\ \A d \in Conts : cont'[d] = IF d = c THEN r ELSE cont[d]
  BY <1>0, <1>e, <1>f, ContStep
<1>1. Types'
  <2>1. LockedCount(b, <<b, b>>, <<>>) \in [Entries -> Int]
    <3>1. \A x \in Entries : Count(x, <<b, b>>) \in Nat /\ Count(x, <<>>) \in Nat
      BY <1>c, CountTwo, CountEmpty, IsNat
    <3> QED
      BY <1>0, <3>1, LockedInt
  <2>2. cache' = b /\ todo' \in Seq(Entries) /\ est' \in [Entries -> States]
    BY <1>0, <1>c, <1>f, LockedIs DEF States
  <2> QED
    BY <1>0, <1>c, <1>f, <1>h, <2>1, <2>2 DEF Types
<1>2. Replies'
  BY <1>0, <1>a, <1>e, <1>f, <1>h, <1>i, RepliesKept
<1> QED
  BY <1>1, <1>2, <1>a, <1>e, <1>f, <1>g, <1>h, <1>i, BuildStep

\* A continuation takes the dirty entry e for updating.
LEMMA UpdateStep ==
  ASSUME RouteInv, Types', Replies', RefsExact', NEW exp, NEW async, TakesUpdate(exp, async),
         NEW e \in Entries, e = Current, Locked(e, "UPDATING"),
         NEW c \in Conts, NEW r \in Cont, Shaped(r), \A d \in Conts : cont'[d] = IF d = c THEN r ELSE cont[d],
         r.pc = "remote", r.op = "update", r.ent = e, r.newest = None,
         cont[c].pc \in {"free", "cache"}, cont[c].op = "none",
         UNCHANGED <<tc, pendq>>,
         \A k \in Callers : got'[k] = got[k] \/ got'[k] = e,
         lost' = lost \/ lost' = Append(lost, e)
  PROVE  RouteInv'
<1>0. Types /\ Shapes /\ Replies /\ Store /\ Private /\ Updates /\ Builds /\ RefsExact /\ Reserved
  BY DEF RouteInv
<1>a. Finds(exp, async, {"DIRTY"})
  BY DEF TakesUpdate
<1>b. e \in Reachable /\ Known(e) /\ est[e] \in {"AVAIL", "DIRTY"}
  BY <1>0, <1>a, Found
<1>c. "UPDATING" \in Live /\ "UPDATING" \in States
  BY DEF Live, States
<1>d. \A x \in Entries : est'[x] = IF x = e THEN "UPDATING" ELSE IF x \in Reachable THEN "DELETED" ELSE est[x]
  BY <1>0, <1>c, LockedIs
<1>1. Updates'
  BY <1>0, <1>b, UpdatesTaken
<1>2. Builds'
  <2>1. \A x \in Entries : est'[x] = "BUILDING" => est[x] = "BUILDING"
    BY <1>d
  <2> QED
    BY <1>0, <2>1, BuildsKept
<1>3. Old(r.ent, None) /\ Old(r.newest, None)
  BY <1>b DEF Old
<1>4. (\A d \in Conts \ {c} : ~Own(d, None)) /\ (\A x \in Entries \ {e} : ~Own(c, x)) /\ None \notin Fresh
  BY RouteAssumption DEF Own, Fresh
<1> QED
  BY <1>1, <1>2, <1>3, <1>4, <1>b, <1>c, LockedStep

\* What an update gives away besides its own reference.
LEMMA UpdateRefs ==
  ASSUME RouteInv, Types', NEW e \in Entries, e \in Reachable, cache' = e, todo' = <<>>,
         NEW c \in Conts, NEW r, \A d \in Conts : cont'[d] = IF d = c THEN r ELSE cont[d],
         r.ent = e, r.newest = None, cont[c].ent = None, cont[c].newest = None, tc' = tc,
         \/ /\ got' = got /\ lost' = lost /\ refs' = LockedCount(e, <<e>>, <<>>)
         \/ /\ refs' = LockedCount(e, <<e, e>>, <<>>)
            /\ \/ lost' = lost /\ \E k \in Callers : got[k] = None /\ got' = [got EXCEPT ![k] = e]
               \/ got' = got /\ lost' = Append(lost, e)
  PROVE  RefsExact'
<1>0. Types /\ Store /\ RefsExact
  BY DEF RouteInv
<1>1. ASSUME NEW x \in Entries
      PROVE  /\ Kept(x)' = Kept(x) + Is(e, x)
             /\ Used(x) \in Nat /\ Kept(x) \in Nat /\ Count(x, lost) \in Nat
             /\ Count(x, <<e>>) = Is(e, x) /\ Count(x, <<e, e>>) = Is(e, x) + Is(e, x) /\ Count(x, <<>>) = 0
             /\ Is(e, x) \in Nat
  <2>1. Kept(x)' = Kept(x) + (Is(e, x) - Is(None, x)) + (Is(None, x) - Is(None, x))
    BY <1>0, KeptStep
  <2>2. Used(x) \in Nat /\ Kept(x) \in Nat /\ Count(x, lost) \in Nat
    BY <1>0, CountsAre DEF Counts
  <2>3. Is(e, x) \in Nat /\ Is(None, x) = 0
    BY IsNat, RouteAssumption DEF Is
  <2>4. Count(x, <<e>>) = Is(e, x) /\ Count(x, <<e, e>>) = Is(e, x) + Is(e, x) /\ Count(x, <<>>) = 0
    BY CountOne, CountTwo, CountEmpty
  <2>5. Kept(x)' = Kept(x) + Is(e, x)
    BY <2>1, <2>2, <2>3
  <2> QED
    BY <2>2, <2>3, <2>4, <2>5
<1>2. CASE got' = got /\ lost' = lost /\ refs' = LockedCount(e, <<e>>, <<>>)
  <2>1. ASSUME NEW x \in Entries
        PROVE  Gain(x) = Is(e, x)
    <3>1. Used(x)' = Used(x) /\ Count(x, lost)' = Count(x, lost)
      BY <1>2, UsedSame, LostSame
    <3> QED
      BY <1>1, <3>1, GainIs
  <2> QED
    BY <1>0, <1>1, <1>2, <2>1, RefsFound
<1>3. CASE /\ refs' = LockedCount(e, <<e, e>>, <<>>)
           /\ \/ lost' = lost /\ \E k \in Callers : got[k] = None /\ got' = [got EXCEPT ![k] = e]
              \/ got' = got /\ lost' = Append(lost, e)
  <2>1. ASSUME NEW x \in Entries
        PROVE  Gain(x) = Is(e, x) + Is(e, x)
    <3>1. CASE lost' = lost /\ \E k \in Callers : got[k] = None /\ got' = [got EXCEPT ![k] = e]
      <4>1. PICK k \in Callers : got[k] = None /\ got' = [got EXCEPT ![k] = e]
        BY <3>1
      <4>a. tc' = tc /\ got' = [got EXCEPT ![k] = e]
        BY <4>1
      <4>b. Used(x)' = Used(x) + (Is(e, x) - Is(got[k], x))
        BY <1>0, <4>a, UsedGot
      <4>2. Used(x)' = Used(x) + (Is(e, x) - Is(None, x))
        BY <4>1, <4>b
      <4>3. Is(None, x) = 0
        BY RouteAssumption DEF Is
      <4>4. Used(x)' = Used(x) + Is(e, x)
        BY <1>1, <4>2, <4>3
      <4>5. Count(x, lost)' = Count(x, lost)
        BY <3>1, LostSame
      <4> QED
        BY <1>1, <4>4, <4>5, GainIs
    <3>2. CASE got' = got /\ lost' = Append(lost, e)
      <4>1. Used(x)' = Used(x)
        BY <3>2, UsedSame
      <4>2. Count(x, lost)' = Count(x, lost) + Is(e, x)
        <5>1. Count(x, Append(lost, e)) = Count(x, lost) + Is(e, x)
          BY <1>0, CountAppend DEF Types
        <5> QED
          BY <3>2, <5>1 DEF Count
      <4> QED
        BY <1>1, <4>1, <4>2, GainIs
    <3> QED
      BY <1>3, <3>1, <3>2
  <2>2. PICK plus : plus = <<e, e>>
    OBVIOUS
  <2>3. refs' = LockedCount(e, plus, <<>>)
    BY <1>3, <2>2
  <2>4. ASSUME NEW x \in Entries
        PROVE  /\ Count(x, plus) \in Nat /\ Count(x, <<>>) \in Nat
               /\ Count(x, plus) - Count(x, <<>>) = Gain(x)
    <3>1. Is(e, x) \in Nat /\ Count(x, <<e, e>>) = Is(e, x) + Is(e, x) /\ Count(x, <<>>) = 0
      BY <1>1
    <3>2. Count(x, plus) = Is(e, x) + Is(e, x)
      BY <2>2, <3>1
    <3>3. Gain(x) = Is(e, x) + Is(e, x)
      BY <2>1
    <3> QED
      BY <3>1, <3>2, <3>3
  <2> QED
    BY <1>0, <2>3, <2>4, RefsFound
<1> QED
  BY <1>2, <1>3

\* The types after an entry was locked for an update.
LEMMA UpdateTypes ==
  ASSUME Types, NEW e \in Entries, Locked(e, "UPDATING"), UNCHANGED <<kind, pendq, tc>>,
         ask' \in [Callers -> {"idle", "waiting", "holding"}], got' \in [Callers -> Entries \cup {None}],
         cont' \in [Conts -> Cont], lost' \in Seq(Entries), Len(lost') <= MaxLost,
         refs' = LockedCount(e, <<e>>, <<>>) \/ refs' = LockedCount(e, <<e, e>>, <<>>)
  PROVE  Types' /\ cache' = e /\ todo' = <<>>
<1>1. cache' = e /\ todo' = <<>> /\ todo' \in Seq(Entries) /\ est' \in [Entries -> States]
  BY LockedIs DEF States
<1>2. \A x \in Entries : Count(x, <<e>>) \in Nat /\ Count(x, <<e, e>>) \in Nat /\ Count(x, <<>>) \in Nat
  BY CountOne, CountTwo, CountEmpty, IsNat
<1>3. LockedCount(e, <<e>>, <<>>) \in [Entries -> Int]
  BY <1>2, LockedInt
<1>4. LockedCount(e, <<e, e>>, <<>>) \in [Entries -> Int]
  <2>1. PICK plus : plus = <<e, e>>
    OBVIOUS
  <2>2. LockedCount(e, plus, <<>>) \in [Entries -> Int]
    BY <1>2, <2>1, LockedInt
  <2> QED
    BY <2>1, <2>2
<1> QED
  BY <1>1, <1>3, <1>4 DEF Types

\* A lookup that finds the entry dirty and takes the update on.
LEMMA StepGetUpdate ==
  ASSUME RouteInv, NEW k \in Callers, NEW c \in Conts, NEW exp, NEW async, GetUpdate(k, c, exp, async)
  PROVE  RouteInv'
<1>0. Types /\ Shapes /\ Replies /\ Store /\ Private /\ Updates /\ Builds /\ RefsExact /\ Reserved
  BY DEF RouteInv
<1>a. ask[k] = "idle" /\ cont[c].pc = "free" /\ TakesUpdate(exp, async) /\ Finds(exp, async, {"DIRTY"})
  BY DEF GetUpdate, Looks, Idle, TakesUpdate
<1>b. PICK e \in Entries : e = Current /\ e \in Reachable
  BY <1>0, <1>a, Found
<1>g. cont[c].op = "none" /\ cont[c].ent = None /\ cont[c].newest = None
  BY <1>0, <1>a, FreeIs
<1>c. got[k] = None
  BY <1>0, <1>a DEF Replies
<1>d. PICK old \in BOOLEAN : old = (async /\ kind # "dummy")
  OBVIOUS
<1>e. PICK n : n = [NewCont(k) EXCEPT !.notify = ~old]
  OBVIOUS
<1>f. /\ n \in Cont /\ n.pc = "free" /\ n.who = k /\ n.op = "none" /\ n.stage = "table"
      /\ n.ent = None /\ n.newest = None /\ ~n.cancelled
  BY <1>e, NewShape DEF Cont
<1>i. n.notify <=> ~old
  BY <1>e, NewShape DEF Cont
<1>j. PICK r : r = Sent(n, "update", e)
  OBVIOUS
<1>k. /\ r \in Cont /\ Shaped(r) /\ r.pc = "remote" /\ r.op = "update" /\ r.ent = e
      /\ SameBut(r, n, {"pc", "op", "ent"})
  BY <1>f, <1>j, SentShape
<1>l. r.who = k /\ (r.notify <=> ~old) /\ ~r.cancelled /\ r.newest = None
  BY <1>f, <1>i, <1>k DEF SameBut
<1>m. /\ Locked(e, "UPDATING")
      /\ ask' = [ask EXCEPT ![k] = IF old THEN "holding" ELSE "waiting"]
      /\ got' = IF old THEN [got EXCEPT ![k] = e] ELSE got
      /\ cont' = [cont EXCEPT ![c] = r]
      /\ refs' = LockedCount(e, IF old THEN <<e, e>> ELSE <<e>>, <<>>)
      /\ UNCHANGED <<kind, pendq, lost, tc>>
  BY <1>b, <1>d, <1>e, <1>j DEF GetUpdate
<1>n. cont' \in [Conts -> Cont] /\ \A d \in Conts : cont'[d] = IF d = c THEN r ELSE cont[d]
  BY <1>0, <1>k, <1>m, ContStep
<1>o. /\ ask' \in [Callers -> {"idle", "waiting", "holding"}] /\ got' \in [Callers -> Entries \cup {None}]
      /\ \A j \in Callers : got'[j] = got[j] \/ got'[j] = e
      /\ lost' \in Seq(Entries) /\ Len(lost') <= MaxLost
      /\ refs' = LockedCount(e, <<e>>, <<>>) \/ refs' = LockedCount(e, <<e, e>>, <<>>)
  BY <1>0, <1>m DEF Types
<1>1. Types' /\ cache' = e /\ todo' = <<>>
  BY <1>0, <1>m, <1>n, <1>o, UpdateTypes
<1>2. Replies'
  <2>1. CASE old
    <3>1. ask' = [ask EXCEPT ![k] = "holding"] /\ got' = [got EXCEPT ![k] = e] /\ ~r.notify
      BY <1>l, <1>m, <2>1
    <3> QED
      BY <1>0, <1>a, <1>n, <3>1, RepliesGranted
  <2>2. CASE ~old
    <3>1. ask' = [ask EXCEPT ![k] = "waiting"] /\ got' = got /\ r.notify
      BY <1>l, <1>m, <2>2
    <3> QED
      BY <1>0, <1>a, <1>k, <1>l, <1>n, <3>1, RepliesBegun
  <2> QED
    BY <2>1, <2>2
<1>3. RefsExact'
  <2>1. CASE old
    <3>1. refs' = LockedCount(e, <<e, e>>, <<>>) /\ got' = [got EXCEPT ![k] = e] /\ lost' = lost /\ tc' = tc
      BY <1>m, <2>1
    <3> QED
      BY <1>1, <1>b, <1>c, <1>g, <1>k, <1>l, <1>n, <3>1, UpdateRefs
  <2>2. CASE ~old
    <3>1. refs' = LockedCount(e, <<e>>, <<>>) /\ got' = got /\ lost' = lost /\ tc' = tc
      BY <1>m, <2>2
    <3> QED
      BY <1>1, <1>b, <1>g, <1>k, <1>l, <1>n, <3>1, UpdateRefs
  <2> QED
    BY <2>1, <2>2
<1> QED
  BY <1>1, <1>2, <1>3, <1>a, <1>b, <1>g, <1>k, <1>l, <1>m, <1>n, <1>o, UpdateStep

\* The same on the second try for the lock.
LEMMA StepAgainUpdate ==
  ASSUME RouteInv, NEW c \in Conts, NEW exp, NEW async, AgainUpdate(c, exp, async)
  PROVE  RouteInv'
<1>0. Types /\ Shapes /\ Replies /\ Store /\ Private /\ Updates /\ Builds /\ RefsExact /\ Reserved
  BY DEF RouteInv
<1>a. cont[c].pc = "cache" /\ TakesUpdate(exp, async) /\ Finds(exp, async, {"DIRTY"})
  BY DEF AgainUpdate, Again, TakesUpdate
<1>b. PICK e \in Entries : e = Current /\ e \in Reachable
  BY <1>0, <1>a, Found
<1>g. /\ cont[c] \in Cont /\ cont[c].op = "none" /\ cont[c].ent = None /\ cont[c].newest = None
      /\ cont[c].who \in Callers /\ cont[c].stage = "table"
  BY <1>0, <1>a DEF Types, Shapes, Shaped
<1>d. PICK drop \in BOOLEAN : drop = (async /\ kind # "dummy")
  OBVIOUS
<1>j. PICK r : r = Sent(cont[c], "update", e)
  OBVIOUS
<1>k. /\ r \in Cont /\ Shaped(r) /\ r.pc = "remote" /\ r.op = "update" /\ r.ent = e
      /\ SameBut(r, cont[c], {"pc", "op", "ent"})
  BY <1>a, <1>g, <1>j, SentShape
<1>l. r.who = cont[c].who /\ (r.notify <=> cont[c].notify) /\ (r.cancelled <=> cont[c].cancelled) /\ r.newest = None
  BY <1>g, <1>k DEF SameBut
<1>m. /\ Locked(e, "UPDATING")
      /\ drop => Len(lost) < MaxLost
      /\ cont' = [cont EXCEPT ![c] = r]
      /\ lost' = IF drop THEN Append(lost, e) ELSE lost
      /\ refs' = LockedCount(e, IF drop THEN <<e, e>> ELSE <<e>>, <<>>)
      /\ UNCHANGED <<kind, ask, got, pendq, tc>>
  BY <1>0, <1>b, <1>d, <1>j DEF AgainUpdate, Types
<1>n. cont' \in [Conts -> Cont] /\ \A d \in Conts : cont'[d] = IF d = c THEN r ELSE cont[d]
  BY <1>0, <1>k, <1>m, ContStep
<1>o. /\ lost' \in Seq(Entries) /\ Len(lost') <= MaxLost
      /\ refs' = LockedCount(e, <<e>>, <<>>) \/ refs' = LockedCount(e, <<e, e>>, <<>>)
      /\ lost' = lost \/ lost' = Append(lost, e)
  <2>1. Append(lost, e) \in Seq(Entries) /\ Len(Append(lost, e)) = Len(lost) + 1 /\ Len(lost) \in Nat
    BY <1>0, AppendProperties, LenProperties DEF Types
  <2> QED
    BY <1>0, <1>m, <2>1, RouteAssumption DEF Types
<1>1. Types' /\ cache' = e /\ todo' = <<>>
  <2>1. ask' \in [Callers -> {"idle", "waiting", "holding"}] /\ got' \in [Callers -> Entries \cup {None}]
    BY <1>0, <1>m DEF Types
  <2> QED
    BY <1>0, <1>m, <1>n, <1>o, <2>1, UpdateTypes
<1>2. Replies'
  BY <1>0, <1>a, <1>k, <1>l, <1>m, <1>n, RepliesKept
<1>3. RefsExact'
  <2>1. CASE drop
    <3>1. refs' = LockedCount(e, <<e, e>>, <<>>) /\ got' = got /\ lost' = Append(lost, e) /\ tc' = tc
      BY <1>m, <2>1
    <3> QED
      BY <1>1, <1>b, <1>g, <1>k, <1>l, <1>n, <3>1, UpdateRefs
  <2>2. CASE ~drop
    <3>1. refs' = LockedCount(e, <<e>>, <<>>) /\ got' = got /\ lost' = lost /\ tc' = tc
      BY <1>m, <2>2
    <3> QED
      BY <1>1, <1>b, <1>g, <1>k, <1>l, <1>n, <3>1, UpdateRefs
  <2> QED
    BY <2>1, <2>2
<1> QED
  BY <1>1, <1>2, <1>3, <1>a, <1>b, <1>g, <1>k, <1>l, <1>m, <1>n, <1>o, UpdateStep

\* A continuation joins the queue of the building entry e.
LEMMA WaitStep ==
  ASSUME RouteInv, Replies', NEW exp, NEW async, Finds(exp, async, {"BUILDING"}),
         NEW e \in Entries, e = Current, Locked(e, "BUILDING"),
         NEW c \in Conts, NEW r \in Cont, Shaped(r), cont' = [cont EXCEPT ![c] = r],
         r.pc = "queued", r.op = "none", r.ent = e, r.newest = None,
         cont[c].pc \in {"free", "cache"}, cont[c].op = "none", cont[c].ent = None, cont[c].newest = None,
         pendq' = [pendq EXCEPT ![e] = Append(@, c)],
         refs' = LockedCount(e, <<e>>, <<>>),
         UNCHANGED <<kind, got, tc, lost>>, ask' \in [Callers -> {"idle", "waiting", "holding"}]
  PROVE  RouteInv'
<1>0. Types /\ Shapes /\ Replies /\ Store /\ Private /\ Updates /\ Builds /\ RefsExact /\ Reserved
  BY DEF RouteInv
<1>b. e \in Reachable /\ Known(e) /\ est[e] = "BUILDING"
  BY <1>0, Found
<1>e. /\ \A d \in Conts : cont[d].op = "update" => cont[d].ent \in Entries
      /\ \A d \in Conts : cont[d].op = "update" => cont[d].ent # e
  BY <1>0, <1>b DEF Updates, Shapes, Shaped
<1>c. "BUILDING" \in Live /\ "BUILDING" \in States
  BY DEF Live, States
<1>d. /\ cache' = e /\ todo' = <<>> /\ todo' \in Seq(Entries) /\ est' \in [Entries -> States]
      /\ \A x \in Entries : est'[x] = IF x = e THEN "BUILDING" ELSE IF x \in Reachable THEN "DELETED" ELSE est[x]
  BY <1>0, <1>c, LockedIs
<1>f. cont' \in [Conts -> Cont] /\ \A d \in Conts : cont'[d] = IF d = c THEN r ELSE cont[d]
  BY <1>0, ContStep
<1>1. Builds' /\ pendq' \in [Entries -> Seq(Conts)]
  <2>1. \A x \in Entries : est'[x] = "BUILDING" => est[x] = "BUILDING"
    BY <1>b, <1>d
  <2> QED
    BY <1>0, <1>b, <1>f, <2>1, BuildsJoined
<1>g. \A x \in Entries : Count(x, <<e>>) = Is(e, x) /\ Count(x, <<>>) = 0 /\ Is(e, x) \in Nat /\ Is(None, x) = 0
  BY CountOne, CountEmpty, IsNat, RouteAssumption DEF Is
<1>2. Types'
  <2>1. LockedCount(e, <<e>>, <<>>) \in [Entries -> Int]
    BY <1>0, <1>g, LockedInt
  <2> QED
    BY <1>0, <1>1, <1>d, <1>f, <2>1 DEF Types
<1>3. Updates'
  BY <1>0, <1>c, <1>e, <1>f, UpdatesLocked
<1>4. RefsExact'
  <2>1. ASSUME NEW x \in Entries
        PROVE  Count(x, <<e>>) - Count(x, <<>>) = Gain(x)
    <3>1. Used(x)' = Used(x) /\ Count(x, lost)' = Count(x, lost)
      BY UsedSame, LostSame
    <3>2. Kept(x)' = Kept(x) + (Is(e, x) - Is(None, x)) + (Is(None, x) - Is(None, x))
      BY <1>0, <1>f, KeptStep
    <3>3. Used(x) \in Nat /\ Kept(x) \in Nat /\ Count(x, lost) \in Nat
      BY <1>0, CountsAre DEF Counts
    <3>4. Is(e, x) \in Nat /\ Is(None, x) = 0 /\ Count(x, <<e>>) = Is(e, x) /\ Count(x, <<>>) = 0
      BY <1>g
    <3>5. Kept(x)' = Kept(x) + Is(e, x)
      BY <3>2, <3>3, <3>4
    <3> QED
      BY <3>1, <3>3, <3>4, <3>5, GainIs
  <2> QED
    BY <1>0, <1>2, <1>b, <1>d, <1>g, <2>1, RefsFound
<1>5. Old(r.ent, None) /\ Old(r.newest, None)
  BY <1>b DEF Old
<1>6. (\A d \in Conts \ {c} : ~Own(d, None)) /\ (\A x \in Entries \ {e} : ~Own(c, x)) /\ None \notin Fresh
  BY RouteAssumption DEF Own, Fresh
<1> QED
  BY <1>1, <1>2, <1>3, <1>4, <1>5, <1>6, <1>b, <1>c, <1>f, LockedStep

\* A lookup that finds a placeholder and joins its queue.
LEMMA StepGetWait ==
  ASSUME RouteInv, NEW k \in Callers, NEW c \in Conts, NEW exp, NEW async, GetWait(k, c, exp, async)
  PROVE  RouteInv'
<1>0. Types /\ Shapes /\ Replies /\ Store /\ Private /\ Updates /\ Builds /\ RefsExact /\ Reserved
  BY DEF RouteInv
<1>a. ask[k] = "idle" /\ cont[c].pc = "free" /\ Finds(exp, async, {"BUILDING"})
  BY DEF GetWait, Looks, Idle
<1>b. PICK e \in Entries : e = Current
  BY <1>0, <1>a, Found
<1>g. cont[c].op = "none" /\ cont[c].ent = None /\ cont[c].newest = None
  BY <1>0, <1>a, FreeIs
<1>d. PICK r : r = [NewCont(k) EXCEPT !.pc = "queued", !.ent = e]
  OBVIOUS
<1>e. /\ r \in Cont /\ r.pc = "queued" /\ r.op = "none" /\ r.ent = e /\ r.stage = "table"
      /\ r.who = k /\ r.notify /\ ~r.cancelled /\ r.newest = None
  <2>1. PICK n \in Cont : n = NewCont(k)
    BY NewShape
  <2>2. n.op = "none" /\ n.stage = "table" /\ n.who = k /\ n.newest = None /\ n.notify /\ ~n.cancelled
    BY <2>1, NewShape
  <2>3. r = [n EXCEPT !.pc = "queued", !.ent = e]
    BY <1>d, <2>1
  <2>4. r \in Cont /\ r.pc = "queued" /\ r.ent = e /\ r.op = n.op /\ r.stage = n.stage /\ r.who = n.who /\ r.newest = n.newest
    BY <2>3 DEF Cont
  <2>5. (r.notify <=> n.notify) /\ (r.cancelled <=> n.cancelled)
    BY <2>3 DEF Cont
  <2> QED
    BY <2>2, <2>4, <2>5
<1>f. Shaped(r)
  BY <1>e, RouteAssumption DEF Shaped
<1>h. /\ Locked(e, "BUILDING")
      /\ pendq' = [pendq EXCEPT ![e] = Append(@, c)]
      /\ ask' = [ask EXCEPT ![k] = "waiting"]
      /\ cont' = [cont EXCEPT ![c] = r]
      /\ refs' = LockedCount(e, <<e>>, <<>>)
      /\ UNCHANGED <<kind, got, lost, tc>>
  BY <1>b, <1>d DEF GetWait
<1>i. \A d \in Conts : cont'[d] = IF d = c THEN r ELSE cont[d]
  BY <1>0, <1>e, <1>f, <1>h, ContStep
<1>1. Replies'
  BY <1>0, <1>a, <1>e, <1>h, <1>i, RepliesBegun
<1>2. ask' \in [Callers -> {"idle", "waiting", "holding"}]
  BY <1>0, <1>h DEF Types
<1> QED
  BY <1>1, <1>2, <1>a, <1>b, <1>e, <1>f, <1>g, <1>h, WaitStep

\* The same on the second try for the lock.
LEMMA StepAgainWait ==
  ASSUME RouteInv, NEW c \in Conts, NEW exp, NEW async, AgainWait(c, exp, async)
  PROVE  RouteInv'
<1>0. Types /\ Shapes /\ Replies /\ Store /\ Private /\ Updates /\ Builds /\ RefsExact /\ Reserved
  BY DEF RouteInv
<1>a. cont[c].pc = "cache" /\ Finds(exp, async, {"BUILDING"})
  BY DEF AgainWait, Again
<1>b. PICK e \in Entries : e = Current
  BY <1>0, <1>a, Found
<1>g. /\ cont[c] \in Cont /\ cont[c].op = "none" /\ cont[c].ent = None /\ cont[c].newest = None
      /\ cont[c].who \in Callers /\ cont[c].stage = "table"
  BY <1>0, <1>a DEF Types, Shapes, Shaped
<1>d. PICK r : r = [cont[c] EXCEPT !.pc = "queued", !.ent = e]
  OBVIOUS
<1>e. /\ r \in Cont /\ r.pc = "queued" /\ r.op = "none" /\ r.ent = e /\ r.stage = "table"
      /\ r.who = cont[c].who /\ r.newest = None
  BY <1>d, <1>g DEF Cont
<1>j. (r.notify <=> cont[c].notify) /\ (r.cancelled <=> cont[c].cancelled)
  BY <1>d, <1>g DEF Cont
<1>f. Shaped(r)
  BY <1>e, <1>g, RouteAssumption DEF Shaped
<1>h. /\ Locked(e, "BUILDING")
      /\ pendq' = [pendq EXCEPT ![e] = Append(@, c)]
      /\ cont' = [cont EXCEPT ![c] = r]
      /\ refs' = LockedCount(e, <<e>>, <<>>)
      /\ UNCHANGED <<kind, ask, got, lost, tc>>
  BY <1>0, <1>b, <1>d DEF AgainWait, Types
<1>i. \A d \in Conts : cont'[d] = IF d = c THEN r ELSE cont[d]
  BY <1>0, <1>e, <1>f, <1>h, ContStep
<1>1. Replies'
  BY <1>0, <1>a, <1>e, <1>h, <1>i, <1>j, RepliesKept
<1>2. ask' \in [Callers -> {"idle", "waiting", "holding"}]
  BY <1>0, <1>h DEF Types
<1> QED
  BY <1>1, <1>2, <1>a, <1>b, <1>e, <1>f, <1>g, <1>h, WaitStep

\* The second try for the lock finds the entry, and calls back.
LEMMA StepAgainHit ==
  ASSUME RouteInv, NEW c \in Conts, NEW exp, NEW async, NEW due, AgainHit(c, exp, async, due)
  PROVE  RouteInv'
<1>0. Types /\ Shapes /\ Replies /\ Store /\ Private /\ Updates /\ Builds /\ RefsExact /\ Reserved
  BY DEF RouteInv
<1>a. cont[c].pc = "cache" /\ Finds(exp, async, {"AVAIL", "UPDATING", "DIRTY"})
  BY DEF AgainHit, Again
<1>b. PICK e \in Entries : e = Current
  BY <1>0, <1>a, Found
<1>c. PICK s \in Live : s = Seen(exp)
  BY <1>0, <1>a, Found
<1>g. /\ cont[c].op = "none" /\ cont[c].ent = None /\ cont[c].newest = None
  BY <1>0, <1>a DEF Shapes, Shaped
<1>d. PICK drop \in BOOLEAN : drop = (due /\ s = "DIRTY" /\ async /\ kind # "dummy")
  OBVIOUS
<1>e. /\ s \in {"AVAIL", "UPDATING", "DIRTY"} /\ s \in States /\ e \in Reachable /\ Known(e)
      /\ s = "UPDATING" => est[e] = "UPDATING"
      /\ \A d \in Conts : cont[d].op = "update" => cont[d].ent \in Entries
      /\ \A d \in Conts : cont[d].op = "update" /\ cont[d].ent = e => s = "UPDATING"
  BY <1>0, <1>a, <1>b, <1>c, Found
<1>f. PICK inc : inc = NotifyInc(c, e, s)
  OBVIOUS
<1>h. PICK dec : dec = NotifyDec(c, e, s)
  OBVIOUS
<1> DEFINE gift == IF drop THEN <<e>> ELSE <<>>
<1>i. PICK plus : plus = (<<e>> \o gift) \o inc
  OBVIOUS
<1>j. /\ Locked(e, s)
      /\ drop => Len(lost) < MaxLost
      /\ Notify(c, e, s)
      /\ cont' = [cont EXCEPT ![c] = FreeCont]
      /\ lost' = IF drop THEN Append(lost, e) ELSE lost
      /\ refs' = LockedCount(e, plus, dec)
      /\ UNCHANGED <<kind, pendq>>
  BY <1>b, <1>c, <1>d, <1>f, <1>h, <1>i DEF AgainHit
<1>k. cont' \in [Conts -> Cont] /\ \A d \in Conts : cont'[d] = IF d = c THEN FreeCont ELSE cont[d]
  BY <1>0, <1>j, FreeShape, ContStep
<1>l. /\ cache' = e /\ todo' = <<>> /\ todo' \in Seq(Entries) /\ est' \in [Entries -> States]
      /\ \A x \in Entries : est'[x] = IF x = e THEN s ELSE IF x \in Reachable THEN "DELETED" ELSE est[x]
  BY <1>0, <1>e, <1>j, LockedIs
<1>m. /\ ask' \in [Callers -> {"idle", "waiting", "holding"}]
      /\ got' \in [Callers -> Entries \cup {None}]
      /\ tc' \in [Callers -> Entries \cup {None}]
      /\ \A k \in Callers : got'[k] \in {got[k], e}
      /\ \A k \in Callers : tc'[k] \in {tc[k], e}
  BY <1>0, <1>a, <1>j, NotifyTypes
<1>n. /\ lost' \in Seq(Entries) /\ Len(lost') <= MaxLost
      /\ lost' = lost \/ lost' = Append(lost, e)
  <2>1. Append(lost, e) \in Seq(Entries) /\ Len(Append(lost, e)) = Len(lost) + 1 /\ Len(lost) \in Nat
    BY <1>0, AppendProperties, LenProperties DEF Types
  <2> QED
    BY <1>0, <1>j, <2>1, RouteAssumption DEF Types
<1>o. ASSUME NEW x \in Entries
      PROVE  /\ Outside(x)' = Outside(x) + Count(x, inc) - Count(x, dec) + Is(e, x) - Is(cont[c].newest, x)
             /\ Count(x, inc) \in Nat /\ Count(x, dec) \in Nat
             /\ inc \in Seq(Entries \cup {None}) /\ dec \in Seq(Entries \cup {None})
  BY <1>0, <1>a, <1>f, <1>h, <1>j, NotifyHolds
<1>p. ASSUME NEW x \in Entries
      PROVE  /\ Count(x, plus) = (Is(e, x) + (IF drop THEN Is(e, x) ELSE 0)) + Count(x, inc)
             /\ Count(x, plus) \in Nat /\ Is(e, x) \in Nat
  <2>1. Is(e, x) \in Nat
    BY IsNat
  <2>2. <<e>> \o gift \in Seq(Entries \cup {None}) /\ Count(x, <<e>> \o gift) = Is(e, x) + (IF drop THEN Is(e, x) ELSE 0)
    <3>1. CASE drop
      <4>1. gift = <<e>>
        BY <3>1
      <4> HIDE DEF gift
      <4> QED
        BY <3>1, <4>1, CountJoined
    <3>2. CASE ~drop
      <4>1. gift = <<>>
        BY <3>2
      <4> HIDE DEF gift
      <4>2. Count(x, <<e>> \o gift) = Is(e, x) /\ <<e>> \o gift \in Seq(Entries \cup {None})
        BY <4>1, CountJoined
      <4> QED
        BY <2>1, <3>2, <4>2
    <3> QED
      BY <3>1, <3>2
  <2> HIDE DEF gift
  <2>3. Count(x, plus) = Count(x, <<e>> \o gift) + Count(x, inc)
    BY <1>i, <1>o, <2>2, CountConcat
  <2> QED
    BY <1>o, <2>1, <2>2, <2>3
<1>1. Types'
  <2>1. LockedCount(e, plus, dec) \in [Entries -> Int]
    BY <1>0, <1>o, <1>p, LockedInt
  <2> QED
    BY <1>0, <1>j, <1>k, <1>l, <1>m, <1>n, <2>1 DEF Types
<1>2. Replies'
  BY <1>0, <1>a, <1>j, RepliesEnded
<1>3. Updates'
  BY <1>0, <1>b, <1>e, <1>g, <1>j, <1>k, FreeShape, UpdatesLocked
<1>4. Builds'
  <2>1. \A x \in Entries : est'[x] = "BUILDING" => est[x] = "BUILDING"
    BY <1>e, <1>l
  <2> QED
    BY <1>0, <1>a, <1>g, <1>j, <1>k, <2>1, FreeShape, BuildsKept
<1>5. RefsExact'
  <2>1. ASSUME NEW x \in Entries
        PROVE  Count(x, plus) - Count(x, dec) = Gain(x)
    <3>1. Outside(x)' = Outside(x) + Count(x, inc) - Count(x, dec) + Is(e, x) - Is(None, x)
      BY <1>g, <1>o
    <3>2. Is(None, x) = 0
      BY RouteAssumption DEF Is
    <3>3. Count(x, lost)' = Count(x, lost) + (IF drop THEN Is(e, x) ELSE 0)
      <4>1. CASE drop
        <5>1. Count(x, Append(lost, e)) = Count(x, lost) + Is(e, x)
          BY <1>0, CountAppend DEF Types
        <5>2. lost' = Append(lost, e)
          BY <1>j, <4>1
        <5> QED
          BY <4>1, <5>1, <5>2 DEF Count
      <4>2. CASE ~drop
        <5>1. lost' = lost /\ Count(x, lost) \in Nat
          BY <1>0, <1>j, <4>2, CountsAre DEF Counts
        <5>2. Count(x, lost)' = Count(x, lost)
          BY <5>1, LostSame
        <5> QED
          BY <4>2, <5>1, <5>2
      <4> QED
        BY <4>1, <4>2
    <3>4. Outside(x) \in Nat /\ Count(x, lost) \in Nat
      BY <1>0, CountsAre DEF Counts
    <3>5. Gain(x) = (Outside(x)' - Outside(x)) + (Count(x, lost)' - Count(x, lost))
      BY <1>0, <1>1, GainOutside
    <3>6. (IF drop THEN Is(e, x) ELSE 0) \in Nat
      BY <1>p
    <3>7. Outside(x)' - Outside(x) = (Count(x, inc) - Count(x, dec)) + Is(e, x)
      BY <1>o, <1>p, <3>1, <3>2, <3>4
    <3>8. Count(x, lost)' - Count(x, lost) = (IF drop THEN Is(e, x) ELSE 0)
      BY <3>3, <3>4, <3>6
    <3>9. PICK g \in Nat : g = IF drop THEN Is(e, x) ELSE 0
      BY <3>6
    <3>10. Count(x, lost)' - Count(x, lost) = g /\ Count(x, plus) = (Is(e, x) + g) + Count(x, inc)
      BY <1>p, <3>8, <3>9
    <3>11. Count(x, inc) \in Nat /\ Count(x, dec) \in Nat /\ Is(e, x) \in Nat
      BY <1>o, <1>p
    <3>12. Gain(x) = ((Count(x, inc) - Count(x, dec)) + Is(e, x)) + g
      BY <3>5, <3>7, <3>10
    <3> HIDE DEF Gain
    <3> QED
      BY <3>10, <3>11, <3>12
  <2> QED
    BY <1>0, <1>1, <1>e, <1>j, <1>l, <1>o, <1>p, <2>1, RefsFound
<1>6. Old(FreeCont.ent, None) /\ Old(FreeCont.newest, None)
  BY FreeShape DEF Old
<1>7. (\A d \in Conts \ {c} : ~Own(d, None)) /\ (\A x \in Entries \ {e} : ~Own(c, x)) /\ None \notin Fresh
  BY <1>g, RouteAssumption DEF Own, Fresh
<1>8. /\ \A k \in Callers : (tc'[k] = tc[k] \/ tc'[k] = e) /\ (got'[k] = got[k] \/ got'[k] = e)
      /\ lost' = lost \/ \E y \in Entries : Known(y) /\ lost' = Append(lost, y)
  BY <1>e, <1>m, <1>n
<1> QED
  BY <1>1, <1>2, <1>3, <1>4, <1>5, <1>6, <1>7, <1>8, <1>e, <1>j, <1>k, FreeShape, LockedStep

(***************************************************************************)
(* The targets of the binlog service                                       *)
(***************************************************************************)

\* What is known of a lookup for the binlog service.
LEMMA TargetOf ==
  ASSUME Types, Shapes, NEW c \in Conts, cont[c].pc \in {"remote", "hostname"}, cont[c].stage = "binlog"
  PROVE  /\ cont[c] \in Cont /\ cont[c].op = "direct" /\ cont[c].ent = None /\ cont[c].newest = None
         /\ cont[c].who \in Callers /\ cont[c].left \in Nat
BY DEF Types, Shapes, Shaped, Cont

\* What a lookup for the binlog service has to keep when it changes target.
LEMMA TurnStep ==
  ASSUME RouteInv, NEW c \in Conts, NEW r \in Cont, Shaped(r), cont' = [cont EXCEPT ![c] = r],
         cont[c].pc \in {"remote", "hostname"}, cont[c].stage = "binlog",
         r.pc \in {"remote", "hostname", "lost"}, r.op = "direct", r.ent = None, r.newest = None,
         r.who = cont[c].who, r.notify <=> cont[c].notify, r.cancelled <=> cont[c].cancelled,
         UNCHANGED <<kind, ask, got, est, pendq, refs, lost, cache, todo, tc>>
  PROVE  RouteInv'
<1>0. Types /\ Shapes /\ Replies /\ Store /\ Private /\ Updates /\ Builds /\ RefsExact /\ Reserved
  BY DEF RouteInv
<1>a. cont[c].op = "direct" /\ cont[c].ent = None /\ cont[c].newest = None
  BY <1>0, TargetOf
<1>b. cont' \in [Conts -> Cont] /\ \A d \in Conts : cont'[d] = IF d = c THEN r ELSE cont[d]
  BY <1>0, ContStep
<1>1. Types'
  BY <1>0, <1>b DEF Types
<1>2. Replies'
  BY <1>0, <1>b, RepliesKept
<1>3. Builds'
  BY <1>0, <1>a, <1>b, BuildsKept
<1>4. RefsExact'
  <2>1. \A d \in Conts : cont'[d].ent = cont[d].ent /\ cont'[d].newest = cont[d].newest
    BY <1>a, <1>b
  <2> QED
    BY <1>0, <1>1, <2>1, RefsSame
<1>5. Old(None, None) /\ Old(r.ent, None) /\ Old(r.newest, None)
  BY DEF Old
<1> QED
  BY <1>1, <1>2, <1>3, <1>4, <1>5, <1>a, QuietStep

\* The next target, or none.
LEMMA StepRetarget ==
  ASSUME RouteInv, NEW c \in Conts, cont[c].pc \in {"remote", "hostname"}, cont[c].stage = "binlog", Retarget(c)
  PROVE  RouteInv'
<1>0. Types /\ Shapes
  BY DEF RouteInv
<1>a. /\ cont[c] \in Cont /\ cont[c].op = "direct" /\ cont[c].ent = None /\ cont[c].newest = None
      /\ cont[c].who \in Callers /\ cont[c].left \in Nat
  BY <1>0, TargetOf
<1>b. UNCHANGED <<kind, ask, got, est, pendq, refs, lost, cache, todo, tc>>
  BY DEF Retarget
<1>1. CASE \E f \in Target(cont[c].left) : cont' = [cont EXCEPT ![c] = Aim(@, f)]
  <2>1. PICK f \in Target(cont[c].left) : cont' = [cont EXCEPT ![c] = Aim(@, f)]
    BY <1>1
  <2>2. f.pc \in {"remote", "hostname"} /\ f.stage = "binlog" /\ f.left \in Nat
    BY <1>a, TargetShape
  <2>3. PICK r : r = Aim(cont[c], f)
    OBVIOUS
  <2>4. r \in Cont /\ Shaped(r) /\ r.pc = f.pc /\ SameBut(r, cont[c], {"pc", "stage"})
    BY <1>a, <2>2, <2>3, AimShape
  <2>5. r.who = cont[c].who /\ r.op = "direct" /\ r.ent = None /\ r.newest = None
    BY <1>a, <2>4 DEF SameBut
  <2>6. (r.notify <=> cont[c].notify) /\ (r.cancelled <=> cont[c].cancelled)
    BY <2>4 DEF SameBut
  <2>7. cont' = [cont EXCEPT ![c] = r]
    BY <1>0, <2>1, <2>3 DEF Types
  <2> QED
    BY <1>b, <2>2, <2>4, <2>5, <2>6, <2>7, TurnStep
<1>2. CASE cont' = [cont EXCEPT ![c].pc = "lost"]
  <2>3. PICK r : r = [cont[c] EXCEPT !.pc = "lost"]
    OBVIOUS
  <2>4. r \in Cont /\ r.pc = "lost" /\ r.who = cont[c].who /\ r.op = "direct" /\ r.ent = None /\ r.newest = None /\ r.stage = "binlog"
    BY <1>a, <2>3 DEF Cont
  <2>5. (r.notify <=> cont[c].notify) /\ (r.cancelled <=> cont[c].cancelled)
    BY <1>a, <2>3 DEF Cont
  <2>6. Shaped(r)
    BY <1>a, <2>4 DEF Shaped
  <2>7. cont' = [cont EXCEPT ![c] = r]
    BY <1>0, <1>2, <2>3 DEF Types
  <2> QED
    BY <1>b, <2>4, <2>5, <2>6, <2>7, TurnStep
<1> QED
  BY <1>1, <1>2 DEF Retarget

\* A binlog target that failed.
LEMMA StepBinlogRetry ==
  ASSUME RouteInv, NEW c \in Conts, BinlogRetry(c)
  PROVE  RouteInv'
BY StepRetarget DEF BinlogRetry, Remote

\* The answer of the resolver.
LEMMA StepHostnameDone ==
  ASSUME RouteInv, NEW c \in Conts, HostnameDone(c)
  PROVE  RouteInv'
<1>0. Types /\ Shapes
  BY DEF RouteInv
<1>a. cont[c].pc = "hostname" /\ cont[c].stage = "binlog"
  BY <1>0 DEF HostnameDone, Shapes, Shaped
<1>b. /\ cont[c] \in Cont /\ cont[c].op = "direct" /\ cont[c].ent = None /\ cont[c].newest = None
      /\ cont[c].who \in Callers
  BY <1>0, <1>a, TargetOf
<1>1. CASE cont' = [cont EXCEPT ![c].pc = "remote"] /\ UNCHANGED <<kind, ask, got, est, pendq, refs, lost, cache, todo, tc>>
  <2>3. PICK r : r = [cont[c] EXCEPT !.pc = "remote"]
    OBVIOUS
  <2>4. r \in Cont /\ r.pc = "remote" /\ r.who = cont[c].who /\ r.op = "direct" /\ r.ent = None /\ r.newest = None /\ r.stage = "binlog"
    BY <1>a, <1>b, <2>3 DEF Cont
  <2>5. (r.notify <=> cont[c].notify) /\ (r.cancelled <=> cont[c].cancelled)
    BY <1>b, <2>3 DEF Cont
  <2>6. Shaped(r)
    BY <1>b, <2>4 DEF Shaped
  <2>7. cont' = [cont EXCEPT ![c] = r]
    BY <1>0, <1>1, <2>3 DEF Types
  <2> QED
    BY <1>1, <1>a, <2>4, <2>5, <2>6, <2>7, TurnStep
<1>2. CASE Retarget(c)
  BY <1>2, <1>a, StepRetarget
<1> QED
  BY <1>1, <1>2 DEF HostnameDone

(***************************************************************************)
(* Calling back                                                            *)
(***************************************************************************)

\* The types after a caller was called back and its continuation freed.
LEMMA CalledTypes ==
  ASSUME Types, Shapes, NEW q \in Conts, cont[q].pc # "free",
         NEW e \in Entries \cup {None}, NEW s, Notify(q, e, s),
         cont' = [cont EXCEPT ![q] = FreeCont], pendq' \in [Entries -> Seq(Conts)],
         refs' \in [Entries -> Int], UNCHANGED <<kind, est, lost, cache, todo>>
  PROVE  /\ Types'
         /\ \A k \in Callers : (tc'[k] = tc[k] \/ tc'[k] = e) /\ (got'[k] = got[k] \/ got'[k] = e)
<1>b. cont' \in [Conts -> Cont]
  BY FreeShape, ContStep
<1>c. /\ ask' \in [Callers -> {"idle", "waiting", "holding"}]
      /\ got' \in [Callers -> Entries \cup {None}]
      /\ tc' \in [Callers -> Entries \cup {None}]
      /\ \A k \in Callers : got'[k] \in {got[k], e}
      /\ \A k \in Callers : tc'[k] \in {tc[k], e}
  BY NotifyTypes
<1>1. Types'
  BY <1>b, <1>c DEF Types
<1> QED
  BY <1>1, <1>c

\* What calling back takes and gives outside the cache.
LEMMA CalledGain ==
  ASSUME Types, Types', Shapes, Replies, NEW q \in Conts, cont[q].pc # "free",
         NEW e \in Entries \cup {None}, NEW s, Notify(q, e, s),
         cont' = [cont EXCEPT ![q] = FreeCont], lost' = lost, NEW x \in Entries
  PROVE  Gain(x) = (Count(x, NotifyInc(q, e, s)) - Count(x, NotifyDec(q, e, s))) + (Is(e, x) - Is(cont[q].newest, x))
<1>1. PICK inc \in Nat : inc = Count(x, NotifyInc(q, e, s))
  BY NotifyHolds
<1>2. PICK dec \in Nat : dec = Count(x, NotifyDec(q, e, s))
  BY NotifyHolds
<1>3. PICK n \in Nat : n = Is(cont[q].newest, x)
  BY IsNat
<1>4. Outside(x)' = Outside(x) + inc - dec + Is(e, x) - n
  BY <1>1, <1>2, <1>3, NotifyHolds
<1>5. Outside(x) \in Nat /\ Count(x, lost) \in Nat /\ Is(e, x) \in Nat
  BY CountsAre, IsNat DEF Counts
<1>6. Count(x, lost)' = Count(x, lost)
  BY LostSame
<1>7. Gain(x) = (Outside(x)' - Outside(x)) + (Count(x, lost)' - Count(x, lost))
  BY GainOutside
<1>8. Outside(x)' - Outside(x) = (inc - dec) + (Is(e, x) - n)
  BY <1>4, <1>5
<1>9. Gain(x) = (inc - dec) + (Is(e, x) - n)
  BY <1>5, <1>6, <1>7, <1>8
<1> QED
  BY <1>1, <1>2, <1>3, <1>9

\* What a callback at the end of a lookup has to keep.
LEMMA CalledStep ==
  ASSUME RouteInv, Types', Builds', RefsExact', NEW q \in Conts, cont[q].pc \in {"chain", "notify", "queued"},
         NEW e \in Entries \cup {None}, Old(e, None), NEW s, Notify(q, e, s),
         \A k \in Callers : (tc'[k] = tc[k] \/ tc'[k] = e) /\ (got'[k] = got[k] \/ got'[k] = e),
         cont' = [cont EXCEPT ![q] = FreeCont], UNCHANGED <<est, lost, cache, todo>>
  PROVE  RouteInv'
<1>0. Types /\ Shapes /\ Replies
  BY DEF RouteInv
<1>a. cont[q].op # "update" /\ cont[q].pc \notin {"free", "remote", "replace"}
  BY <1>0 DEF Shapes, Shaped
<1>2. Replies'
  BY <1>0, <1>a, RepliesEnded
<1>4. Old(FreeCont.ent, None) /\ Old(FreeCont.newest, None)
  BY FreeShape DEF Old
<1> QED
  BY <1>2, <1>4, <1>a, FreeShape, QuietStep

\* The entry a popping or notified continuation hands out is known.
LEMMA HandedOut ==
  ASSUME Types, NEW c \in Conts, cont[c].pc \in {"chain", "notify"}
  PROVE  cont[c].newest \in Entries \cup {None} /\ Old(cont[c].newest, None)
BY DEF Types, Cont, Old, Known

\* A continuation calls its caller back and goes away.
LEMMA StepCallBack ==
  ASSUME RouteInv, NEW c \in Conts, cont[c].pc = "notify" \/ (cont[c].pc = "chain" /\ pendq[cont[c].ent] = <<>>),
         CallBack(c)
  PROVE  RouteInv'
<1>0. Types /\ Shapes /\ Replies /\ Store /\ Private /\ Updates /\ Builds /\ RefsExact /\ Reserved
  BY DEF RouteInv
<1>a. PICK e \in Entries \cup {None} : e = cont[c].newest
  BY <1>0, HandedOut
<1>b. PICK s : s = IF e = None THEN "DELETED" ELSE est[e]
  OBVIOUS
<1>c. PICK plus : plus = NotifyInc(c, e, s)
  OBVIOUS
<1>d. PICK minus : minus = NotifyDec(c, e, s)
  OBVIOUS
<1>e. /\ Notify(c, e, s)
      /\ cont' = [cont EXCEPT ![c] = FreeCont]
      /\ refs' = Counted(plus, minus)
      /\ UNCHANGED <<kind, est, pendq, lost, cache, todo>>
  BY <1>a, <1>b, <1>c, <1>d DEF CallBack
<1>f. Old(e, None) /\ cont[c].pc # "free"
  BY <1>0, <1>a, HandedOut
<1>g. \A d \in Conts : cont'[d] = IF d = c THEN FreeCont ELSE cont[d]
  BY <1>0, <1>e, FreeShape, ContStep
<1>1. Builds'
  <2>1. CASE cont[c].pc = "notify"
    <3>1. cont[c].op = "none"
      BY <1>0, <2>1 DEF Shapes, Shaped
    <3> QED
      BY <1>0, <1>e, <1>g, <2>1, <3>1, FreeShape, BuildsKept
  <2>2. CASE cont[c].pc = "chain" /\ pendq[cont[c].ent] = <<>>
    <3>1. cont[c].op = "build" /\ cont[c].ent \in Entries
      BY <1>0, <2>2 DEF Shapes, Shaped
    <3>2. PICK b \in Entries : b = cont[c].ent
      BY <3>1
    <3>3. est[b] # "BUILDING"
      BY <1>0, <2>2, <3>1, <3>2 DEF Builds, Building
    <3> QED
      BY <1>0, <1>e, <1>g, <2>2, <3>1, <3>2, <3>3, FreeShape, BuildsEnded
  <2> QED
    BY <2>1, <2>2
<1>2. \A x \in Entries : Count(x, plus) \in Nat /\ Count(x, minus) \in Nat
  BY <1>0, <1>c, <1>d, <1>e, <1>f, NotifyHolds
<1>3. /\ Types'
      /\ \A k \in Callers : (tc'[k] = tc[k] \/ tc'[k] = e) /\ (got'[k] = got[k] \/ got'[k] = e)
  <2>1. pendq' \in [Entries -> Seq(Conts)]
    BY <1>0, <1>e DEF Types
  <2>2. refs' \in [Entries -> Int]
    BY <1>0, <1>2, <1>e, CountedInt
  <2> QED
    BY <1>0, <1>e, <1>f, <2>1, <2>2, CalledTypes
<1>4. RefsExact'
  <2>1. ASSUME NEW x \in Entries
        PROVE  Count(x, plus) - Count(x, minus) = Gain(x) + (Inside(x)' - Inside(x))
    <3>1. Gain(x) = (Count(x, plus) - Count(x, minus)) + (Is(e, x) - Is(e, x))
      BY <1>0, <1>3, <1>a, <1>c, <1>d, <1>e, <1>f, CalledGain
    <3>2. Inside(x)' = Inside(x)
      BY <1>e, InsideSame
    <3>3. Inside(x) \in Nat /\ Is(e, x) \in Nat
      BY <1>0, CountsAre, IsNat DEF Counts
    <3> QED
      BY <1>2, <3>1, <3>2, <3>3
  <2> QED
    BY <1>0, <1>2, <1>3, <1>e, <2>1, RefsCounted
<1> QED
  BY <1>1, <1>3, <1>4, <1>e, <1>f, CalledStep

\* The builder calls back after the queue is empty.
LEMMA StepChainEnd ==
  ASSUME RouteInv, NEW c \in Conts, ChainEnd(c)
  PROVE  RouteInv'
BY StepCallBack DEF ChainEnd

\* A queued continuation runs on its own thread.
LEMMA StepNotifyEvent ==
  ASSUME RouteInv, NEW c \in Conts, NotifyEvent(c)
  PROVE  RouteInv'
BY StepCallBack DEF NotifyEvent

\* The first of a pending queue waits for the entry of the queue.
LEMMA PoppedIs ==
  ASSUME Types, Shapes, Builds, NEW c \in Conts, cont[c].pc = "chain", pendq[cont[c].ent] # <<>>
  PROVE  /\ cont[c].ent \in Entries /\ Popped(c) \in Conts /\ Popped(c) = Head(pendq[cont[c].ent])
         /\ cont[Popped(c)].pc = "queued" /\ cont[Popped(c)].ent = cont[c].ent
<1>1. cont[c].ent \in Entries
  BY DEF Shapes, Shaped
<1>2. PICK b \in Entries : b = cont[c].ent
  BY <1>1
<1>3. pendq[b] \in Seq(Conts) /\ pendq[b] # <<>>
  BY <1>2 DEF Types
<1>4. 1 \in DOMAIN pendq[b] /\ Head(pendq[b]) = pendq[b][1] /\ Head(pendq[b]) \in Conts
  BY <1>3
<1>5. cont[pendq[b][1]].pc = "queued" /\ cont[pendq[b][1]].ent = b
  BY <1>4 DEF Builds
<1> QED
  BY <1>1, <1>2, <1>4, <1>5 DEF Popped

\* The builder hands a queued continuation to its thread.
LEMMA StepChainSchedule ==
  ASSUME RouteInv, NEW c \in Conts, ChainSchedule(c)
  PROVE  RouteInv'
<1>0. Types /\ Shapes /\ Replies /\ Store /\ Private /\ Updates /\ Builds /\ RefsExact /\ Reserved
  BY DEF RouteInv
<1>a. cont[c].pc = "chain" /\ pendq[cont[c].ent] # <<>>
  BY DEF ChainSchedule
<1>b. PICK e \in Entries \cup {None} : e = cont[c].newest
  BY <1>0, <1>a, HandedOut
<1>c. PICK q \in Conts : q = Popped(c)
  BY <1>0, <1>a, PoppedIs
<1>d. PICK b \in Entries : b = cont[c].ent
  BY <1>0, <1>a, PoppedIs
<1>e. /\ cont[q].pc = "queued" /\ cont[q].ent = b /\ q = Head(pendq[b])
  BY <1>0, <1>a, <1>c, <1>d, PoppedIs
<1>f. cont[q] \in Cont /\ cont[q].op = "none" /\ cont[q].newest = None /\ cont[q].who \in Callers
  BY <1>0, <1>e DEF Types, Shapes, Shaped
<1>g. PICK r : r = [cont[q] EXCEPT !.pc = "notify", !.newest = e]
  OBVIOUS
<1>h. /\ r \in Cont /\ r.pc = "notify" /\ r.op = "none" /\ r.newest = e /\ r.ent = b /\ r.who = cont[q].who
      /\ r.stage = cont[q].stage
  BY <1>e, <1>f, <1>g DEF Cont
<1>i. (r.notify <=> cont[q].notify) /\ (r.cancelled <=> cont[q].cancelled)
  BY <1>f, <1>g DEF Cont
<1>j. Shaped(r)
  <2>1. Shaped(cont[q])
    BY <1>0 DEF Shapes
  <2> QED
    BY <2>1, <1>e, <1>f, <1>h DEF Shaped
<1>k. /\ pendq' = [pendq EXCEPT ![b] = Tail(@)]
      /\ cont' = [cont EXCEPT ![q].pc = "notify", ![q].newest = e]
      /\ refs' = Counted(<<e>>, <<>>)
      /\ UNCHANGED <<kind, ask, got, est, lost, cache, todo, tc>>
  BY <1>b, <1>c, <1>d DEF ChainSchedule
<1>l. cont' = [cont EXCEPT ![q] = r]
  BY <1>0, <1>g, <1>k DEF Types
<1>m. cont' \in [Conts -> Cont] /\ \A d \in Conts : cont'[d] = IF d = q THEN r ELSE cont[d]
  BY <1>0, <1>h, <1>j, <1>l, ContStep
<1>1. Builds' /\ pendq' \in [Entries -> Seq(Conts)]
  BY <1>0, <1>a, <1>d, <1>e, <1>h, <1>k, <1>m, BuildsPopped
<1>2. Replies'
  BY <1>0, <1>e, <1>h, <1>i, <1>k, <1>m, RepliesKept
<1>g2. \A x \in Entries : Count(x, <<e>>) = Is(e, x) /\ Count(x, <<>>) = 0 /\ Is(e, x) \in Nat /\ Is(None, x) = 0
  BY CountOne, CountEmpty, IsNat, RouteAssumption DEF Is
<1>3. Types'
  <2>1. Counted(<<e>>, <<>>) \in [Entries -> Int]
    BY <1>0, <1>g2, CountedInt
  <2> QED
    BY <1>0, <1>1, <1>k, <1>m, <2>1 DEF Types
<1>4. RefsExact'
  <2>1. ASSUME NEW x \in Entries
        PROVE  Count(x, <<e>>) - Count(x, <<>>) = Gain(x) + (Inside(x)' - Inside(x))
    <3>1. Used(x)' = Used(x) /\ Count(x, lost)' = Count(x, lost) /\ Inside(x)' = Inside(x)
      BY <1>k, UsedSame, LostSame, InsideSame
    <3>2. Kept(x)' = Kept(x) + (Is(b, x) - Is(b, x)) + (Is(e, x) - Is(None, x))
      BY <1>0, <1>e, <1>f, <1>h, <1>m, KeptStep
    <3>3. Used(x) \in Nat /\ Kept(x) \in Nat /\ Count(x, lost) \in Nat /\ Inside(x) \in Nat
      BY <1>0, CountsAre DEF Counts
    <3>4. Is(e, x) \in Nat /\ Is(b, x) \in Nat /\ Is(None, x) = 0 /\ Count(x, <<e>>) = Is(e, x) /\ Count(x, <<>>) = 0
      BY <1>g2, IsNat
    <3>5. Kept(x)' = Kept(x) + Is(e, x)
      BY <3>2, <3>3, <3>4
    <3>6. Gain(x) = Is(e, x)
      BY <3>1, <3>3, <3>4, <3>5, GainIs
    <3> QED
      BY <3>1, <3>3, <3>4, <3>6
  <2>2. PICK plus : plus = <<e>>
    OBVIOUS
  <2>3. /\ refs' = Counted(plus, <<>>)
        /\ \A x \in Entries : /\ Count(x, plus) \in Nat /\ Count(x, <<>>) \in Nat
                              /\ Count(x, plus) - Count(x, <<>>) = Gain(x) + (Inside(x)' - Inside(x))
    BY <1>g2, <1>k, <2>1, <2>2
  <2> QED
    BY <1>0, <1>3, <2>3, RefsCounted
<1>5. Old(e, None) /\ Old(r.ent, None) /\ Old(r.newest, None)
  <2>1. Old(e, None)
    BY <1>0, <1>a, <1>b, HandedOut
  <2>2. Known(b)
    BY <1>d DEF Known
  <2> QED
    BY <1>h, <2>1, <2>2 DEF Old
<1> QED
  BY <1>1, <1>2, <1>3, <1>4, <1>5, <1>e, <1>f, <1>h, <1>j, <1>k, <1>l, QuietStep

\* The builder calls a queued continuation directly.
LEMMA StepChainDirect ==
  ASSUME RouteInv, NEW c \in Conts, ChainDirect(c)
  PROVE  RouteInv'
<1>0. Types /\ Shapes /\ Replies /\ Store /\ Private /\ Updates /\ Builds /\ RefsExact /\ Reserved
  BY DEF RouteInv
<1>a. cont[c].pc = "chain" /\ pendq[cont[c].ent] # <<>>
  BY DEF ChainDirect
<1>b. PICK e \in Entries \cup {None} : e = cont[c].newest
  BY <1>0, <1>a, HandedOut
<1>c. PICK q \in Conts : q = Popped(c)
  BY <1>0, <1>a, PoppedIs
<1>d. PICK b \in Entries : b = cont[c].ent
  BY <1>0, <1>a, PoppedIs
<1>e. /\ cont[q].pc = "queued" /\ cont[q].ent = b /\ q = Head(pendq[b])
  BY <1>0, <1>a, <1>c, <1>d, PoppedIs
<1>f. cont[q].newest = None
  BY <1>0, <1>e DEF Shapes, Shaped
<1>s. PICK s : s = IF e = None THEN "DELETED" ELSE est[e]
  OBVIOUS
<1>g. PICK inc : inc = NotifyInc(q, e, s)
  OBVIOUS
<1>h. PICK minus : minus = NotifyDec(q, e, s)
  OBVIOUS
<1>i. PICK plus : plus = <<e>> \o inc
  OBVIOUS
<1>k. /\ pendq' = [pendq EXCEPT ![b] = Tail(@)]
      /\ Notify(q, e, s)
      /\ cont' = [cont EXCEPT ![q] = FreeCont]
      /\ refs' = Counted(plus, minus)
      /\ UNCHANGED <<kind, est, lost, cache, todo>>
  BY <1>b, <1>c, <1>d, <1>s, <1>g, <1>h, <1>i DEF ChainDirect
<1>m. \A d \in Conts : cont'[d] = IF d = q THEN FreeCont ELSE cont[d]
  BY <1>0, <1>k, FreeShape, ContStep
<1>1. Builds' /\ pendq' \in [Entries -> Seq(Conts)]
  <2>1. PICK r : r = FreeCont
    OBVIOUS
  <2>2. r.op = "none" /\ r.pc # "queued"
    BY <2>1, FreeShape
  <2>3. \A d \in Conts : cont'[d] = IF d = Head(pendq[b]) THEN r ELSE cont[d]
    BY <1>e, <1>m, <2>1
  <2>4. pendq[b] # <<>> /\ est' = est
    BY <1>a, <1>d, <1>k
  <2> QED
    BY <1>0, <1>k, <2>2, <2>3, <2>4, BuildsPopped
<1>2. ASSUME NEW x \in Entries
      PROVE  /\ Count(x, plus) \in Nat /\ Count(x, minus) \in Nat /\ Count(x, inc) \in Nat
             /\ Count(x, plus) = Is(e, x) + Count(x, inc)
  <2>1. /\ Count(x, inc) \in Nat /\ Count(x, minus) \in Nat /\ inc \in Seq(Entries \cup {None})
    BY <1>0, <1>g, <1>h, <1>k, <1>e, NotifyHolds
  <2>2. Is(e, x) \in Nat
    BY IsNat
  <2>3. <<e>> \in Seq(Entries \cup {None}) /\ Count(x, <<e>>) = Is(e, x)
    BY CountOne
  <2>4. Count(x, plus) = Is(e, x) + Count(x, inc)
    BY <1>i, <2>1, <2>3, CountConcat
  <2> QED
    BY <2>1, <2>2, <2>4
<1>3. /\ Types'
      /\ \A k \in Callers : (tc'[k] = tc[k] \/ tc'[k] = e) /\ (got'[k] = got[k] \/ got'[k] = e)
  <2>2. refs' \in [Entries -> Int]
    BY <1>0, <1>2, <1>k, CountedInt
  <2> QED
    BY <1>0, <1>1, <1>e, <1>k, <2>2, CalledTypes
<1>4. RefsExact'
  <2>1. ASSUME NEW x \in Entries
        PROVE  Count(x, plus) - Count(x, minus) = Gain(x) + (Inside(x)' - Inside(x))
    <3>1. Gain(x) = (Count(x, inc) - Count(x, minus)) + (Is(e, x) - Is(None, x))
      BY <1>0, <1>3, <1>e, <1>f, <1>g, <1>h, <1>k, CalledGain
    <3>2. Inside(x)' = Inside(x)
      BY <1>k, InsideSame
    <3>3. Inside(x) \in Nat /\ Is(e, x) \in Nat /\ Is(None, x) = 0
      BY <1>0, CountsAre, IsNat, RouteAssumption DEF Counts, Is
    <3>4. Gain(x) = (Count(x, inc) - Count(x, minus)) + Is(e, x)
      BY <1>2, <3>1, <3>3
    <3> QED
      BY <1>2, <3>2, <3>3, <3>4
  <2> QED
    BY <1>0, <1>2, <1>3, <1>k, <2>1, RefsCounted
<1>5. Old(e, None)
  BY <1>0, <1>a, <1>b, HandedOut
<1> QED
  BY <1>1, <1>3, <1>4, <1>5, <1>e, <1>k, CalledStep

(***************************************************************************)
(* A caller that waits gives up                                            *)
(***************************************************************************)

\* The caller gives its lookup up.
LEMMA StepCancel ==
  ASSUME RouteInv, NEW k \in Callers, Cancel(k)
  PROVE  RouteInv'
<1>0. Types /\ Shapes /\ Replies /\ Store /\ Private /\ Updates /\ Builds /\ RefsExact /\ Reserved
  BY DEF RouteInv
<1>a. /\ ask[k] = "waiting" /\ ask' = [ask EXCEPT ![k] = "idle"]
      /\ UNCHANGED <<kind, got, est, pendq, refs, lost, cache, todo, tc>>
      /\ cont' = [c \in Conts |-> IF cont[c].who = k /\ Told(c)
                                  THEN [cont[c] EXCEPT !.cancelled = TRUE] ELSE cont[c]]
  BY DEF Cancel
<1>b. ASSUME NEW d \in Conts
      PROVE  /\ cont'[d] \in Cont /\ cont'[d].pc = cont[d].pc /\ cont'[d].who = cont[d].who
             /\ cont'[d].op = cont[d].op /\ cont'[d].stage = cont[d].stage
             /\ cont'[d].ent = cont[d].ent /\ cont'[d].newest = cont[d].newest
  <2>1. cont[d] \in Cont
    BY <1>0 DEF Types
  <2>2. cont'[d] = IF cont[d].who = k /\ Told(d) THEN [cont[d] EXCEPT !.cancelled = TRUE] ELSE cont[d]
    BY <1>a
  <2> QED
    BY <2>1, <2>2 DEF Cont
<1>c. ASSUME NEW d \in Conts, cont[d].who = k, Told(d)
      PROVE  cont'[d].cancelled
  <2>1. cont[d] \in Cont
    BY <1>0 DEF Types
  <2>2. cont'[d] = [cont[d] EXCEPT !.cancelled = TRUE]
    BY <1>a, <1>c
  <2> QED
    BY <2>1, <2>2 DEF Cont
<1>d. ASSUME NEW d \in Conts, cont[d].who # k \/ ~Told(d)
      PROVE  cont'[d] = cont[d]
  BY <1>a, <1>d
<1>1. Types'
  <2>1. cont' = [c \in Conts |-> cont'[c]]
    BY <1>a
  <2>2. cont' \in [Conts -> Cont]
    BY <1>b, <2>1
  <2> QED
    BY <1>0, <1>a, <2>2 DEF Types
<1>2. Shapes'
  <2> SUFFICES ASSUME NEW d \in Conts PROVE Shaped(cont'[d])
    BY DEF Shapes
  <2>1. Shaped(cont[d])
    BY <1>0 DEF Shapes
  <2>2. CASE cont[d].pc = "free"
    <3>1. cont[d].who # k
      BY <2>1, <2>2, RouteAssumption DEF Shaped
    <3> QED
      BY <1>d, <2>1, <3>1
  <2>3. CASE cont[d].pc # "free"
    BY <1>b, <2>1, <2>3 DEF Shaped
  <2> QED
    BY <2>2, <2>3
<1>3. \A d \in Conts : \A x : Own(d, x)' <=> Own(d, x)
  BY <1>b DEF Own
<1>4. Reachable' = Reachable
  BY <1>a DEF Reachable
<1>5. \A x : Known(x)' <=> Known(x)
  BY <1>4, <1>a, <1>b DEF Known
<1>6. Replies'
  <2>1. ASSUME NEW d \in Conts, NEW l \in Callers
        PROVE  Expects(d, l)' <=> l # k /\ Expects(d, l)
    <3>1. CASE cont[d].who = k /\ Told(d)
      <4>1. ~Told(d)'
        BY <1>c, <3>1 DEF Told
      <4> QED
        BY <3>1, <4>1 DEF Expects
    <3>2. CASE cont[d].who # k \/ ~Told(d)
      <4>1. cont'[d] = cont[d]
        BY <1>d, <3>2
      <4>2. Told(d)' <=> Told(d)
        BY <4>1 DEF Told
      <4> QED
        BY <3>2, <4>1, <4>2 DEF Expects
    <3> QED
      BY <3>1, <3>2
  <2>2. \A l \in Callers : ask'[l] = IF l = k THEN "idle" ELSE ask[l]
    BY <1>0, <1>a DEF Types
  <2>3. got' = got /\ got[k] = None
    BY <1>0, <1>a DEF Replies
  <2>4. \A l \in Callers, d \in Conts : Expects(d, l)' => ask'[l] = "waiting"
    BY <1>0, <2>1, <2>2 DEF Replies
  <2>5. \A l \in Callers, d1, d2 \in Conts : Expects(d1, l)' /\ Expects(d2, l)' => d1 = d2
    BY <1>0, <2>1 DEF Replies
  <2>6. \A l \in Callers : ask'[l] = "waiting" => \E d \in Conts : Expects(d, l)'
    BY <1>0, <2>1, <2>2 DEF Replies
  <2>7. \A l \in Callers : ask'[l] # "holding" => got'[l] = None
    BY <1>0, <2>2, <2>3 DEF Replies
  <2> QED
    BY <2>4, <2>5, <2>6, <2>7 DEF Replies
<1>7. Store'
  BY <1>0, <1>3, <1>4, <1>a, StoreKept
<1>8. Private'
  BY <1>0, <1>3, <1>5, <1>a, <1>b DEF Private
<1>9. Updates'
  BY <1>0, <1>a, <1>b DEF Updates, OneUpdate, UpdatingOwned
<1>10. Builds'
  <2>1. \A d \in Conts : \A x : Building(d, x)' <=> Building(d, x)
    BY <1>b DEF Building
  <2>2. \A x \in Entries : \A i \in DOMAIN pendq[x] : pendq[x][i] \in Conts
    BY <1>0 DEF Types
  <2> QED
    BY <1>0, <1>a, <1>b, <2>1, <2>2 DEF Builds
<1>11. RefsExact'
  BY <1>0, <1>1, <1>a, <1>b, RefsSame
<1>12. Reserved'
  <2>1. Pointers' = Pointers
    BY <1>a, <1>b DEF Pointers, Range
  <2>2. Fresh' = Fresh
    BY <1>a, <2>1 DEF Fresh
  <2>3. Waiting' = Waiting
    BY <1>b DEF Waiting
  <2> QED
    BY <1>0, <2>2, <2>3 DEF Reserved
<1> QED
  BY <1>1, <1>2, <1>6, <1>7, <1>8, <1>9, <1>10, <1>11, <1>12 DEF RouteInv

(***************************************************************************)
(* Answers that leave the cache alone                                      *)
(***************************************************************************)

\* An answer is nothing, a new entry, or the one the continuation has.
LEMMA ResultIs ==
  ASSUME Types, Shapes, NEW c \in Conts, cont[c].pc = "remote", NEW r \in Results(c)
  PROVE  /\ r.e \in Entries \cup {None} /\ r.s \in States /\ cont[c].newest \in Entries \cup {None}
         /\ \/ r.e = None /\ r.s = "DELETED"
            \/ r.e \in Fresh /\ Spare /\ r.e # None /\ r.s = "AVAIL" /\ cont[c].newest = None
            \/ r.e = cont[c].newest /\ r.e # None /\ Own(c, r.e) /\ r.s \in {"AVAIL", "BORN"}
<1>1. PICK st : st = cont[c].stage
  OBVIOUS
<1>2. PICK new : new = cont[c].newest
  OBVIOUS
<1>3. new \in Entries \cup {None} /\ (new # None <=> st \in {"part", "detail"})
  BY <1>1, <1>2 DEF Types, Cont, Shapes, Shaped
<1>4. \/ r = [e |-> None, s |-> "DELETED"]
      \/ Spare /\ st \in {"binlog", "table"} /\ r = [e |-> NewEntry, s |-> "AVAIL"]
      \/ st \in {"part", "detail"} /\ r = [e |-> new, s |-> "AVAIL"]
      \/ st \in {"part", "detail"} /\ r = [e |-> new, s |-> "BORN"]
  BY <1>1, <1>2 DEF Results
<1>5. "DELETED" \in States /\ "AVAIL" \in States /\ "BORN" \in States
  BY DEF States
<1>6. CASE r = [e |-> None, s |-> "DELETED"]
  BY <1>2, <1>3, <1>5, <1>6
<1>7. CASE Spare /\ st \in {"binlog", "table"} /\ r = [e |-> NewEntry, s |-> "AVAIL"]
  <2>1. NewEntry \in Fresh /\ NewEntry \in Entries
    BY <1>7, SpareIsFresh
  <2> QED
    BY <1>2, <1>3, <1>5, <1>7, <2>1, RouteAssumption
<1>8. ASSUME NEW s \in {"AVAIL", "BORN"}, st \in {"part", "detail"}, r = [e |-> new, s |-> s]
      PROVE  /\ r.e \in Entries \cup {None} /\ r.s \in States /\ new \in Entries \cup {None}
             /\ r.e = new /\ r.e # None /\ Own(c, r.e) /\ r.s \in {"AVAIL", "BORN"}
  <2>1. r.e = new /\ r.s = s /\ new # None
    BY <1>3, <1>8
  <2> QED
    BY <1>2, <1>3, <1>5, <2>1 DEF Own
<1> QED
  BY <1>2, <1>4, <1>6, <1>7, <1>8

\* The references that an answer of the server adds and drops.
LEMMA AnswerCounts ==
  ASSUME Types, Shapes, NEW c \in Conts, cont[c].pc = "remote", NEW r \in Results(c), NEW x \in Entries
  PROVE  /\ Count(x, AnswerInc(c, r)) \in Nat /\ Count(x, AnswerDec(c, r)) \in Nat
         /\ Count(x, AnswerInc(c, r)) - Count(x, AnswerDec(c, r)) = Is(r.e, x) - Is(cont[c].newest, x)
         /\ AnswerInc(c, r) \in Seq(Entries \cup {None}) /\ AnswerDec(c, r) \in Seq(Entries \cup {None})
<1>1. PICK new \in Entries \cup {None} : new = cont[c].newest
  BY ResultIs
<1>2. PICK e \in Entries \cup {None} : e = r.e
  BY ResultIs
<1>3. Is(e, x) \in Nat /\ Is(new, x) \in Nat /\ Is(None, x) = 0
  BY IsNat, RouteAssumption DEF Is
<1>4. Count(x, <<e>>) = Is(e, x) /\ Count(x, <<new>>) = Is(new, x) /\ Count(x, <<>>) = 0
  BY CountOne, CountEmpty
<1>5. <<>> \in Seq(Entries \cup {None}) /\ <<e>> \in Seq(Entries \cup {None}) /\ <<new>> \in Seq(Entries \cup {None})
  OBVIOUS
<1>6. CASE e = None
  <2>1. AnswerInc(c, r) = <<>> /\ AnswerDec(c, r) = <<new>>
    BY <1>1, <1>2, <1>6 DEF AnswerInc, AnswerDec
  <2> QED
    BY <1>1, <1>2, <1>3, <1>4, <1>5, <1>6, <2>1
<1>7. CASE e # None /\ new = None
  <2>1. AnswerInc(c, r) = <<e>> /\ AnswerDec(c, r) = <<>>
    BY <1>1, <1>2, <1>7 DEF AnswerInc, AnswerDec
  <2> QED
    BY <1>1, <1>2, <1>3, <1>4, <1>5, <1>7, <2>1
<1>8. CASE e # None /\ e = new
  <2>1. AnswerInc(c, r) = <<>> /\ AnswerDec(c, r) = <<>>
    BY <1>1, <1>2, <1>8 DEF AnswerInc, AnswerDec
  <2> QED
    BY <1>1, <1>2, <1>3, <1>4, <1>5, <1>8, <2>1
<1> QED
  BY <1>1, <1>2, <1>6, <1>7, <1>8, ResultIs

\* The continuation c ends up with an entry b of its own.
LEMMA OwnStep ==
  ASSUME RouteInv, Types', RefsExact', NEW c \in Conts, cont[c].pc = "remote", NEW r \in Cont, Shaped(r),
         cont' = [cont EXCEPT ![c] = r], NEW b \in Entries, (b \in Fresh /\ Spare) \/ Own(c, b),
         r.newest = b, r.pc \in {"remote", "replace"}, r.ent = cont[c].ent, r.op = cont[c].op,
         r.who = cont[c].who, r.notify <=> cont[c].notify, r.cancelled <=> cont[c].cancelled,
         est'[b] \in {"BORN", "AVAIL"}, r.pc = "remote" => est'[b] = "BORN",
         \A x \in Entries \ {b} : est'[x] = est[x],
         UNCHANGED <<ask, got, pendq, lost, cache, todo, tc>>
  PROVE  RouteInv'
<1>0. Types /\ Shapes /\ Replies /\ Store /\ Private /\ Updates /\ Builds /\ RefsExact /\ Reserved
  BY DEF RouteInv
<1>a. Shapes' /\ \A d \in Conts : cont'[d] = IF d = c THEN r ELSE cont[d]
  BY <1>0, ContStep
<1>b. ~Known(b) /\ (\A d \in Conts : Own(d, b) => d = c) /\ (b \notin Fresh \/ Spare)
  <2>1. CASE b \in Fresh /\ Spare
    BY <1>0, <2>1, FreshIsUnknown
  <2>2. CASE Own(c, b)
    <3>1. b \notin Fresh
      BY <1>0, <2>2, FreshIsUnknown
    <3> QED
      BY <1>0, <2>2, <3>1 DEF Private
  <2> QED
    BY <2>1, <2>2
<1>c. b \notin Reachable /\ b # None /\ \A d \in Conts : cont[d].ent # b
  BY <1>b, RouteAssumption DEF Known
<1>1. Replies'
  BY <1>0, <1>a, RepliesKept
<1>2. Builds'
  <2>1. \A x \in Entries : est'[x] = "BUILDING" => est[x] = "BUILDING"
    OBVIOUS
  <2>2. r.pc # "queued" /\ cont[c].pc # "queued"
    OBVIOUS
  <2> QED
    BY <1>0, <1>a, <2>1, <2>2, BuildsKept
<1>3. Updates'
  <2>1. \A d \in Conts : cont[d].op = "update" => cont[d].ent \in Entries
    BY <1>0 DEF Shapes, Shaped
  <2>2. \A d \in Conts : cont'[d].op = "update" => est'[cont[d].ent] = est[cont[d].ent]
    BY <1>a, <1>c, <2>1
  <2>3. cache # None => est'[cache] = est[cache]
    BY <1>0, <1>c DEF Types, Reachable
  <2>4. \A d \in Conts : cont[d].op = "update" => cont'[d].op = "update"
    BY <1>a
  <2> QED
    BY <1>0, <1>a, <2>2, <2>3, <2>4, UpdatesKept
<1>4. Store'
  <2>1. \A x \in Reachable : est'[x] = est[x]
    BY <1>0, <1>c, ReachableIs
  <2>2. Own(c, b)'
    BY <1>a, <1>c DEF Own
  <2>3. ASSUME NEW x \in Entries \ Reachable, est'[x] \in Live
        PROVE  \/ est[x] \in Live /\ \A d \in Conts : Own(d, x) => Own(d, x)'
               \/ \E d \in Conts : Own(d, x)'
    <3>1. CASE x = b
      BY <2>2, <3>1
    <3>2. CASE x # b
      <4>1. est[x] \in Live
        BY <2>3, <3>2
      <4>2. ~Own(c, x)
        BY <1>0, <4>1 DEF Private, Live
      <4>3. \A d \in Conts : Own(d, x) => Own(d, x)'
        BY <1>a, <4>2 DEF Own
      <4> QED
        BY <4>1, <4>3
    <3> QED
      BY <3>1, <3>2
  <2> QED
    BY <1>0, <2>1, <2>3, StoreKept
<1>5. Private'
  BY <1>0, <1>a, <1>b, PrivateTaken
<1>6. Moves(c, r, b)
  <2>1. Old(None, b) /\ Old(r.newest, b)
    BY DEF Old
  <2>2. Old(r.ent, b)
    BY DEF Old, Known
  <2>3. Reachable' = Reachable
    BY DEF Reachable
  <2> QED
    BY <1>a, <2>1, <2>2, <2>3, MovesBy
<1>7. Reserved'
  BY <1>0, <1>6, <1>b, ReservedStep
<1> QED
  BY <1>1, <1>2, <1>3, <1>4, <1>5, <1>7, <1>a DEF RouteInv

\* References when only the entry of a continuation changes.
LEMMA OwnRefs ==
  ASSUME Types, Types', RefsExact, NEW c \in Conts, NEW r, \A d \in Conts : cont'[d] = IF d = c THEN r ELSE cont[d],
         r.ent = cont[c].ent, NEW plus, NEW minus, refs' = Counted(plus, minus),
         \A x \in Entries : /\ Count(x, plus) \in Nat /\ Count(x, minus) \in Nat
                            /\ Count(x, plus) - Count(x, minus) = Is(r.newest, x) - Is(cont[c].newest, x),
         UNCHANGED <<got, lost, cache, todo, tc>>
  PROVE  RefsExact'
<1>1. ASSUME NEW x \in Entries
      PROVE  Count(x, plus) - Count(x, minus) = Gain(x) + (Inside(x)' - Inside(x))
  <2>1. Used(x)' = Used(x) /\ Count(x, lost)' = Count(x, lost) /\ Inside(x)' = Inside(x)
    BY UsedSame, LostSame, InsideSame
  <2>2. PICK o \in Nat : o = Is(cont[c].newest, x)
    BY IsNat
  <2>3. PICK n \in Nat : n = Is(r.newest, x)
    BY IsNat
  <2>4. PICK h \in Nat : h = Is(r.ent, x)
    BY IsNat
  <2>5. Kept(x)' = Kept(x) + (h - h) + (n - o)
    BY <2>2, <2>3, <2>4, KeptStep
  <2>6. Used(x) \in Nat /\ Kept(x) \in Nat /\ Count(x, lost) \in Nat /\ Inside(x) \in Nat
    BY CountsAre DEF Counts
  <2>7. Kept(x)' = Kept(x) + (n - o)
    BY <2>5, <2>6
  <2>8. Gain(x) = n - o
    BY <2>1, <2>6, <2>7, GainIs
  <2>9. Count(x, plus) - Count(x, minus) = n - o
    BY <2>2, <2>3
  <2> QED
    BY <2>1, <2>6, <2>8, <2>9
<1> QED
  BY <1>1, RefsCounted

\* Nobody is given another entry than b, and no state changes but for an
\* update that is undone.
Served(b) == \A k \in Callers : (tc'[k] = tc[k] \/ tc'[k] = b) /\ (got'[k] = got[k] \/ got'[k] = b)
Undone ==
  /\ \A x \in Reachable : est'[x] = est[x] \/ (est[x] = "UPDATING" /\ est'[x] = "DIRTY")
  /\ \A x \in Entries \ Reachable : est'[x] = est[x]

\* The continuation c gives up the entry of its own, b when somebody gets it.
LEMMA GiveStep ==
  ASSUME RouteInv, Types', Replies', Updates', Builds', RefsExact', NEW c \in Conts, cont[c].pc = "remote",
         NEW r \in Cont, Shaped(r), cont' = [cont EXCEPT ![c] = r], UNCHANGED <<cache, todo, lost>>,
         NEW b, b = None \/ Own(c, b), Old(r.ent, b), Old(r.newest, b), r.pc # "cache",
         r.pc \notin {"remote", "replace"} \/ r.newest = None,
         Served(b), Undone
  PROVE  RouteInv'
<1>0. Types /\ Shapes /\ Replies /\ Store /\ Private /\ Updates /\ Builds /\ RefsExact /\ Reserved
  BY DEF RouteInv
<1>a. Shapes' /\ \A d \in Conts : cont'[d] = IF d = c THEN r ELSE cont[d]
  BY <1>0, ContStep
<1>b. b \notin Fresh /\ \A d \in Conts \ {c} : ~Own(d, b)
  <2>1. CASE b = None
    BY <2>1, RouteAssumption DEF Fresh, Own
  <2>2. CASE Own(c, b)
    <3>1. b \in Entries
      BY <1>0, <2>2 DEF Own, Types, Cont
    <3>2. b \notin Fresh
      BY <1>0, <2>2, FreshIsUnknown
    <3> QED
      BY <1>0, <2>2, <3>1, <3>2 DEF Private
  <2> QED
    BY <2>1, <2>2
<1>1. Moves(c, r, b)
  <2>1. Old(b, b)
    BY DEF Old
  <2>3. Reachable' = Reachable
    BY DEF Reachable
  <2> QED
    BY <1>a, <2>1, <2>3, MovesBy DEF Served
<1>2. Store'
  <2>1. ASSUME NEW x \in Entries \ Reachable, est'[x] \in Live
        PROVE  est[x] \in Live /\ \A d \in Conts : Own(d, x) => Own(d, x)'
    <3>1. est[x] \in Live
      BY <2>1 DEF Undone
    <3>2. ~Own(c, x)
      BY <1>0, <3>1 DEF Private, Live
    <3> QED
      BY <1>a, <3>1, <3>2 DEF Own
  <2>2. cache' = cache /\ todo' = todo
    OBVIOUS
  <2>3. \A x \in Reachable : est'[x] = est[x] \/ (est[x] \in {"AVAIL", "UPDATING"} /\ est'[x] = "DIRTY")
    BY DEF Undone
  <2> QED
    BY <1>0, <2>1, <2>2, <2>3, StoreKept
<1>3. Private'
  <2>1. ASSUME NEW d \in Conts \ {c}, NEW x \in Entries, Own(d, x)
        PROVE  est'[x] = est[x]
    BY <1>0, <2>1 DEF Private, Known, Undone
  <2> QED
    BY <1>0, <1>1, <1>b, <2>1, PrivateStep
<1>4. Reserved'
  BY <1>0, <1>1, <1>b, ReservedStep
<1> QED
  BY <1>2, <1>3, <1>4, <1>a DEF RouteInv

\* An answer that leads to the next query.
LEMMA StepFetchMore ==
  ASSUME RouteInv, NEW c \in Conts, FetchMore(c)
  PROVE  RouteInv'
<1>0. Types /\ Shapes /\ Private /\ RefsExact
  BY DEF RouteInv
<1>a. /\ cont[c].pc = "remote" /\ cont[c].stage \in {"table", "part"}
      /\ UNCHANGED <<kind, ask, got, pendq, lost, cache, todo, tc>>
  BY DEF FetchMore, Remote
<1>b. /\ cont[c] \in Cont /\ Shaped(cont[c]) /\ cont[c].newest \in Entries \cup {None}
      /\ cont[c].newest # None <=> cont[c].stage = "part"
  BY <1>0, <1>a DEF Types, Shapes, Shaped, Cont
<1>c. PICK b : b = IF cont[c].stage = "table" THEN NewEntry ELSE cont[c].newest
  OBVIOUS
<1>d. PICK st : st = IF cont[c].stage = "table" THEN "part" ELSE "detail"
  OBVIOUS
<1>e. b \in Entries /\ ((b \in Fresh /\ Spare) \/ (Own(c, b) /\ est[b] = "BORN"))
  <2>1. CASE cont[c].stage = "table"
    <3>1. Spare
      BY <2>1 DEF FetchMore
    <3> QED
      BY <1>c, <2>1, <3>1, SpareIsFresh
  <2>2. CASE cont[c].stage = "part"
    <3>1. b \in Entries /\ Own(c, b)
      BY <1>a, <1>b, <1>c, <2>2 DEF Own
    <3> QED
      BY <1>0, <1>a, <3>1 DEF Private
  <2> QED
    BY <1>a, <2>1, <2>2
<1>f. PICK r : r = [cont[c] EXCEPT !.stage = st, !.newest = b]
  OBVIOUS
<1>g. /\ r \in Cont /\ r.pc = "remote" /\ r.stage = st /\ st \in {"part", "detail"} /\ r.newest = b
      /\ r.ent = cont[c].ent /\ r.op = cont[c].op /\ r.who = cont[c].who
  BY <1>a, <1>b, <1>d, <1>e, <1>f DEF Cont
<1>h. (r.notify <=> cont[c].notify) /\ (r.cancelled <=> cont[c].cancelled)
  BY <1>b, <1>f DEF Cont
<1>i. Shaped(r)
  BY <1>a, <1>b, <1>e, <1>g, RouteAssumption DEF Shaped
<1>j. /\ cont' = [cont EXCEPT ![c].stage = st, ![c].newest = b]
      /\ est' = IF cont[c].stage = "table" THEN [est EXCEPT ![b] = "BORN"] ELSE est
      /\ refs' = Counted(IF cont[c].stage = "table" THEN <<b>> ELSE <<>>, <<>>)
  BY <1>c, <1>d DEF FetchMore
<1>k. cont' = [cont EXCEPT ![c] = r]
  BY <1>0, <1>f, <1>j DEF Types
<1>l. cont' \in [Conts -> Cont] /\ \A d \in Conts : cont'[d] = IF d = c THEN r ELSE cont[d]
  BY <1>0, <1>g, <1>i, <1>k, ContStep
<1>m. est' \in [Entries -> States] /\ est'[b] = "BORN" /\ \A x \in Entries \ {b} : est'[x] = est[x]
  <2>1. CASE cont[c].stage = "table"
    <3>1. est' = [est EXCEPT ![b] = "BORN"]
      BY <1>j, <2>1
    <3> QED
      BY <1>0, <1>e, <3>1 DEF Types, States
  <2>2. CASE cont[c].stage = "part"
    <3>1. est' = est
      BY <1>j, <2>2
    <3>2. Own(c, b)
      BY <1>a, <1>b, <1>c, <2>2 DEF Own
    <3>3. est[b] = "BORN"
      BY <1>0, <1>a, <1>e, <3>2 DEF Private
    <3> QED
      BY <1>0, <3>1, <3>3 DEF Types
  <2> QED
    BY <1>a, <2>1, <2>2
<1>n. PICK plus : plus = IF cont[c].stage = "table" THEN <<b>> ELSE <<>>
  OBVIOUS
<1>o. ASSUME NEW x \in Entries
      PROVE  /\ Count(x, plus) \in Nat /\ Count(x, <<>>) \in Nat
             /\ Count(x, plus) - Count(x, <<>>) = Is(r.newest, x) - Is(cont[c].newest, x)
  <2>1. Count(x, <<b>>) = Is(b, x) /\ Count(x, <<>>) = 0 /\ Is(b, x) \in Nat /\ Is(None, x) = 0
    BY CountOne, CountEmpty, IsNat, RouteAssumption DEF Is
  <2>2. CASE cont[c].stage = "table"
    <3>1. plus = <<b>> /\ cont[c].newest = None
      BY <1>b, <1>n, <2>2
    <3> QED
      BY <1>g, <2>1, <3>1
  <2>3. CASE cont[c].stage = "part"
    <3>1. plus = <<>> /\ cont[c].newest = b
      BY <1>c, <1>n, <2>3
    <3> QED
      BY <1>g, <2>1, <3>1
  <2> QED
    BY <1>a, <2>2, <2>3
<1>p. refs' = Counted(plus, <<>>)
  BY <1>j, <1>n
<1>1. Types'
  <2>1. refs' \in [Entries -> Int]
    BY <1>0, <1>o, <1>p, CountedInt
  <2> QED
    BY <1>0, <1>a, <1>l, <1>m, <2>1 DEF Types
<1>2. RefsExact'
  BY <1>0, <1>1, <1>a, <1>g, <1>l, <1>o, <1>p, OwnRefs
<1> QED
  BY <1>1, <1>2, <1>a, <1>e, <1>g, <1>h, <1>i, <1>k, <1>m, OwnStep

\* The last answer, when the bucket is locked.
LEMMA StepFetchedContended ==
  ASSUME RouteInv, NEW c \in Conts, NEW v \in Results(c), FetchedContended(c, v)
  PROVE  RouteInv'
<1>0. Types /\ Shapes /\ Replies /\ Store /\ Private /\ Updates /\ Builds /\ RefsExact /\ Reserved
  BY DEF RouteInv
<1>a. /\ cont[c].pc = "remote" /\ cont[c].op = "build"
      /\ cont' = [cont EXCEPT ![c].pc = "replace", ![c].newest = v.e]
      /\ est' = [x \in Entries |-> IF x = v.e THEN v.s ELSE est[x]]
      /\ refs' = Counted(AnswerInc(c, v), AnswerDec(c, v))
      /\ UNCHANGED <<kind, ask, got, pendq, lost, cache, todo, tc>>
  BY DEF FetchedContended, Remote
<1>b. /\ v.e \in Entries \cup {None} /\ v.s \in States
      /\ \/ v.e = None /\ v.s = "DELETED"
         \/ v.e \in Fresh /\ Spare /\ v.e # None /\ v.s = "AVAIL" /\ cont[c].newest = None
         \/ v.e = cont[c].newest /\ v.e # None /\ Own(c, v.e) /\ v.s \in {"AVAIL", "BORN"}
  BY <1>0, <1>a, ResultIs
<1>c. cont[c] \in Cont /\ cont[c].who \in Callers /\ cont[c].ent \in Entries /\ cont[c].stage # "binlog"
  BY <1>0, <1>a DEF Types, Shapes, Shaped
<1>d. PICK r : r = [cont[c] EXCEPT !.pc = "replace", !.newest = v.e]
  OBVIOUS
<1>e. /\ r \in Cont /\ r.pc = "replace" /\ r.stage = cont[c].stage /\ r.newest = v.e
      /\ r.ent = cont[c].ent /\ r.op = cont[c].op /\ r.who = cont[c].who
  BY <1>a, <1>b, <1>c, <1>d DEF Cont
<1>f. (r.notify <=> cont[c].notify) /\ (r.cancelled <=> cont[c].cancelled)
  BY <1>c, <1>d DEF Cont
<1>g. Shaped(r)
  BY <1>a, <1>c, <1>e DEF Shaped
<1>h. cont' = [cont EXCEPT ![c] = r]
  BY <1>0, <1>a, <1>d DEF Types
<1>i. cont' \in [Conts -> Cont] /\ \A d \in Conts : cont'[d] = IF d = c THEN r ELSE cont[d]
  BY <1>0, <1>e, <1>g, <1>h, ContStep
<1>j. PICK inc : inc = AnswerInc(c, v)
  OBVIOUS
<1>k. PICK dec : dec = AnswerDec(c, v)
  OBVIOUS
<1>l. \A x \in Entries : /\ Count(x, inc) \in Nat /\ Count(x, dec) \in Nat
                         /\ Count(x, inc) - Count(x, dec) = Is(r.newest, x) - Is(cont[c].newest, x)
  BY <1>0, <1>a, <1>e, <1>j, <1>k, AnswerCounts
<1>m. refs' = Counted(inc, dec)
  BY <1>a, <1>j, <1>k
<1>n. est' \in [Entries -> States]
  BY <1>0, <1>a, <1>b DEF Types
<1>1. Types'
  <2>1. refs' \in [Entries -> Int]
    BY <1>0, <1>l, <1>m, CountedInt
  <2> QED
    BY <1>0, <1>a, <1>i, <1>n, <2>1 DEF Types
<1>2. RefsExact'
  BY <1>0, <1>1, <1>a, <1>e, <1>i, <1>l, <1>m, OwnRefs
<1>3. CASE v.e # None
  <2>1. PICK b \in Entries : b = v.e
    BY <1>3, <1>b
  <2>2. (b \in Fresh /\ Spare) \/ Own(c, b)
    BY <1>3, <1>b, <2>1
  <2>3. est'[b] \in {"BORN", "AVAIL"} /\ \A x \in Entries \ {b} : est'[x] = est[x]
    BY <1>3, <1>a, <1>b, <2>1
  <2>4. /\ cont[c].pc = "remote" /\ r.newest = b /\ r.pc = "replace"
        /\ UNCHANGED <<ask, got, pendq, lost, cache, todo, tc>>
    BY <1>a, <1>e, <2>1
  <2>5. r \in Cont /\ r.ent = cont[c].ent /\ r.op = cont[c].op /\ r.who = cont[c].who
    BY <1>e
  <2> QED
    BY <1>1, <1>2, <1>f, <1>g, <1>h, <2>2, <2>3, <2>4, <2>5, OwnStep
<1>4. CASE v.e = None
  <2>1. \A x \in Entries : est'[x] = est[x]
    BY <1>4, <1>a, RouteAssumption
  <2>2. Replies'
    BY <1>0, <1>a, <1>e, <1>f, <1>i, RepliesKept
  <2>3. Builds'
    BY <1>0, <1>a, <1>e, <1>i, <2>1, BuildsKept
  <2>4. Updates'
    <3>1. \A d \in Conts : cont[d].op = "update" => cont'[d].op = "update" /\ cont[d].ent \in Entries
      BY <1>0, <1>a, <1>i DEF Shapes, Shaped
    <3>2. cache # None => est'[cache] = est[cache]
      BY <1>0, <2>1 DEF Types
    <3>3. \A d \in Conts : cont'[d].op = "update" => est'[cont[d].ent] = est[cont[d].ent]
      BY <1>a, <1>e, <1>i, <2>1, <3>1
    <3>4. cache' # None /\ est'[cache'] = "UPDATING" => cache' = cache /\ est[cache] = "UPDATING" /\ todo' = todo
      BY <1>a, <3>2
    <3>5. r.op # "update"
      BY <1>a, <1>e
    <3> QED
      BY <1>0, <1>i, <3>1, <3>3, <3>4, <3>5, UpdatesKept
  <2>5. Old(r.ent, None) /\ Old(r.newest, None)
    BY <1>4, <1>e DEF Old, Known
  <2>6. Undone /\ Served(None)
    BY <1>0, <1>a, <2>1, ReachableIs DEF Undone, Served
  <2> QED
    BY <1>1, <1>2, <1>4, <1>a, <1>e, <1>g, <1>h, <2>2, <2>3, <2>4, <2>5, <2>6, GiveStep
<1> QED
  BY <1>3, <1>4

(***************************************************************************)
(* Answers that reach the cache                                            *)
(***************************************************************************)

\* An entry that was fetched is known to nobody but the continuation.
LEMMA FetchedIs ==
  ASSUME RouteInv, NEW c \in Conts, cont[c].pc = "remote", NEW v \in Results(c), NEW e \in Entries, e = v.e
  PROVE  /\ ~Known(e) /\ e \notin Reachable /\ \A d \in Conts : cont[d].ent # e
         /\ \A d \in Conts : Own(d, e) => d = c
         /\ \A x \in Entries \ {e} : ~Own(c, x)
         /\ e \notin Fresh \/ Spare
<1>0. Types /\ Shapes /\ Private
  BY DEF RouteInv
<1>1. \/ e \in Fresh /\ Spare /\ cont[c].newest = None
      \/ e = cont[c].newest /\ Own(c, e)
  BY <1>0, ResultIs, RouteAssumption
<1>2. CASE e \in Fresh /\ Spare /\ cont[c].newest = None
  <2>1. ~Known(e) /\ \A d \in Conts : ~Own(d, e)
    BY <1>0, <1>2, FreshIsUnknown
  <2>2. \A x : ~Own(c, x)
    BY <1>2 DEF Own
  <2>3. e \notin Reachable /\ \A d \in Conts : cont[d].ent # e
    BY <2>1 DEF Known
  <2> QED
    BY <1>2, <2>1, <2>2, <2>3
<1>3. CASE e = cont[c].newest /\ Own(c, e)
  <2>1. ~Known(e) /\ \A d \in Conts : Own(d, e) => d = c
    BY <1>0, <1>3 DEF Private
  <2>2. \A x \in Entries \ {e} : ~Own(c, x)
    BY <1>3 DEF Own
  <2>3. e \notin Reachable /\ \A d \in Conts : cont[d].ent # e
    BY <2>1 DEF Known
  <2>4. e \notin Fresh
    BY <1>0, <1>3, FreshIsUnknown
  <2> QED
    BY <2>1, <2>2, <2>3, <2>4
<1> QED
  BY <1>1, <1>2, <1>3

\* inc_ref and dec_ref of an answer that calls back.
LEMMA SingleCounts ==
  ASSUME Types, Shapes, Replies, NEW c \in Conts, cont[c].pc = "remote", NEW v \in Results(c),
         Notify(c, v.e, v.s), cont' = [cont EXCEPT ![c] = FreeCont],
         NEW inc, NEW dec, inc = AnswerInc(c, v) \o NotifyInc(c, v.e, v.s), dec = AnswerDec(c, v) \o NotifyDec(c, v.e, v.s),
         NEW x \in Entries
  PROVE  /\ inc \in Seq(Entries \cup {None}) /\ dec \in Seq(Entries \cup {None})
         /\ Count(x, inc) \in Nat /\ Count(x, dec) \in Nat
         /\ Types' /\ lost' = lost => Count(x, inc) - Count(x, dec) = Gain(x)
<1>1. PICK e \in Entries \cup {None} : e = v.e
  BY ResultIs
<1>2. PICK s : s = v.s
  OBVIOUS
<1>3. PICK ai : ai = AnswerInc(c, v)
  OBVIOUS
<1>4. PICK ad : ad = AnswerDec(c, v)
  OBVIOUS
<1>5. PICK ni : ni = NotifyInc(c, e, s)
  OBVIOUS
<1>6. PICK nd : nd = NotifyDec(c, e, s)
  OBVIOUS
<1>7. Notify(c, e, s) /\ inc = ai \o ni /\ dec = ad \o nd
  BY <1>1, <1>2, <1>3, <1>4, <1>5, <1>6
<1>8. /\ Count(x, ai) \in Nat /\ Count(x, ad) \in Nat
      /\ Count(x, ai) - Count(x, ad) = Is(e, x) - Is(cont[c].newest, x)
      /\ ai \in Seq(Entries \cup {None}) /\ ad \in Seq(Entries \cup {None})
  BY <1>1, <1>3, <1>4, AnswerCounts
<1>9. /\ Count(x, ni) \in Nat /\ Count(x, nd) \in Nat
      /\ ni \in Seq(Entries \cup {None}) /\ nd \in Seq(Entries \cup {None})
  BY <1>5, <1>6, <1>7, NotifyHolds
<1>10. /\ inc \in Seq(Entries \cup {None}) /\ Count(x, inc) = Count(x, ai) + Count(x, ni)
  BY <1>7, <1>8, <1>9, CountConcat, ConcatProperties
<1>11. /\ dec \in Seq(Entries \cup {None}) /\ Count(x, dec) = Count(x, ad) + Count(x, nd)
  BY <1>7, <1>8, <1>9, CountConcat, ConcatProperties
<1>12. ASSUME Types', lost' = lost PROVE Count(x, inc) - Count(x, dec) = Gain(x)
  <2>1. PICK m \in Int : m = Is(e, x) - Is(cont[c].newest, x)
    BY IsNat
  <2>2. Gain(x) = (Count(x, ni) - Count(x, nd)) + m
    BY <1>12, <1>5, <1>6, <1>7, <2>1, CalledGain
  <2>3. Count(x, ai) - Count(x, ad) = m
    BY <1>8, <2>1
  <2> QED
    BY <1>8, <1>9, <1>10, <1>11, <2>2, <2>3
<1> QED
  BY <1>8, <1>9, <1>10, <1>11, <1>12

\* What holds of every answer for the continuation's own caller.
LEMMA SingleStep ==
  ASSUME RouteInv, NEW c \in Conts, NEW v \in Results(c), NEW queue, FetchedSingle(c, v, queue)
  PROVE  /\ cont[c].pc = "remote" /\ cont[c].op \in {"direct", "update"}
         /\ Notify(c, v.e, v.s) /\ cont' = [cont EXCEPT ![c] = FreeCont]
         /\ cont' \in [Conts -> Cont] /\ \A d \in Conts : cont'[d] = IF d = c THEN FreeCont ELSE cont[d]
         /\ v.e \in Entries \cup {None} /\ v.s \in States
         /\ Replies'
         /\ ask' \in [Callers -> {"idle", "waiting", "holding"}]
         /\ got' \in [Callers -> Entries \cup {None}]
         /\ tc' \in [Callers -> Entries \cup {None}]
         /\ \A k \in Callers : (tc'[k] = tc[k] \/ tc'[k] = v.e) /\ (got'[k] = got[k] \/ got'[k] = v.e)
         /\ UNCHANGED <<kind, pendq, lost>>
         /\ (\A x \in Entries : est'[x] = "BUILDING" => est[x] = "BUILDING") => Builds'
<1>0. Types /\ Shapes /\ Replies /\ Builds
  BY DEF RouteInv
<1>1. /\ cont[c].pc = "remote" /\ cont[c].op \in {"direct", "update"}
      /\ Notify(c, v.e, v.s) /\ cont' = [cont EXCEPT ![c] = FreeCont]
      /\ UNCHANGED <<kind, pendq, lost>>
  BY DEF FetchedSingle, Remote
<1>2. cont' \in [Conts -> Cont] /\ \A d \in Conts : cont'[d] = IF d = c THEN FreeCont ELSE cont[d]
  BY <1>0, <1>1, FreeShape, ContStep
<1>3. v.e \in Entries \cup {None} /\ v.s \in States
  BY <1>0, <1>1, ResultIs
<1>4. Replies'
  BY <1>0, <1>1, RepliesEnded
<1>5. /\ ask' \in [Callers -> {"idle", "waiting", "holding"}]
      /\ got' \in [Callers -> Entries \cup {None}]
      /\ tc' \in [Callers -> Entries \cup {None}]
      /\ \A k \in Callers : got'[k] \in {got[k], v.e}
      /\ \A k \in Callers : tc'[k] \in {tc[k], v.e}
  BY <1>0, <1>1, <1>3, NotifyTypes
<1>6. ASSUME \A x \in Entries : est'[x] = "BUILDING" => est[x] = "BUILDING"
      PROVE  Builds'
  BY <1>0, <1>1, <1>2, <1>6, FreeShape, BuildsKept
<1> QED
  BY <1>1, <1>2, <1>3, <1>4, <1>5, <1>6

\* Nothing worth keeping was fetched.
LEMMA SingleDropped ==
  ASSUME RouteInv, NEW c \in Conts, NEW v \in Results(c), NEW queue, FetchedSingle(c, v, queue), ~Adds(v)
  PROVE  RouteInv'
<1>0. Types /\ Shapes /\ Replies /\ Store /\ Private /\ Updates /\ Builds /\ RefsExact /\ Reserved
  BY DEF RouteInv
<1>a. /\ cont[c].pc = "remote" /\ cont[c].op \in {"direct", "update"}
      /\ Notify(c, v.e, v.s) /\ cont' = [cont EXCEPT ![c] = FreeCont]
  BY SingleStep
<1>b. cont' \in [Conts -> Cont] /\ \A d \in Conts : cont'[d] = IF d = c THEN FreeCont ELSE cont[d]
  BY SingleStep
<1>c. PICK e \in Entries \cup {None} : e = v.e
  BY SingleStep
<1>d. e = None \/ (e \in Entries /\ Own(c, e) /\ v.s = "BORN" /\ est[e] = "BORN")
  <2>1. e = None \/ (Own(c, e) /\ v.s = "BORN")
    BY <1>0, <1>a, <1>c, ResultIs DEF Adds
  <2> QED
    BY <1>0, <1>a, <2>1 DEF Private
<1>e. PICK inc : inc = AnswerInc(c, v) \o NotifyInc(c, v.e, v.s)
  OBVIOUS
<1>f. PICK dec : dec = AnswerDec(c, v) \o NotifyDec(c, v.e, v.s)
  OBVIOUS
<1>g. PICK back \in BOOLEAN : back <=> cont[c].op = "update" /\ est[cont[c].ent] = "UPDATING"
  OBVIOUS
<1>h. /\ cache' = cache /\ todo' = todo /\ lost' = lost
      /\ refs' = Counted(inc, dec)
      /\ est' = [x \in Entries |-> IF x = v.e THEN v.s ELSE IF x \in Back(c, FALSE) THEN "DIRTY" ELSE est[x]]
  <2>1. Adds(v) = FALSE
    BY DEF Adds
  <2> QED
    BY <1>e, <1>f, <2>1 DEF FetchedSingle
<1>i. \A x \in Entries : est'[x] = IF back /\ x = cont[c].ent THEN "DIRTY" ELSE est[x]
  <2>1. \A x : x \in Back(c, FALSE) <=> back /\ x = cont[c].ent
    BY <1>g DEF Back
  <2>2. e # None => cont[c].ent # e
    BY <1>0, <1>d DEF Private, Known
  <2> QED
    BY <1>c, <1>d, <1>h, <2>1, <2>2, RouteAssumption
<1>j. ASSUME back
      PROVE  cont[c].ent \in Entries /\ cont[c].ent \in Reachable /\ est[cont[c].ent] = "UPDATING"
  <2>1. PICK u \in Entries : u = cont[c].ent
    BY <1>0, <1>g, <1>j DEF Shapes, Shaped
  <2>2. est[u] = "UPDATING" /\ \A d \in Conts : ~Own(d, u)
    BY <1>0, <1>g, <1>j, <2>1 DEF Private
  <2>3. u \in Reachable
    BY <1>0, <2>2 DEF Store, Live
  <2> QED
    BY <2>1, <2>2, <2>3
<1>k. est' \in [Entries -> States]
  <2>1. \A x \in Entries : est'[x] \in States
    BY <1>0, <1>i DEF Types, States
  <2> QED
    BY <1>h, <2>1
<1>l. \A x \in Entries : /\ Count(x, inc) \in Nat /\ Count(x, dec) \in Nat
                         /\ Types' /\ lost' = lost => Count(x, inc) - Count(x, dec) = Gain(x)
  BY <1>0, <1>a, <1>e, <1>f, SingleCounts
<1>1. Types'
  <2>1. refs' \in [Entries -> Int]
    BY <1>0, <1>h, <1>l, CountedInt
  <2>2. /\ ask' \in [Callers -> {"idle", "waiting", "holding"}]
        /\ got' \in [Callers -> Entries \cup {None}]
        /\ tc' \in [Callers -> Entries \cup {None}]
        /\ UNCHANGED <<kind, pendq, lost>>
    BY SingleStep
  <2> QED
    BY <1>0, <1>b, <1>h, <1>k, <2>1, <2>2 DEF Types
<1>2. RefsExact'
  <2>1. ASSUME NEW x \in Entries
        PROVE  Count(x, inc) - Count(x, dec) = Gain(x) + (Inside(x)' - Inside(x))
    <3>1. Inside(x)' = Inside(x) /\ Inside(x) \in Nat
      BY <1>0, <1>h, InsideSame, CountsAre DEF Counts
    <3>2. Count(x, inc) - Count(x, dec) = Gain(x) /\ Count(x, inc) \in Nat /\ Count(x, dec) \in Nat
      BY <1>1, <1>h, <1>l
    <3> QED
      BY <3>1, <3>2
  <2> QED
    BY <1>0, <1>1, <1>h, <1>l, <2>1, RefsCounted
<1>3. Builds'
  <2>1. \A x \in Entries : est'[x] = "BUILDING" => est[x] = "BUILDING"
    BY <1>i
  <2> QED
    BY <2>1, SingleStep
<1>4. Updates'
  <2>1. \A d \in Conts : cont[d].op = "update" => cont[d].ent \in Entries
    BY <1>0 DEF Shapes, Shaped
  <2>2. \A d \in Conts : cont'[d].op = "update" => d # c /\ cont[d].op = "update"
    BY <1>b, FreeShape
  <2>3. ASSUME NEW d \in Conts, cont'[d].op = "update"
        PROVE  est'[cont[d].ent] = est[cont[d].ent]
    <3>1. back => cont[d].ent # cont[c].ent
      BY <1>0, <1>g, <2>2, <2>3 DEF Updates, OneUpdate
    <3> QED
      BY <1>i, <2>1, <2>2, <2>3, <3>1
  <2>4. ASSUME cache' # None, est'[cache'] = "UPDATING"
        PROVE  /\ cache' = cache /\ est[cache] = "UPDATING" /\ todo' = todo
               /\ \A d \in Conts : cont[d].op = "update" /\ cont[d].ent = cache => cont'[d].op = "update"
    <3>1. cache \in Entries /\ cache' = cache
      BY <1>0, <1>h, <2>4 DEF Types
    <3>2. est[cache] = "UPDATING" /\ ~(back /\ cache = cont[c].ent)
      BY <1>i, <2>4, <3>1
    <3>3. ~(cont[c].op = "update" /\ cont[c].ent = cache)
      BY <1>g, <3>2
    <3> QED
      BY <1>b, <1>h, <3>1, <3>2, <3>3
  <2>5. FreeCont.op # "update"
    BY FreeShape
  <2> QED
    BY <1>0, <1>b, <2>3, <2>4, <2>5, UpdatesKept
<1>5. Replies' /\ Served(e)
  BY <1>c, SingleStep DEF Served
<1>6. Old(FreeCont.ent, e) /\ Old(FreeCont.newest, e)
  BY FreeShape DEF Old
<1>7. Undone
  <2>1. Reachable \subseteq Entries
    BY <1>0, ReachableIs
  <2> QED
    BY <1>i, <1>j, <2>1 DEF Undone
<1>8. e = None \/ Own(c, e)
  BY <1>d
<1>9. PICK r : r = FreeCont
  OBVIOUS
<1>10. r \in Cont /\ Shaped(r) /\ r.pc \notin {"cache", "remote", "replace"} /\ Old(r.ent, e) /\ Old(r.newest, e)
  BY <1>6, <1>9, FreeShape
<1>11. cont[c].pc = "remote" /\ cont' = [cont EXCEPT ![c] = r] /\ UNCHANGED <<cache, todo, lost>>
  BY <1>9, <1>a, <1>h
<1> QED
  BY <1>1, <1>2, <1>3, <1>4, <1>5, <1>7, <1>8, <1>10, <1>11, GiveStep

\* The bucket is locked by somebody else: the entry goes to the todo list.
LEMMA SingleQueued ==
  ASSUME RouteInv, NEW c \in Conts, NEW v \in Results(c), FetchedSingle(c, v, TRUE), Adds(v)
  PROVE  RouteInv'
<1>0. Types /\ Shapes /\ Replies /\ Store /\ Private /\ Updates /\ Builds /\ RefsExact /\ Reserved
  BY DEF RouteInv
<1>a. /\ cont[c].pc = "remote" /\ cont[c].op \in {"direct", "update"}
      /\ Notify(c, v.e, v.s) /\ cont' = [cont EXCEPT ![c] = FreeCont]
  BY SingleStep
<1>b. cont' \in [Conts -> Cont] /\ \A d \in Conts : cont'[d] = IF d = c THEN FreeCont ELSE cont[d]
  BY SingleStep
<1>c. PICK e \in Entries : e = v.e
  <2>1. v.e \in Entries \cup {None}
    BY SingleStep
  <2> QED
    BY <2>1 DEF Adds
<1>d. /\ ~Known(e) /\ e \notin Reachable /\ \A d \in Conts : cont[d].ent # e
      /\ \A d \in Conts : Own(d, e) => d = c
      /\ \A x \in Entries \ {e} : ~Own(c, x)
      /\ e \notin Fresh \/ Spare
  BY <1>a, <1>c, FetchedIs
<1>e. PICK inc : inc = AnswerInc(c, v) \o NotifyInc(c, v.e, v.s)
  OBVIOUS
<1>f. PICK dec : dec = AnswerDec(c, v) \o NotifyDec(c, v.e, v.s)
  OBVIOUS
<1>g. PICK plus : plus = inc \o <<e, e>>
  OBVIOUS
<1>h. /\ cache' = cache /\ todo' = Append(todo, e) /\ lost' = lost
      /\ refs' = Counted(plus, dec)
      /\ est' = [x \in Entries |-> IF x = e THEN "AVAIL" ELSE est[x]]
  <2>1. Adds(v) = TRUE /\ v.s = "AVAIL"
    BY DEF Adds
  <2>2. Back(c, TRUE) = {}
    BY DEF Back
  <2> QED
    BY <1>c, <1>e, <1>f, <1>g, <2>1, <2>2 DEF FetchedSingle
<1>i. est' \in [Entries -> States] /\ \A x \in Entries : est'[x] = IF x = e THEN "AVAIL" ELSE est[x]
  BY <1>0, <1>h DEF Types, States
<1>j. Store' /\ todo' \in Seq(Entries) /\ Reachable' = Reachable \cup {e}
  <2>1. \A d \in Conts, x \in Entries \ {e} : Own(d, x) => Own(d, x)'
    BY <1>b, <1>d DEF Own
  <2> QED
    BY <1>0, <1>d, <1>h, <1>i, <2>1, StoreQueued
<1>k. \A x \in Entries : /\ inc \in Seq(Entries \cup {None})
                         /\ Count(x, inc) \in Nat /\ Count(x, dec) \in Nat
                         /\ Types' /\ lost' = lost => Count(x, inc) - Count(x, dec) = Gain(x)
  BY <1>0, <1>a, <1>e, <1>f, SingleCounts
<1>l. ASSUME NEW x \in Entries
      PROVE  Count(x, plus) = Count(x, inc) + (Is(e, x) + Is(e, x)) /\ Count(x, plus) \in Nat /\ Is(e, x) \in Nat
  <2>1. <<e, e>> \in Seq(Entries \cup {None}) /\ Count(x, <<e, e>>) = Is(e, x) + Is(e, x) /\ Is(e, x) \in Nat
    BY CountTwo, IsNat
  <2>2. PICK two \in Seq(Entries \cup {None}) : two = <<e, e>>
    BY <2>1
  <2>3. inc \in Seq(Entries \cup {None}) /\ Count(x, inc) \in Nat
    BY <1>k
  <2>4. Count(x, inc \o two) = Count(x, inc) + Count(x, two)
    BY <2>3, CountConcat
  <2> QED
    BY <1>g, <2>1, <2>2, <2>3, <2>4
<1>1. Types'
  <2>1. refs' \in [Entries -> Int]
    BY <1>0, <1>h, <1>k, <1>l, CountedInt
  <2>2. /\ ask' \in [Callers -> {"idle", "waiting", "holding"}]
        /\ got' \in [Callers -> Entries \cup {None}]
        /\ tc' \in [Callers -> Entries \cup {None}]
        /\ UNCHANGED <<kind, pendq, lost>>
    BY SingleStep
  <2>3. cache' = cache
    BY <1>h
  <2> QED
    BY <1>0, <1>b, <1>i, <1>j, <2>1, <2>2, <2>3 DEF Types
<1>2. RefsExact'
  <2>1. ASSUME NEW x \in Entries
        PROVE  Count(x, plus) - Count(x, dec) = Gain(x) + (Inside(x)' - Inside(x))
    <3>1. Count(x, todo)' = Count(x, todo) + Is(e, x)
      <4>1. Count(x, Append(todo, e)) = Count(x, todo) + Is(e, x)
        BY <1>0, CountAppend DEF Types
      <4>2. todo' = Append(todo, e)
        BY <1>h
      <4> QED
        BY <4>1, <4>2 DEF Count
    <3>2. Is(cache, x)' = Is(cache, x) /\ Is(cache, x) \in Nat /\ Count(x, todo) \in Nat
      <4>1. Is(cache, x)' = Is(cache, x)
        BY <1>h DEF Is
      <4>2. Is(cache, x) \in Nat
        BY IsNat
      <4>3. Count(x, todo) \in Nat
        BY <1>0, HoldersAre
      <4> QED
        BY <4>1, <4>2, <4>3
    <3>3. Inside(x) = Is(cache, x) + 2 * Count(x, todo) /\ Inside(x)' = Is(cache, x)' + 2 * Count(x, todo)'
      BY DEF Inside
    <3>4. Inside(x)' - Inside(x) = Is(e, x) + Is(e, x)
      BY <1>l, <3>1, <3>2, <3>3
    <3>5. Count(x, inc) - Count(x, dec) = Gain(x) /\ Count(x, inc) \in Nat /\ Count(x, dec) \in Nat
      BY <1>1, <1>h, <1>k
    <3> QED
      BY <1>l, <3>4, <3>5
  <2> QED
    BY <1>0, <1>1, <1>h, <1>k, <1>l, <2>1, RefsCounted
<1>3. Builds'
  <2>1. \A x \in Entries : est'[x] = "BUILDING" => est[x] = "BUILDING"
    BY <1>i
  <2> QED
    BY <2>1, SingleStep
<1>4. Updates'
  <2>1. \A d \in Conts : cont[d].op = "update" => cont[d].ent \in Entries
    BY <1>0 DEF Shapes, Shaped
  <2>2. \A d \in Conts : cont'[d].op = "update" => cont[d].op = "update"
    BY <1>b, FreeShape
  <2>3. \A d \in Conts : cont'[d].op = "update" => est'[cont[d].ent] = est[cont[d].ent]
    BY <1>d, <1>i, <2>1, <2>2
  <2>4. todo' # <<>>
    <3>1. todo \in Seq(Entries) /\ todo' = Append(todo, e)
      BY <1>0, <1>h DEF Types
    <3>2. Len(todo') = Len(todo) + 1 /\ Len(todo) \in Nat
      BY <3>1, AppendProperties, LenProperties
    <3>3. Len(<<>>) = 0
      OBVIOUS
    <3> QED
      BY <3>2, <3>3
  <2>5. FreeCont.op # "update"
    BY FreeShape
  <2>6. \A d \in Conts : cont'[d].op = "update" =>
            est'[cont[d].ent] = est[cont[d].ent] \/ est'[cont[d].ent] = "DELETED"
    BY <2>3
  <2> QED
    BY <1>0, <1>b, <2>4, <2>5, <2>6, UpdatesKept
<1>5. Replies' /\ \A k \in Callers : (tc'[k] = tc[k] \/ tc'[k] = e) /\ (got'[k] = got[k] \/ got'[k] = e)
  BY <1>c, SingleStep
<1>6. Moves(c, FreeCont, e)
  <2>1. Old(FreeCont.ent, e) /\ Old(FreeCont.newest, e) /\ Old(e, e)
    BY FreeShape DEF Old
  <2> QED
    BY <1>5, <1>b, <1>j, <2>1, MovesBy
<1>7. Private'
  <2>1. \A d \in Conts \ {c}, x \in Entries : Own(d, x) => est'[x] = est[x]
    BY <1>d, <1>i
  <2> QED
    BY <1>0, <1>6, <1>d, <2>1, FreeShape, PrivateStep
<1>8. Reserved'
  BY <1>0, <1>1, <1>2, <1>6, <1>d, <1>h, FreeShape, ReservedStep
<1>9. Shapes'
  BY <1>0, <1>a, FreeShape, ContStep
<1> QED
  BY <1>1, <1>2, <1>3, <1>4, <1>5, <1>7, <1>8, <1>9, <1>j DEF RouteInv

\* The entry takes its place in the cache.
LEMMA SingleAdded ==
  ASSUME RouteInv, NEW c \in Conts, NEW v \in Results(c), FetchedSingle(c, v, FALSE), Adds(v)
  PROVE  RouteInv'
<1>0. Types /\ Shapes /\ Replies /\ Store /\ Private /\ Updates /\ Builds /\ RefsExact /\ Reserved
  BY DEF RouteInv
<1>a. /\ cont[c].pc = "remote" /\ cont[c].op \in {"direct", "update"}
      /\ Notify(c, v.e, v.s) /\ cont' = [cont EXCEPT ![c] = FreeCont]
  BY SingleStep
<1>b. cont' \in [Conts -> Cont] /\ \A d \in Conts : cont'[d] = IF d = c THEN FreeCont ELSE cont[d]
  BY SingleStep
<1>c. PICK e \in Entries : e = v.e
  <2>1. v.e \in Entries \cup {None}
    BY SingleStep
  <2> QED
    BY <2>1 DEF Adds
<1>d. /\ ~Known(e) /\ e \notin Reachable /\ \A d \in Conts : cont[d].ent # e
      /\ \A d \in Conts : Own(d, e) => d = c
      /\ \A x \in Entries \ {e} : ~Own(c, x)
      /\ e \notin Fresh \/ Spare
  BY <1>a, <1>c, FetchedIs
<1>e. PICK inc : inc = AnswerInc(c, v) \o NotifyInc(c, v.e, v.s)
  OBVIOUS
<1>f. PICK dec : dec = AnswerDec(c, v) \o NotifyDec(c, v.e, v.s)
  OBVIOUS
<1>g. PICK plus : plus = inc \o <<e>>
  OBVIOUS
<1>h. Locked(e, "AVAIL") /\ refs' = LockedCount(e, plus, dec) /\ lost' = lost
  <2>1. Adds(v) = TRUE /\ v.s = "AVAIL"
    BY DEF Adds
  <2>2. Back(c, TRUE) = {}
    BY DEF Back
  <2> QED
    BY <1>c, <1>e, <1>f, <1>g, <2>1, <2>2 DEF FetchedSingle, Locked
<1>s. "AVAIL" \in Live /\ "AVAIL" \in States
  BY DEF Live, States
<1>i. /\ cache' = e /\ todo' = <<>> /\ todo' \in Seq(Entries) /\ est' \in [Entries -> States]
      /\ \A x \in Entries : est'[x] = IF x = e THEN "AVAIL" ELSE IF x \in Reachable THEN "DELETED" ELSE est[x]
  BY <1>0, <1>h, <1>s, LockedIs
<1>k. \A x \in Entries : /\ inc \in Seq(Entries \cup {None})
                         /\ Count(x, inc) \in Nat /\ Count(x, dec) \in Nat
                         /\ Types' /\ lost' = lost => Count(x, inc) - Count(x, dec) = Gain(x)
  BY <1>0, <1>a, <1>e, <1>f, SingleCounts
<1>l. ASSUME NEW x \in Entries
      PROVE  Count(x, plus) = Count(x, inc) + Is(e, x) /\ Count(x, plus) \in Nat /\ Is(e, x) \in Nat
  <2>1. <<e>> \in Seq(Entries \cup {None}) /\ Count(x, <<e>>) = Is(e, x) /\ Is(e, x) \in Nat
    BY CountOne, IsNat
  <2>3. inc \in Seq(Entries \cup {None}) /\ Count(x, inc) \in Nat
    BY <1>k
  <2>4. Count(x, inc \o <<e>>) = Count(x, inc) + Count(x, <<e>>)
    BY <2>1, <2>3, CountConcat
  <2> QED
    BY <1>g, <2>1, <2>3, <2>4
<1>1. Types'
  <2>1. refs' \in [Entries -> Int]
    BY <1>0, <1>h, <1>k, <1>l, LockedInt
  <2>2. /\ ask' \in [Callers -> {"idle", "waiting", "holding"}]
        /\ got' \in [Callers -> Entries \cup {None}]
        /\ tc' \in [Callers -> Entries \cup {None}]
        /\ UNCHANGED <<kind, pendq, lost>>
    BY SingleStep
  <2> QED
    BY <1>0, <1>b, <1>i, <2>1, <2>2 DEF Types
<1>2. RefsExact'
  <2>1. ASSUME NEW x \in Entries
        PROVE  Count(x, plus) - Count(x, dec) = Gain(x) + (IF e = x /\ e \notin Reachable THEN 1 ELSE 0)
    <3>1. Is(e, x) = IF e = x /\ e \notin Reachable THEN 1 ELSE 0
      BY <1>d DEF Is
    <3>2. Count(x, inc) - Count(x, dec) = Gain(x) /\ Count(x, inc) \in Nat /\ Count(x, dec) \in Nat
      BY <1>1, <1>h, <1>k
    <3>3. Count(x, plus) - Count(x, dec) = Gain(x) + Is(e, x)
      BY <1>l, <3>2
    <3> QED
      BY <3>1, <3>3
  <2> QED
    BY <1>0, <1>1, <1>h, <1>i, <1>k, <1>l, <2>1, RefsLocked
<1>3. Builds'
  <2>1. \A x \in Entries : est'[x] = "BUILDING" => est[x] = "BUILDING"
    BY <1>i
  <2> QED
    BY <2>1, SingleStep
<1>4. Updates'
  <2>1. \A d \in Conts : cont[d].op = "update" => cont[d].ent \in Entries
    BY <1>0 DEF Shapes, Shaped
  <2> QED
    BY <1>0, <1>b, <1>d, <1>h, <1>s, <2>1, FreeShape, UpdatesLocked
<1>5. Replies' /\ \A k \in Callers : (tc'[k] = tc[k] \/ tc'[k] = e) /\ (got'[k] = got[k] \/ got'[k] = e)
  BY <1>c, SingleStep
<1>6. Old(FreeCont.ent, e) /\ Old(FreeCont.newest, e)
  BY FreeShape DEF Old
<1>7. \A d \in Conts \ {c} : ~Own(d, e)
  BY <1>d
<1> QED
  BY <1>1, <1>2, <1>3, <1>4, <1>5, <1>6, <1>7, <1>b, <1>d, <1>h, <1>s, FreeShape, LockedStep

\* The last answer of a lookup that nobody else waits for.
LEMMA StepFetchedSingle ==
  ASSUME RouteInv, NEW c \in Conts, NEW v \in Results(c), NEW queue \in BOOLEAN, FetchedSingle(c, v, queue)
  PROVE  RouteInv'
BY SingleDropped, SingleQueued, SingleAdded

(***************************************************************************)
(* The end of a building entry                                             *)
(***************************************************************************)

\* What a continuation may put in the place of its building entry, and the
\* references that go with it.
Offered(c, e, s) ==
  /\ e \in Entries \cup {None} /\ s \in States
  /\ e = None => s = "DELETED"
  /\ e # None => /\ ~Known(e) /\ s \in {"AVAIL", "BORN"}
                 /\ \A d \in Conts : Own(d, e) => d = c
                 /\ \A x \in Entries \ {e} : ~Own(c, x)
  /\ e \notin Fresh \/ Spare
  /\ \A x \in Entries \ {e} : Own(c, x) => est[x] \notin Live
Paid(c, e, inc, dec) == \A x \in Entries :
  /\ inc \in Seq(Entries \cup {None}) /\ Count(x, inc) \in Nat /\ Count(x, dec) \in Nat
  /\ Count(x, inc) - Count(x, dec) = Is(e, x) - Is(cont[c].newest, x)

\* Replacing the placeholder by what was fetched, or dropping it.
LEMMA ReplaceStep ==
  ASSUME RouteInv, NEW c \in Conts, cont[c].op = "build", cont[c].pc \in {"remote", "replace"},
         NEW e, NEW s, Offered(c, e, s), NEW inc, NEW dec, Paid(c, e, inc, dec),
         Replace(c, e, s, inc, dec), UNCHANGED <<kind, ask, got, pendq, lost, tc>>
  PROVE  RouteInv'
<1>0. Types /\ Shapes /\ Replies /\ Store /\ Private /\ Updates /\ Builds /\ RefsExact /\ Reserved
  BY DEF RouteInv
<1>a. /\ cont[c] \in Cont /\ Shaped(cont[c]) /\ cont[c].who \in Callers /\ cont[c].ent \in Entries
      /\ e \in Entries \cup {None} /\ s \in States
  BY <1>0 DEF Types, Shapes, Shaped, Offered
<1>b. PICK r : r = [cont[c] EXCEPT !.pc = "chain", !.newest = e]
  OBVIOUS
<1>c. /\ r \in Cont /\ r.pc = "chain" /\ r.stage = cont[c].stage /\ r.newest = e
      /\ r.ent = cont[c].ent /\ r.op = "build" /\ r.who = cont[c].who
  BY <1>a, <1>b DEF Cont
<1>d. (r.notify <=> cont[c].notify) /\ (r.cancelled <=> cont[c].cancelled)
  BY <1>a, <1>b DEF Cont
<1>e. Shaped(r)
  BY <1>a, <1>c DEF Shaped
<1>f. cont' = [cont EXCEPT ![c] = r]
  <2>1. cont' = [cont EXCEPT ![c].pc = "chain", ![c].newest = e]
    BY DEF Replace
  <2> QED
    BY <1>0, <1>b, <2>1 DEF Types
<1>g. cont' \in [Conts -> Cont] /\ Shapes' /\ \A d \in Conts : cont'[d] = IF d = c THEN r ELSE cont[d]
  BY <1>0, <1>c, <1>e, <1>f, ContStep
<1>h. Replies'
  BY <1>0, <1>c, <1>d, <1>g, RepliesKept
<1>i. PICK b \in Entries : b = cont[c].ent
  BY <1>a
<1>j. b # e /\ (est[b] = "BUILDING" => b \in Reachable) /\ e \notin Reachable
      /\ \A d \in Conts : cont[d].op = "update" => cont[d].ent \in Entries /\ cont[d].ent # e
  <2>1. e # None => ~Known(e)
    BY DEF Offered
  <2>2. e \notin Reachable /\ \A d \in Conts : cont[d].ent = e => e = None
    BY <2>1 DEF Known, Reachable
  <2>3. est[b] = "BUILDING" => \A d \in Conts : ~Own(d, b)
    BY <1>0 DEF Private
  <2>4. est[b] = "BUILDING" => b \in Reachable
    BY <1>0, <2>3 DEF Store, Live
  <2>5. b # e
    BY <1>i, <2>2, RouteAssumption
  <2>6. \A d \in Conts : cont[d].op = "update" => cont[d].ent \in Entries
    BY <1>0 DEF Shapes, Shaped
  <2> QED
    BY <2>2, <2>4, <2>5, <2>6, RouteAssumption
<1>k. ASSUME NEW x \in Entries, Types'
      PROVE  Count(x, inc) - Count(x, dec) = Gain(x)
  <2>1. Used(x)' = Used(x) /\ Count(x, lost)' = Count(x, lost)
    BY UsedSame, LostSame
  <2>2. PICK o \in Nat : o = Is(cont[c].newest, x)
    BY IsNat
  <2>3. PICK h \in Nat : h = Is(b, x)
    BY IsNat
  <2>4. PICK n \in Nat : n = Is(e, x)
    BY IsNat
  <2>5. Kept(x)' = Kept(x) + (h - h) + (n - o)
    BY <1>0, <1>c, <1>g, <1>i, <2>2, <2>3, <2>4, KeptStep
  <2>6. Used(x) \in Nat /\ Kept(x) \in Nat /\ Count(x, lost) \in Nat
    BY <1>0, CountsAre DEF Counts
  <2>7. Kept(x)' = Kept(x) + (n - o)
    BY <2>5, <2>6
  <2>8. Gain(x) = n - o
    BY <2>1, <2>6, <2>7, GainIs
  <2>9. Count(x, inc) - Count(x, dec) = n - o
    BY <2>2, <2>4 DEF Paid
  <2> QED
    BY <2>8, <2>9
<1>l. \A x \in Entries : inc \in Seq(Entries \cup {None}) /\ Count(x, inc) \in Nat /\ Count(x, dec) \in Nat
  BY DEF Paid
<1>m. Old(r.ent, e) /\ Old(r.newest, e)
  BY <1>c DEF Old, Known
<1>n. e \notin Fresh \/ Spare
  BY DEF Offered
<1>1. CASE e # None /\ s = "AVAIL"
  <2>a. e \in Entries /\ ~Known(e) /\ (\A d \in Conts \ {c} : ~Own(d, e)) /\ \A x \in Entries \ {e} : ~Own(c, x)
    BY <1>1, <1>a DEF Offered
  <2>b. PICK plus : plus = inc \o <<e>>
    OBVIOUS
  <2>c. Locked(e, "AVAIL") /\ refs' = LockedCount(e, plus, dec)
    BY <1>1, <2>b DEF Replace, Adds
  <2>d. "AVAIL" \in Live /\ "AVAIL" \in States
    BY DEF Live, States
  <2>e. /\ cache' = e /\ todo' = <<>> /\ todo' \in Seq(Entries) /\ est' \in [Entries -> States]
        /\ \A x \in Entries : est'[x] = IF x = e THEN "AVAIL" ELSE IF x \in Reachable THEN "DELETED" ELSE est[x]
    BY <1>0, <2>a, <2>c, <2>d, LockedIs
  <2>f. ASSUME NEW x \in Entries
        PROVE  Count(x, plus) = Count(x, inc) + Is(e, x) /\ Count(x, plus) \in Nat /\ Is(e, x) \in Nat
    <3>1. <<e>> \in Seq(Entries \cup {None}) /\ Count(x, <<e>>) = Is(e, x) /\ Is(e, x) \in Nat
      BY <1>a, CountOne, IsNat
    <3>2. Count(x, inc \o <<e>>) = Count(x, inc) + Count(x, <<e>>)
      BY <1>l, <3>1, CountConcat
    <3> QED
      BY <1>l, <2>b, <3>1, <3>2
  <2>1. Types'
    <3>1. refs' \in [Entries -> Int]
      BY <1>0, <1>l, <2>c, <2>f, LockedInt
    <3> QED
      BY <1>0, <1>g, <2>a, <2>e, <3>1 DEF Types
  <2>2. RefsExact'
    <3>1. ASSUME NEW x \in Entries
          PROVE  Count(x, plus) - Count(x, dec) = Gain(x) + (IF e = x /\ e \notin Reachable THEN 1 ELSE 0)
      <4>1. Is(e, x) = IF e = x /\ e \notin Reachable THEN 1 ELSE 0
        BY <1>j DEF Is
      <4>2. Count(x, inc) - Count(x, dec) = Gain(x) /\ Count(x, inc) \in Nat /\ Count(x, dec) \in Nat
        BY <1>k, <1>l, <2>1
      <4>3. Count(x, plus) - Count(x, dec) = Gain(x) + Is(e, x)
        BY <2>f, <4>2
      <4> QED
        BY <4>1, <4>3
    <3> QED
      BY <1>0, <1>l, <2>1, <2>a, <2>c, <2>e, <2>f, <3>1, RefsLocked
  <2>3. Builds'
    <3>1. est'[b] # "BUILDING" /\ \A x \in Entries : est'[x] = "BUILDING" => est[x] = "BUILDING"
      BY <1>j, <2>e
    <3> QED
      BY <1>0, <1>c, <1>g, <1>i, <3>1, BuildsEnded
  <2>4. Updates'
    BY <1>0, <1>c, <1>g, <1>j, <2>a, <2>c, <2>d, UpdatesLocked
  <2>5. Served(e)
    BY DEF Served
  <2>6. /\ \A k \in Callers : (tc'[k] = tc[k] \/ tc'[k] = e) /\ (got'[k] = got[k] \/ got'[k] = e)
        /\ lost' = lost /\ r.pc \notin {"cache", "remote", "replace"}
    BY <1>c, <2>5 DEF Served
  <2> QED
    BY <1>c, <1>e, <1>g, <1>h, <1>m, <1>n, <2>1, <2>2, <2>3, <2>4, <2>6, <2>a, <2>c, <2>d, LockedStep
<1>2. CASE ~(e # None /\ s = "AVAIL")
  <2>a. s \in {"BORN", "DELETED"}
    BY <1>2 DEF Offered
  <2>b. /\ cache' = None /\ todo' = <<>>
        /\ est' = [x \in Entries |-> IF x = e THEN s ELSE StateAfter(x, None)]
        /\ refs' = LockedCount(None, inc, dec)
    BY <1>2 DEF Replace, Adds
  <2>c. /\ est' \in [Entries -> States] /\ cache' \in Entries \cup {None} /\ todo' \in Seq(Entries) /\ Reachable' = {}
        /\ \A x \in Entries : est'[x] = IF x = e THEN s ELSE IF x \in Reachable THEN "DELETED" ELSE est[x]
    BY <1>0, <1>a, <2>b, EmptiedIs
  <2>1. Types'
    <3>1. refs' \in [Entries -> Int]
      BY <1>0, <1>l, <2>b, LockedInt
    <3> QED
      BY <1>0, <1>g, <2>c, <3>1 DEF Types
  <2>2. RefsExact'
    <3>1. ASSUME NEW x \in Entries
          PROVE  Count(x, inc) - Count(x, dec) = Gain(x) + (IF None = x /\ None \notin Reachable THEN 1 ELSE 0)
      <4>1. (IF None = x /\ None \notin Reachable THEN 1 ELSE 0) = 0
        BY RouteAssumption
      <4>2. Count(x, inc) - Count(x, dec) = Gain(x) /\ Count(x, inc) \in Nat /\ Count(x, dec) \in Nat
        BY <1>k, <1>l, <2>1
      <4> QED
        BY <4>1, <4>2
    <3> QED
      BY <1>0, <1>l, <2>1, <2>b, <3>1, RefsLocked
  <2>3. Builds'
    <3>1. est'[b] # "BUILDING" /\ \A x \in Entries : est'[x] = "BUILDING" => est[x] = "BUILDING"
      BY <1>j, <2>a, <2>c
    <3> QED
      BY <1>0, <1>c, <1>g, <1>i, <3>1, BuildsEnded
  <2>4. Updates'
    <3>1. \A d \in Conts : cont'[d].op = "update" => cont[d].op = "update"
      BY <1>c, <1>g
    <3>2. \A d \in Conts : cont'[d].op = "update" =>
            est'[cont[d].ent] = est[cont[d].ent] \/ est'[cont[d].ent] = "DELETED"
      BY <1>j, <2>c, <3>1
    <3>3. cache' = None /\ r.op # "update"
      BY <1>c, <2>b
    <3> QED
      BY <1>0, <1>g, <3>2, <3>3, UpdatesKept
  <2>5. Store'
    <3>1. ASSUME NEW d \in Conts, NEW x \in Entries \ {e}, Own(d, x), est[x] \in Live
          PROVE  Own(d, x)'
      <4>1. d # c
        BY <3>1 DEF Offered
      <4> QED
        BY <1>g, <3>1, <4>1 DEF Own
    <3> QED
      BY <1>0, <1>a, <2>a, <2>b, <3>1, StoreEmptied
  <2>6. Moves(c, r, e)
    <3>1. Old(e, e)
      BY DEF Old
    <3> QED
      BY <1>g, <1>m, <2>c, <3>1, MovesBy
  <2>7. \A d \in Conts \ {c} : ~Own(d, e)
    BY DEF Offered, Own
  <2>8. Private'
    <3>1. ASSUME NEW d \in Conts \ {c}, NEW x \in Entries, Own(d, x)
          PROVE  est'[x] = est[x]
      <4>1. x \notin Reachable /\ x # e
        BY <1>0, <2>7, <3>1 DEF Private, Known
      <4> QED
        BY <2>c, <4>1
    <3> QED
      BY <1>0, <1>c, <2>6, <2>7, <3>1, PrivateStep
  <2>9. Reserved'
    BY <1>0, <1>c, <1>n, <2>1, <2>2, <2>6, ReservedStep
  <2> QED
    BY <1>g, <1>h, <2>1, <2>2, <2>3, <2>4, <2>5, <2>8, <2>9 DEF RouteInv
<1> QED
  BY <1>1, <1>2

\* The last answer of a lookup that others may wait for.
LEMMA StepFetchedBuilding ==
  ASSUME RouteInv, NEW c \in Conts, NEW v \in Results(c), FetchedBuilding(c, v)
  PROVE  RouteInv'
<1>0. Types /\ Shapes /\ Private
  BY DEF RouteInv
<1>a. /\ cont[c].pc = "remote" /\ cont[c].op = "build"
      /\ UNCHANGED <<kind, ask, got, pendq, lost, tc>>
  BY DEF FetchedBuilding, Remote
<1>b. PICK e : e = v.e
  OBVIOUS
<1>c. PICK s : s = v.s
  OBVIOUS
<1>d. PICK inc : inc = AnswerInc(c, v)
  OBVIOUS
<1>e. PICK dec : dec = AnswerDec(c, v)
  OBVIOUS
<1>f. Replace(c, e, s, inc, dec)
  BY <1>b, <1>c, <1>d, <1>e DEF FetchedBuilding
<1>g. /\ e \in Entries \cup {None} /\ s \in States
      /\ (e = None /\ s = "DELETED") \/ (e # None /\ s \in {"AVAIL", "BORN"})
  BY <1>0, <1>a, <1>b, <1>c, ResultIs
<1>1. Offered(c, e, s)
  <2>1. \A x \in Entries : Own(c, x) => est[x] \notin Live
    BY <1>0, <1>a DEF Private, Live
  <2>2. CASE e = None
    <3>1. e \notin Fresh
      BY <2>2, RouteAssumption DEF Fresh
    <3> QED
      BY <1>g, <2>1, <2>2, <3>1 DEF Offered
  <2>3. CASE e # None
    <3>1. e \in Entries
      BY <1>g, <2>3
    <3>2. /\ ~Known(e) /\ (\A d \in Conts : Own(d, e) => d = c) /\ (e \notin Fresh \/ Spare)
          /\ \A x \in Entries \ {e} : ~Own(c, x)
      BY <1>a, <1>b, <3>1, FetchedIs
    <3> QED
      BY <1>g, <2>1, <2>3, <3>2 DEF Offered
  <2> QED
    BY <2>2, <2>3
<1>2. Paid(c, e, inc, dec)
  BY <1>0, <1>a, <1>b, <1>d, <1>e, AnswerCounts DEF Paid
<1> QED
  BY <1>1, <1>2, <1>a, <1>f, ReplaceStep

\* The builder tries the lock again.
LEMMA StepReplaceAgain ==
  ASSUME RouteInv, NEW c \in Conts, ReplaceAgain(c)
  PROVE  RouteInv'
<1>0. Types /\ Shapes /\ Private
  BY DEF RouteInv
<1>a. cont[c].pc = "replace" /\ cont[c].op = "build" /\ UNCHANGED <<kind, ask, got, pendq, lost, tc>>
  BY <1>0 DEF ReplaceAgain, Shapes, Shaped
<1>b. PICK e \in Entries \cup {None} : e = cont[c].newest
  BY <1>0 DEF Types, Cont
<1>c. PICK s : s = IF e = None THEN "DELETED" ELSE est[e]
  OBVIOUS
<1>d. PICK inc : inc = <<>>
  OBVIOUS
<1>f. Replace(c, e, s, inc, inc)
  BY <1>b, <1>c, <1>d DEF ReplaceAgain
<1>1. Offered(c, e, s)
  <2>1. \A x \in Entries \ {e} : ~Own(c, x)
    BY <1>b DEF Own
  <2>2. CASE e = None
    <3>1. e \notin Fresh /\ s = "DELETED" /\ s \in States
      BY <1>c, <2>2, RouteAssumption DEF Fresh, States
    <3> QED
      BY <2>1, <2>2, <3>1 DEF Offered
  <2>3. CASE e # None
    <3>1. e \in Entries /\ Own(c, e)
      BY <1>a, <1>b, <2>3 DEF Own
    <3>2. ~Known(e) /\ (\A d \in Conts : Own(d, e) => d = c) /\ est[e] \in {"BORN", "AVAIL"}
      BY <1>0, <3>1 DEF Private
    <3>3. e \notin Fresh
      BY <1>0, <3>1, FreshIsUnknown
    <3>4. s = est[e] /\ s \in States
      BY <1>c, <2>3, <3>2 DEF States
    <3> QED
      BY <2>1, <2>3, <3>1, <3>2, <3>3, <3>4 DEF Offered
  <2> QED
    BY <2>2, <2>3
<1>2. Paid(c, e, inc, inc)
  <2> SUFFICES ASSUME NEW x \in Entries
               PROVE  /\ inc \in Seq(Entries \cup {None}) /\ Count(x, inc) \in Nat
                      /\ Count(x, inc) - Count(x, inc) = Is(e, x) - Is(cont[c].newest, x)
    BY DEF Paid
  <2>1. Count(x, inc) = 0 /\ inc \in Seq(Entries \cup {None})
    BY <1>d, CountEmpty
  <2>2. Is(e, x) \in Nat /\ Is(cont[c].newest, x) = Is(e, x)
    BY <1>b, IsNat
  <2> QED
    BY <2>1, <2>2
<1> QED
  BY <1>1, <1>2, <1>a, <1>f, ReplaceStep

(***************************************************************************)
(* The invariant                                                           *)
(***************************************************************************)

\* The invariant holds at the start.
LEMMA RouteInit == Init => RouteInv
<1> SUFFICES ASSUME Init PROVE RouteInv
  OBVIOUS
<1>1. /\ kind \in Kinds
      /\ ask = [k \in Callers |-> "idle"] /\ got = [k \in Callers |-> None] /\ tc = [k \in Callers |-> None]
      /\ cont = [c \in Conts |-> FreeCont]
      /\ est = [e \in Entries |-> "DELETED"] /\ pendq = [e \in Entries |-> <<>>] /\ refs = [e \in Entries |-> 0]
      /\ lost = <<>> /\ cache = None /\ todo = <<>>
  BY DEF Init
<1>2. \A c \in Conts : cont[c] = FreeCont
  BY <1>1
<1>3. Types
  <2>1. cont \in [Conts -> Cont]
    BY <1>1, FreeShape
  <2>2. lost \in Seq(Entries) /\ todo \in Seq(Entries) /\ Len(lost) = 0
    BY <1>1
  <2>3. pendq \in [Entries -> Seq(Conts)] /\ refs \in [Entries -> Int] /\ est \in [Entries -> States]
    BY <1>1 DEF States
  <2> QED
    BY <1>1, <2>1, <2>2, <2>3, RouteAssumption DEF Types
<1>4. Shapes
  BY <1>2, FreeShape DEF Shapes
<1>5. Replies
  BY <1>1, <1>2, FreeShape DEF Replies, Expects
<1>6. \A c \in Conts : \A e : ~Own(c, e)
  BY <1>2, FreeShape DEF Own
<1>7. Store
  BY <1>1 DEF Store, Live
<1>8. Private
  BY <1>6 DEF Private
<1>9. \A c \in Conts : cont[c].op = "none" /\ cont[c].pc = "free"
  BY <1>2, FreeShape
<1>10. Updates
  BY <1>1, <1>9 DEF Updates, OneUpdate, UpdatingOwned
<1>11. Builds
  BY <1>1, <1>9 DEF Builds, Building
<1>12. RefsExact
  <2> SUFFICES ASSUME NEW e \in Entries PROVE refs[e] = Holders(e) + Count(e, lost)
    BY DEF RefsExact
  <2>1. ~Known(e) /\ \A d \in Conts : cont[d].newest # e
    BY <1>1, <1>2, FreeShape, RouteAssumption DEF Known, Reachable, Range
  <2>2. Holders(e) = 0
    BY <1>3, <2>1, Unpointed
  <2>3. Count(e, lost) = 0 /\ refs[e] = 0
    BY <1>1, CountEmpty
  <2> QED
    BY <2>2, <2>3
<1>13. Reserved
  <2>1. Waiting = {}
    BY <1>9 DEF Waiting
  <2> QED
    BY <2>1, PoolFinite, FS_EmptySet DEF Reserved
<1> QED
  BY <1>3, <1>4, <1>5, <1>7, <1>8, <1>10, <1>11, <1>12, <1>13 DEF RouteInv

\* Every way a lookup can start.
LEMMA RouteGet ==
  ASSUME RouteInv, NEW k \in Callers, Get(k)
  PROVE  RouteInv'
<1>1. CASE GetFromThreadCache(k)
  BY <1>1, StepGetFromThreadCache
<1>2. CASE \E exp \in Expiries, async \in AsyncModes : GetHit(k, exp, async)
  BY <1>2, StepGetHit
<1>3. ASSUME NEW c \in Conts, GetContended(k, c) PROVE RouteInv'
  BY <1>3, StepGetContended
<1>4. ASSUME NEW c \in Conts, NEW f \in Fetch, GetDirect(k, c, f) PROVE RouteInv'
  BY <1>4, StepGetDirect
<1>5. ASSUME NEW c \in Conts, NEW exp \in Expiries, NEW async \in AsyncModes, GetBuild(k, c, exp, async)
      PROVE  RouteInv'
  BY <1>5, StepGetBuild
<1>6. ASSUME NEW c \in Conts, NEW exp \in Expiries, NEW async \in AsyncModes, GetUpdate(k, c, exp, async)
      PROVE  RouteInv'
  BY <1>6, StepGetUpdate
<1>7. ASSUME NEW c \in Conts, NEW exp \in Expiries, NEW async \in AsyncModes, GetWait(k, c, exp, async)
      PROVE  RouteInv'
  BY <1>7, StepGetWait
<1> QED
  BY <1>1, <1>2, <1>3, <1>4, <1>5, <1>6, <1>7 DEF Get

\* What callers do with their entries.
LEMMA RouteUser ==
  ASSUME RouteInv, NEW k \in Callers, User(k)
  PROVE  RouteInv'
BY StepCancel, StepRelease, StepMarkDirty DEF User

\* Every outcome of the second try for the lock.
LEMMA RouteLookAgain ==
  ASSUME RouteInv, NEW c \in Conts, LookAgain(c)
  PROVE  RouteInv'
<1>1. ASSUME NEW exp \in Expiries, NEW async \in AsyncModes, NEW due \in BOOLEAN, AgainHit(c, exp, async, due)
      PROVE  RouteInv'
  BY <1>1, StepAgainHit
<1>2. ASSUME NEW exp \in Expiries, NEW async \in AsyncModes, AgainBuild(c, exp, async) PROVE RouteInv'
  BY <1>2, StepAgainBuild
<1>3. ASSUME NEW exp \in Expiries, NEW async \in AsyncModes, AgainUpdate(c, exp, async) PROVE RouteInv'
  BY <1>3, StepAgainUpdate
<1>4. ASSUME NEW exp \in Expiries, NEW async \in AsyncModes, AgainWait(c, exp, async) PROVE RouteInv'
  BY <1>4, StepAgainWait
<1> QED
  BY <1>1, <1>2, <1>3, <1>4 DEF LookAgain

\* Every outcome of the last answer.
LEMMA RouteFetched ==
  ASSUME RouteInv, NEW c \in Conts, Fetched(c)
  PROVE  RouteInv'
<1>1. ASSUME NEW v \in Results(c), NEW queue \in BOOLEAN, FetchedSingle(c, v, queue) PROVE RouteInv'
  BY <1>1, StepFetchedSingle
<1>2. ASSUME NEW v \in Results(c), FetchedBuilding(c, v) PROVE RouteInv'
  BY <1>2, StepFetchedBuilding
<1>3. ASSUME NEW v \in Results(c), FetchedContended(c, v) PROVE RouteInv'
  BY <1>3, StepFetchedContended
<1>4. CASE FetchMore(c)
  BY <1>4, StepFetchMore
<1>5. CASE BinlogRetry(c)
  BY <1>5, StepBinlogRetry
<1> QED
  BY <1>1, <1>2, <1>3, <1>4, <1>5 DEF Fetched

\* Everything a continuation does.
LEMMA RouteRun ==
  ASSUME RouteInv, NEW c \in Conts, Run(c)
  PROVE  RouteInv'
BY RouteLookAgain, RouteFetched, StepReplaceAgain, StepChainSchedule, StepChainDirect, StepChainEnd,
   StepNotifyEvent, StepHostnameDone DEF Run, Chain

\* What the cleaners do.
LEMMA RouteClean ==
  ASSUME RouteInv, Clean
  PROVE  RouteInv'
BY StepGcExpired, StepWash, StepCleanThreadCache DEF Clean

\* Stuttering.
LEMMA RouteStay ==
  ASSUME RouteInv, UNCHANGED vars
  PROVE  RouteInv'
<1>0. Types /\ Shapes /\ Replies /\ Store /\ Private /\ Updates /\ Builds /\ RefsExact /\ Reserved
  BY DEF RouteInv
<1>1. /\ kind' = kind /\ ask' = ask /\ got' = got /\ cont' = cont /\ est' = est /\ pendq' = pendq
      /\ refs' = refs /\ lost' = lost /\ cache' = cache /\ todo' = todo /\ tc' = tc
  BY DEF vars
<1>2. Types' /\ Shapes'
  BY <1>0, <1>1 DEF Types, Shapes
<1>3. Replies'
  BY <1>0, <1>1 DEF Replies, Expects, Told
<1>4. Store' /\ Updates'
  BY <1>0, <1>1 DEF Store, Updates, OneUpdate, UpdatingOwned, Reachable, Own
<1>5. RefsExact'
  BY <1>0, <1>1, <1>2, RefsSame
<1>6. Old(None, None) /\ Reachable' = Reachable
  BY <1>1 DEF Old, Reachable
<1> QED
  BY <1>1, <1>2, <1>3, <1>4, <1>5, <1>6, StillStep

\* Every step keeps the invariant.
LEMMA RouteNext == RouteInv /\ [Next]_vars => RouteInv'
<1> SUFFICES ASSUME RouteInv, [Next]_vars PROVE RouteInv'
  OBVIOUS
<1>1. ASSUME NEW k \in Callers, Get(k) PROVE RouteInv'
  BY <1>1, RouteGet
<1>2. ASSUME NEW k \in Callers, User(k) PROVE RouteInv'
  BY <1>2, RouteUser
<1>3. ASSUME NEW c \in Conts, Run(c) PROVE RouteInv'
  BY <1>3, RouteRun
<1>4. CASE Clean
  BY <1>4, RouteClean
<1>5. CASE UNCHANGED vars
  BY <1>5, RouteStay
<1> QED
  BY <1>1, <1>2, <1>3, <1>4, <1>5 DEF Next

\* Every handler keeps what ties the caches, the continuations, the queues and
\* the reference counts together.
THEOREM RouteInvariant == Spec => []RouteInv
BY RouteInit, RouteNext, PTL DEF Spec

(***************************************************************************)
(* What follows                                                            *)
(***************************************************************************)

\* What follows from the invariant: the types,
LEMMA InvTypes ==
  ASSUME RouteInv
  PROVE  TypeOK
<1>0. Types /\ RefsExact
  BY DEF RouteInv
<1>1. \A e \in Entries : refs[e] \in Nat
  <2> SUFFICES ASSUME NEW e \in Entries PROVE refs[e] \in Nat
    OBVIOUS
  <2>1. Holders(e) = Inside(e) + Outside(e) /\ Inside(e) \in Nat /\ Outside(e) \in Nat /\ Count(e, lost) \in Nat
    BY <1>0, CountsAre DEF Counts
  <2>2. refs[e] = Holders(e) + Count(e, lost)
    BY <1>0 DEF RefsExact
  <2> QED
    BY <2>1, <2>2
<1> QED
  BY <1>0, <1>1 DEF Types, TypeOK

\* the entries of the cache,
LEMMA InvLive ==
  ASSUME RouteInv
  PROVE  CacheHoldsLive
<1>0. Types /\ Store
  BY DEF RouteInv
<1>1. \A e \in Reachable : est[e] \in {"BUILDING", "AVAIL", "DIRTY", "UPDATING"}
  BY <1>0, ReachableIs, RouteAssumption DEF Store, Live
<1> QED
  BY <1>0, <1>1 DEF CacheHoldsLive, Store

\* the maps of the threads,
LEMMA InvThread ==
  ASSUME RouteInv
  PROVE  ThreadCacheCurrent
<1> SUFFICES ASSUME NEW k \in Callers, tc[k] # None, est[tc[k]] \in {"AVAIL", "UPDATING"}
             PROVE  tc[k] \in Reachable
  BY DEF ThreadCacheCurrent
<1>0. Types /\ Store /\ Private
  BY DEF RouteInv
<1>1. PICK e \in Entries : e = tc[k]
  BY <1>0 DEF Types
<1>2. Known(e) /\ est[e] \in Live
  BY <1>1 DEF Known, Live
<1>3. \A c \in Conts : ~Own(c, e)
  BY <1>0, <1>2 DEF Private
<1> QED
  BY <1>0, <1>1, <1>2, <1>3 DEF Store

\* Who builds an entry is fetching it or telling those who wait for it.
LEMMA BuilderIs ==
  ASSUME Types, Shapes, NEW d \in Conts, cont[d].op = "build"
  PROVE  cont[d].pc \in {"remote", "replace", "chain"}
<1>1. Shaped(cont[d]) /\ cont[d] \in Cont
  BY DEF Shapes, Types
<1>2. cont[d].pc \notin {"free", "cache", "queued", "notify", "hostname", "lost"}
  BY <1>1 DEF Shaped
<1> QED
  BY <1>1, <1>2 DEF Cont

\* the owner of a queue,
LEMMA InvWaiters ==
  ASSUME RouteInv
  PROVE  WaitersOwned
<1>0. Types /\ Shapes /\ Builds
  BY DEF RouteInv
<1>1. ASSUME NEW c \in Conts, cont[c].pc = "queued"
      PROVE  /\ Cardinality(Builders(cont[c].ent) \cup Poppers(cont[c].ent)) = 1
             /\ \E i \in DOMAIN pendq[cont[c].ent] : pendq[cont[c].ent][i] = c
  <2>1. PICK e \in Entries : e = cont[c].ent
    BY <1>0, <1>1 DEF Shapes, Shaped
  <2>2. \E i \in DOMAIN pendq[e] : pendq[e][i] = c
    BY <1>0, <1>1, <2>1 DEF Builds
  <2>3. pendq[e] # <<>>
    BY <2>2
  <2>4. PICK d \in Conts : Building(d, e)
    BY <1>0, <2>3 DEF Builds
  <2>5. \A x \in Conts : Building(x, e) => x = d /\ cont[x].pc \in {"remote", "replace", "chain"}
    BY <1>0, <2>4, BuilderIs DEF Builds, Building
  <2>6. Builders(e) \cup Poppers(e) = {d}
    BY <2>4, <2>5 DEF Builders, Poppers, Building
  <2>7. Cardinality({d}) = 1
    BY FS_Singleton
  <2> QED
    BY <2>1, <2>2, <2>6, <2>7
<1>2. cache # None /\ est[cache] = "BUILDING" => Builders(cache) # {}
  <2> SUFFICES ASSUME cache # None, est[cache] = "BUILDING" PROVE Builders(cache) # {}
    OBVIOUS
  <2>1. cache \in Entries
    BY <1>0 DEF Types
  <2>2. PICK d \in Conts : Building(d, cache) /\ cont[d].pc \in {"remote", "replace"}
    BY <1>0, <2>1 DEF Builds
  <2> QED
    BY <2>2 DEF Builders, Building
<1> QED
  BY <1>1, <1>2 DEF WaitersOwned

\* and the callbacks.
LEMMA InvReply ==
  ASSUME RouteInv
  PROVE  OneReply
<1>0. Replies
  BY DEF RouteInv
<1> SUFFICES ASSUME NEW k \in Callers
             PROVE  Cardinality({c \in Active : cont[c].who = k /\ Told(c)}) = IF ask[k] = "waiting" THEN 1 ELSE 0
  BY DEF OneReply
<1> DEFINE S == {c \in Active : cont[c].who = k /\ Told(c)}
<1>1. \A c : c \in S <=> c \in Conts /\ Expects(c, k)
  BY DEF Active, Expects
<1> HIDE DEF S
<1>2. CASE ask[k] = "waiting"
  <2>1. PICK d \in Conts : Expects(d, k)
    BY <1>0, <1>2 DEF Replies
  <2>2. \A c \in Conts : Expects(c, k) => c = d
    BY <1>0, <2>1 DEF Replies
  <2>3. S = {d}
    BY <1>1, <2>1, <2>2
  <2>4. Cardinality(S) = 1
    BY <2>3, FS_Singleton
  <2> QED
    BY <1>2, <2>4 DEF S
<1>3. CASE ask[k] # "waiting"
  <2>1. S = {}
    BY <1>0, <1>1, <1>3 DEF Replies
  <2>2. Cardinality(S) = 0
    BY <2>1, FS_EmptySet
  <2> QED
    BY <1>3, <2>2 DEF S
<1> QED
  BY <1>2, <1>3

\* Every value a variable may take: pointers are NULL or point to an entry,
\* reference counts never go below zero, whatever order the handlers run in.
THEOREM RouteTypes == Spec => []TypeOK
<1>1. RouteInv => TypeOK
  BY InvTypes
<1> QED
  BY <1>1, RouteInvariant, PTL

\* add_table_entry(), gc and wash: no lookup ever finds a deleted entry, or one
\* that was never filled, in the global cache or in the todo list.
THEOREM CacheIsLive == Spec => []CacheHoldsLive
<1>1. RouteInv => CacheHoldsLive
  BY InvLive
<1> QED
  BY <1>1, RouteInvariant, PTL

\* The map of a thread serves an entry without the lock only while the global
\* cache holds it or is about to.
THEOREM ThreadMapIsCurrent == Spec => []ThreadCacheCurrent
<1>1. RouteInv => ThreadCacheCurrent
  BY InvThread
<1> QED
  BY <1>1, RouteInvariant, PTL

\* Whoever is in the pending queue of a building entry has exactly one
\* continuation that will pop it, even when the entry was washed or replaced.
THEOREM WaitersHaveOwner == Spec => []WaitersOwned
<1>1. RouteInv => WaitersOwned
  BY InvWaiters
<1> QED
  BY <1>1, RouteInvariant, PTL

\* An entry of the cache that is UPDATING has a continuation that replaces it
\* or sets it back to DIRTY.
THEOREM UpdateHasOwner == Spec => []UpdatingOwned
<1>1. RouteInv => UpdatingOwned
  BY DEF RouteInv, Updates
<1> QED
  BY <1>1, RouteInvariant, PTL

\* The exchange of DIRTY for UPDATING gives an entry to one continuation only.
THEOREM UpdateIsSingle == Spec => []OneUpdate
<1>1. RouteInv => OneUpdate
  BY DEF RouteInv, Updates
<1> QED
  BY <1>1, RouteInvariant, PTL

\* inc_ref() and dec_ref(): the count of every entry is the number of pointers
\* to it, but for the references that are never given back.
THEOREM ReferencesExact == Spec => []RefsExact
<1>1. RouteInv => RefsExact
  BY DEF RouteInv
<1> QED
  BY <1>1, RouteInvariant, PTL

\* notify_caller(): a waiting caller is called back by one continuation, and
\* nobody is called back who gave up or was served.
THEOREM ReplyIsSingle == Spec => []OneReply
<1>1. RouteInv => OneReply
  BY InvReply
<1> QED
  BY <1>1, RouteInvariant, PTL

(***************************************************************************)
(* An entry that is deleted stays so                                       *)
(***************************************************************************)

\* Memory somebody still refers to is not handed out, and not what a lookup
\* finds.
LEMMA DeadIs ==
  ASSUME RouteInv, NEW x \in Entries, est[x] = "DELETED", refs[x] > 0
  PROVE  /\ x \notin Fresh /\ x # Current
         /\ \A c \in Conts : ~Own(c, x)
<1>0. Types /\ Store /\ Private
  BY DEF RouteInv
<1>1. x \notin Fresh
  <2>1. x \in Fresh => refs[x] = 0
    BY DEF Fresh
  <2> QED
    BY <2>1
<1>2. x # Current
  BY <1>0, CurrentIs, RouteAssumption DEF Live
<1>3. \A c \in Conts : ~Own(c, x)
  BY <1>0 DEF Private
<1> QED
  BY <1>1, <1>2, <1>3

\* The locked section changes the state of displaced entries and of e only.
LEMMA DeadLocked ==
  ASSUME NEW x \in Entries, est[x] = "DELETED", NEW e, NEW s, Locked(e, s), x # e
  PROVE  est'[x] = "DELETED"
BY DEF Locked, StateAfter

\* A lookup that starts revives no deleted entry that is referred to,
LEMMA DeadGet ==
  ASSUME RouteInv, NEW x \in Entries, est[x] = "DELETED", refs[x] > 0, NEW k \in Callers, Get(k)
  PROVE  est'[x] = "DELETED"
<1>0. x \notin Fresh /\ x # Current
  BY DeadIs
<1>1. CASE GetFromThreadCache(k)
  BY <1>1 DEF GetFromThreadCache
<1>2. ASSUME NEW exp \in Expiries, NEW async \in AsyncModes, GetHit(k, exp, async) PROVE est'[x] = "DELETED"
  BY <1>0, <1>2, DeadLocked DEF GetHit
<1>3. ASSUME NEW c \in Conts, GetContended(k, c) PROVE est'[x] = "DELETED"
  BY <1>3 DEF GetContended
<1>4. ASSUME NEW c \in Conts, NEW f \in Fetch, GetDirect(k, c, f) PROVE est'[x] = "DELETED"
  BY <1>4 DEF GetDirect
<1>5. ASSUME NEW c \in Conts, NEW exp \in Expiries, NEW async \in AsyncModes, GetBuild(k, c, exp, async)
      PROVE  est'[x] = "DELETED"
  <2>1. Spare /\ Locked(NewEntry, "BUILDING")
    BY <1>5 DEF GetBuild
  <2>2. NewEntry # x
    BY <1>0, <2>1, SpareIsFresh
  <2> QED
    BY <2>1, <2>2, DeadLocked
<1>6. ASSUME NEW c \in Conts, NEW exp \in Expiries, NEW async \in AsyncModes, GetUpdate(k, c, exp, async)
      PROVE  est'[x] = "DELETED"
  BY <1>0, <1>6, DeadLocked DEF GetUpdate
<1>7. ASSUME NEW c \in Conts, NEW exp \in Expiries, NEW async \in AsyncModes, GetWait(k, c, exp, async)
      PROVE  est'[x] = "DELETED"
  BY <1>0, <1>7, DeadLocked DEF GetWait
<1> QED
  BY <1>1, <1>2, <1>3, <1>4, <1>5, <1>6, <1>7 DEF Get

\* nor does its second try,
LEMMA DeadAgain ==
  ASSUME RouteInv, NEW x \in Entries, est[x] = "DELETED", refs[x] > 0, NEW c \in Conts, LookAgain(c)
  PROVE  est'[x] = "DELETED"
<1>0. x \notin Fresh /\ x # Current
  BY DeadIs
<1>1. ASSUME NEW exp \in Expiries, NEW async \in AsyncModes, NEW due \in BOOLEAN, AgainHit(c, exp, async, due)
      PROVE  est'[x] = "DELETED"
  BY <1>0, <1>1, DeadLocked DEF AgainHit
<1>2. ASSUME NEW exp \in Expiries, NEW async \in AsyncModes, AgainBuild(c, exp, async) PROVE est'[x] = "DELETED"
  <2>1. cont[c].pc = "cache" /\ Locked(NewEntry, "BUILDING")
    BY <1>2 DEF AgainBuild, Again
  <2>2. c \in Waiting /\ Cardinality(Waiting) <= Cardinality(Fresh)
    BY <2>1 DEF Waiting, RouteInv, Reserved
  <2>3. NewEntry # x
    BY <1>0, <2>2, ReservedIsFresh
  <2> QED
    BY <2>1, <2>3, DeadLocked
<1>3. ASSUME NEW exp \in Expiries, NEW async \in AsyncModes, AgainUpdate(c, exp, async) PROVE est'[x] = "DELETED"
  BY <1>0, <1>3, DeadLocked DEF AgainUpdate
<1>4. ASSUME NEW exp \in Expiries, NEW async \in AsyncModes, AgainWait(c, exp, async) PROVE est'[x] = "DELETED"
  BY <1>0, <1>4, DeadLocked DEF AgainWait
<1> QED
  BY <1>1, <1>2, <1>3, <1>4 DEF LookAgain

\* Neither is the entry an answer brings.
LEMMA DeadResult ==
  ASSUME RouteInv, NEW x \in Entries, est[x] = "DELETED", refs[x] > 0, NEW c \in Conts, cont[c].pc = "remote",
         NEW v \in Results(c)
  PROVE  v.e # x
<1>0. Types /\ Shapes
  BY DEF RouteInv
<1>1. x \notin Fresh /\ ~Own(c, x)
  BY DeadIs
<1> QED
  BY <1>0, <1>1, ResultIs, RouteAssumption

\* nor the replacement of a placeholder,
LEMMA DeadReplace ==
  ASSUME NEW x \in Entries, est[x] = "DELETED", NEW c, NEW e, NEW s, NEW inc, NEW dec, e # x,
         Replace(c, e, s, inc, dec)
  PROVE  est'[x] = "DELETED"
BY DEF Replace, Locked, StateAfter

\* nor an answer of the server,
LEMMA DeadFetched ==
  ASSUME RouteInv, NEW x \in Entries, est[x] = "DELETED", refs[x] > 0, NEW c \in Conts, Fetched(c)
  PROVE  est'[x] = "DELETED"
<1>0. Types /\ Shapes /\ x \notin Fresh /\ ~Own(c, x)
  BY DeadIs DEF RouteInv
<1>1. ASSUME NEW v \in Results(c), NEW queue \in BOOLEAN, FetchedSingle(c, v, queue) PROVE est'[x] = "DELETED"
  <2>1. v.e # x
    BY <1>1, DeadResult DEF FetchedSingle, Remote
  <2>2. x \notin Back(c, Adds(v))
    BY DEF Back
  <2>3. est' = [y \in Entries |-> IF y = v.e THEN v.s
                                  ELSE IF y \in Back(c, Adds(v)) THEN "DIRTY"
                                  ELSE IF Adds(v) /\ ~queue THEN StateAfter(y, v.e) ELSE est[y]]
    BY <1>1 DEF FetchedSingle
  <2> QED
    BY <2>1, <2>2, <2>3 DEF StateAfter
<1>2. ASSUME NEW v \in Results(c), FetchedBuilding(c, v) PROVE est'[x] = "DELETED"
  <2>1. v.e # x
    BY <1>2, DeadResult DEF FetchedBuilding, Remote
  <2> QED
    BY <1>2, <2>1, DeadReplace DEF FetchedBuilding
<1>3. ASSUME NEW v \in Results(c), FetchedContended(c, v) PROVE est'[x] = "DELETED"
  <2>1. v.e # x
    BY <1>3, DeadResult DEF FetchedContended, Remote
  <2> QED
    BY <1>3, <2>1 DEF FetchedContended
<1>4. CASE FetchMore(c)
  <2>1. CASE cont[c].stage = "table"
    <3>1. Spare /\ est' = [est EXCEPT ![NewEntry] = "BORN"]
      BY <1>4, <2>1 DEF FetchMore
    <3>2. NewEntry # x
      BY <1>0, <3>1, SpareIsFresh
    <3> QED
      BY <1>0, <3>1, <3>2 DEF Types
  <2>2. CASE cont[c].stage # "table"
    BY <1>4, <2>2 DEF FetchMore
  <2> QED
    BY <2>1, <2>2
<1>5. CASE BinlogRetry(c)
  BY <1>5 DEF BinlogRetry, Retarget
<1> QED
  BY <1>1, <1>2, <1>3, <1>4, <1>5 DEF Fetched

\* nor anything else a continuation does,
LEMMA DeadRun ==
  ASSUME RouteInv, NEW x \in Entries, est[x] = "DELETED", refs[x] > 0, NEW c \in Conts, Run(c)
  PROVE  est'[x] = "DELETED"
<1>1. CASE LookAgain(c)
  BY <1>1, DeadAgain
<1>2. CASE Fetched(c)
  BY <1>2, DeadFetched
<1>3. CASE ReplaceAgain(c)
  <2>1. cont[c].pc = "replace"
    BY <1>3 DEF ReplaceAgain
  <2>2. cont[c].newest # x
    BY <2>1, DeadIs, RouteAssumption DEF Own
  <2> QED
    BY <1>3, <2>2, DeadReplace DEF ReplaceAgain
<1>4. CASE Chain(c)
  BY <1>4 DEF Chain, ChainSchedule, ChainDirect, ChainEnd, CallBack
<1>5. CASE NotifyEvent(c)
  BY <1>5 DEF NotifyEvent, CallBack
<1>6. CASE HostnameDone(c)
  BY <1>6 DEF HostnameDone, Retarget
<1> QED
  BY <1>1, <1>2, <1>3, <1>4, <1>5, <1>6 DEF Run

\* nor any step.
LEMMA DeadStep ==
  ASSUME RouteInv, [Next]_vars, NEW x \in Entries, est[x] = "DELETED", refs[x] > 0
  PROVE  est'[x] = "DELETED"
<1>0. Types
  BY DEF RouteInv
<1>1. ASSUME NEW k \in Callers, Get(k) PROVE est'[x] = "DELETED"
  BY <1>1, DeadGet
<1>2. ASSUME NEW k \in Callers, User(k) PROVE est'[x] = "DELETED"
  <2>1. CASE Cancel(k) \/ Release(k)
    BY <2>1 DEF Cancel, Release
  <2>2. CASE MarkDirty(k)
    BY <1>0, <2>2 DEF MarkDirty, Types
  <2> QED
    BY <1>2, <2>1, <2>2 DEF User
<1>3. ASSUME NEW c \in Conts, Run(c) PROVE est'[x] = "DELETED"
  BY <1>3, DeadRun
<1>4. CASE Clean
  <2>1. CASE GcExpired
    BY <1>0, <2>1 DEF GcExpired, Types
  <2>2. CASE Wash
    BY <2>2 DEF Wash, StateAfter
  <2>3. ASSUME NEW k \in Callers, CleanThreadCache(k) PROVE est'[x] = "DELETED"
    BY <2>3 DEF CleanThreadCache
  <2> QED
    BY <1>4, <2>1, <2>2, <2>3 DEF Clean
<1>5. CASE UNCHANGED vars
  BY <1>5 DEF vars
<1> QED
  BY <1>1, <1>2, <1>3, <1>4, <1>5 DEF Next

\* set_deleting_state(): no handler brings an entry that left the cache back to
\* life while anybody refers to it, so a thread's map gives its copy up.
THEOREM DeletedStaysDeleted == Spec => DeletedIsFinal
<1>1. RouteInv /\ [Next]_vars =>
        [\A e \in Entries : est[e] = "DELETED" /\ refs[e] > 0 => est'[e] = "DELETED"]_vars
  BY DeadStep
<1> QED
  BY <1>1, RouteInvariant, PTL DEF Spec, DeletedIsFinal

=============================================================================
