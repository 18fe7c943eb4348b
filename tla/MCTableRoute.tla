----------------------------- MODULE MCTableRoute -----------------------------
(* The route entry of one table on small instances. *)
EXTENDS TableRoute

\* Entries, callers and continuations are interchangeable.  Which free entry
\* NewEntry is makes no difference: whoever allocates it overwrites it.
Symmetry == Permutations(Entries) \cup Permutations(Callers) \cup Permutations(Conts)
=============================================================================
