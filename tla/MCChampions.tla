---- MODULE MCChampions ----
(* Three challengers of one tuple, of which one is above the price cap and one
   is a test-mode run; instances of either tuple. *)
EXTENDS Champions, TLC

CONSTANTS c1, c2, c3, t1, t2

MCTupleOf == (c1 :> t1) @@ (c2 :> t1) @@ (c3 :> t1)

Symmetry == Permutations(Instances) \cup Permutations(Requests)
====
