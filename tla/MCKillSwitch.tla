---------------------------- MODULE MCKillSwitch ----------------------------
(* TLC instance of KillSwitch: interchangeable connections and operators. *)
EXTENDS KillSwitch, TLC

Symmetry == Permutations(Conns) \cup Permutations(Operators)
=============================================================================
