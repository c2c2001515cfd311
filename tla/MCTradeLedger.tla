---------------------------- MODULE MCTradeLedger ----------------------------
(* TLC instance of TradeLedger: interchangeable connections. *)
EXTENDS TradeLedger, TLC

Symmetry == Permutations(Conns)
=============================================================================
