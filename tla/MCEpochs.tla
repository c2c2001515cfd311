---- MODULE MCEpochs ----
(* Two tasks of one tuple, with a DSR from two trials on. *)
EXTENDS Epochs, TLC

CONSTANTS t1, t2, p

MCTupleOf == (t1 :> p) @@ (t2 :> p)
====
