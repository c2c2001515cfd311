---- MODULE MCDataImport ----
(* A month of two bars, the second of them missing at the exchange, and the *)
(* month that has just begun. *)
EXTENDS DataImport

MCMonthOf == [b \in 1 .. 3 |-> IF b <= 2 THEN 1 ELSE 2]
MCRanges == {<<1, 3>>}
====
