---- MODULE MCLiveTick ----
(* The last interval of a month and two of the next; the second instance *)
(* goes live in the last interval, where its Tick meets that of the first. *)
EXTENDS LiveTick

CONSTANTS i1, i2

MCInstances == {i1, i2}
MCLiveFrom == [i \in MCInstances |-> IF i = i1 THEN 1 ELSE MaxTime]
MCCloses == {<<3, 2, 1>>, <<1, 3, 2>>}
MCMonthOf == [t \in 1 .. MaxTime |-> IF t = 1 THEN 1 ELSE 2]
====
