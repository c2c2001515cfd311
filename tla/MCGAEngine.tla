---- MODULE MCGAEngine ----
(* Two windows; gene 1 falls too far in the first one, gene 2 ends with nothing in *)
(* the last one, gene 3 falls as far but only at the very end; genes 3, 4 and 5    *)
(* score 0, 10 and 20, one MinDelta apart.                                         *)
EXTENDS GAEngine

MCNav == << << <<10, 11, 6, 12>>, <<10, 13>> >>,  << <<10, 11>>, <<10, 12, 0>> >>,
            << <<10, 16, 10>>, <<10, 10>> >>,  << <<10, 11>>, <<10, 11>> >>,
            << <<10, 14>>, <<10, 12>> >> >>
MCFingerprint == <<2, 1, 3, 3, 4>>
MCWeight == <<4, 6>>
====
