------------------------------ MODULE GASearch ------------------------------
(***************************************************************************)
(* What Engine.RunEpoch promises its caller, with no population, no        *)
(* workers and no counters: a search that reports one best score per       *)
(* generation, never a worse one than before, stops after MaxGenerations   *)
(* or once the last Patience generations brought no real improvement, and  *)
(* then returns the last best, or fails with nothing.  GAEngine implements *)
(* it.                                                                     *)
(***************************************************************************)
EXTENDS Integers, Sequences

CONSTANTS
    Scores,          \* ScoreTotal values: [fatal, nil, value]
    MaxGenerations,  \* EngineConfig.MaxGenerations
    Patience,        \* EngineConfig.EarlyStopPatience, 0: never stop early
    MinDelta         \* EngineConfig.EarlyStopMinDelta

VARIABLES phase, hist, result

vars == <<phase, hist, result>>

\* A fatal score is worse than any other.
NotWorse(s, t) == t.fatal \/ (~s.fatal /\ s.value >= t.value)

\* A real improvement on score t: the first non-fatal one, or more than MinDelta.
Improves(s, t) == ~s.fatal /\ (t.fatal \/ s.value > t.value + MinDelta)

Fatal == [fatal |-> TRUE, nil |-> TRUE, value |-> 0]

\* The score the i-th generation is measured against: the last real improvement
\* before it, so that many small steps add up.
Mark(h) == LET m[i \in 1 .. Len(h) + 1] ==
                   IF i = 1 THEN Fatal
                   ELSE IF Improves(h[i - 1], m[i - 1]) THEN h[i - 1] ELSE m[i - 1]
           IN m

Stagnant(h) ==
    /\ Patience > 0 /\ Len(h) >= Patience
    /\ \A i \in Len(h) - Patience + 1 .. Len(h) : ~Improves(h[i], Mark(h)[i])

Init == phase = "search" /\ hist = <<>> /\ result = <<>>

Generation ==
    /\ phase = "search"
    /\ \E s \in Scores :
         /\ hist = <<>> \/ NotWorse(s, hist[Len(hist)])
         /\ hist' = Append(hist, s)
    /\ phase' = IF Stagnant(hist') \/ Len(hist') = MaxGenerations THEN "stop" ELSE "search"
    /\ UNCHANGED result

Finish ==
    /\ phase = "stop" /\ phase' = "done"
    /\ result' = <<hist[Len(hist)]>>
    /\ UNCHANGED hist

Fail ==
    /\ phase \in {"search", "stop"} /\ phase' = "failed"
    /\ UNCHANGED <<hist, result>>

Next == Generation \/ Finish \/ Fail

Spec == Init /\ [][Next]_vars /\ WF_vars(Next)
============================================================================
