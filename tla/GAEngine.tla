------------------------------ MODULE GAEngine ------------------------------
(***************************************************************************)
(* One epoch of the genetic search: Engine.RunEpoch with its worker        *)
(* goroutines, the score buffers that are reused from one generation to    *)
(* the next, elite carry-over and the convergence state.                   *)
(*                                                                         *)
(* A gene stands for the equity path it trades on each window of the plan  *)
(* (in logarithms, so that a score is a difference); the draws of Sample,  *)
(* Crossover and Mutate may give any gene.  An adapter keeps something of  *)
(* the gene it evaluated until Reset, as strategy.Adapter allows           *)
(* (sigmoid_v1 keeps nothing).  Audit samples, the per-generation trace    *)
(* and the mutation step sizes are left out: no later step reads them but  *)
(* Mutate.                                                                 *)
(***************************************************************************)
EXTENDS Integers, Sequences, FiniteSets, FiniteSetsExt

CONSTANTS
    Genes,
    Nav,             \* per gene and window: log NAV before each scored bar, then the final one
    FatalDrop,       \* FatalMDD as a difference of logarithms
    Ruin,            \* stands for the logarithm of a NAV that is not positive
    Fingerprint,     \* per gene
    Weight,          \* per window, WindowWeights
    Lambda,          \* LambdaCons, in the unit of Weight and per doubled deviation
    PopSize, EliteNum, EliteDen,   \* EliteRatio = EliteNum / EliteDen
    MaxGenerations, Patience, MinDelta,
    Workers,         \* one adapter each
    MaxFaults        \* bound: errors of NewAdapter, Reset, Evaluate and validation

ASSUME GAEngineAssumption ==
    /\ PopSize \in Nat /\ PopSize >= 2 /\ MaxGenerations \in Nat \ {0}
    /\ EliteNum \in Nat /\ EliteDen \in Nat \ {0}
    /\ Patience \in Nat /\ MinDelta \in Nat /\ MaxFaults \in Nat
    /\ Workers # {} /\ IsFiniteSet(Workers) /\ Genes # {}
    /\ Weight \in Seq(Int) /\ Lambda \in Int /\ Fingerprint \in [Genes -> Int]
    /\ Nav \in [Genes -> [DOMAIN Weight -> Seq(Int) \ {<<>>}]]

VARIABLES
    phase,      \* where RunEpoch is
    gen,        \* the generation being evaluated or ranked, from 1
    pop,        \* the population
    scores,     \* one buffer for all generations
    job,        \* the next index in the jobs channel
    worker,     \* per worker: the index in hand, 0: none, -1: returned
    used,       \* adapters that still hold a gene
    errs,       \* errCh holds an error
    conv,       \* convergenceState
    progress,   \* the best scores OnProgress has shown
    stats,      \* SearchStats: evaluations, and fatal ones
    result,     \* EpochResult
    cancelled,  \* ctx
    calls,      \* ghost: evaluations made, and fatal ones
    seen,       \* ghost: genes evaluated
    faults

vars == <<phase, gen, pop, scores, job, worker, used, errs, conv, progress, stats, result,
          cancelled, calls, seen, faults>>
main == <<gen, pop, conv, progress, stats, result>>
ghosts == <<calls, seen>>

Idx == 1 .. PopSize
Windows == DOMAIN Weight
---------------------------------------------------------------------------
(* Evaluating one gene *)

Score(v) == [fatal |-> FALSE, nil |-> FALSE, value |-> v]
FatalScore == [fatal |-> TRUE, nil |-> TRUE, value |-> 0]
\* The zero ScoreTotal of a fresh buffer.
NoScore == [fatal |-> FALSE, nil |-> TRUE, value |-> 0]

\* evaluateWindow: fatal when a scored bar opens FatalDrop below an earlier one, or
\* when there is nothing left at the end; else the growth over the scored bars.
\* The final NAV itself is not held against the peak.
EvaluateWindow(g, w) ==
    LET nav == Nav[g][w]
        bars == 1 .. Len(nav) - 1
    IN IF \/ \E i, j \in bars : i < j /\ nav[i] - nav[j] >= FatalDrop
          \/ nav[1] = Ruin \/ nav[Len(nav)] = Ruin
       THEN [kind |-> "fatal", value |-> 0]
       ELSE [kind |-> "normal", value |-> nav[Len(nav)] - nav[1]]

\* Adapter.Evaluate: the windows in order; after a fatal one the rest is skipped.
RawEvaluate(g) ==
    [w \in Windows |-> IF \E v \in Windows : v < w /\ EvaluateWindow(g, v).kind = "fatal"
                       THEN [kind |-> "skipped", value |-> 0] ELSE EvaluateWindow(g, w)]

\* The cascade check of ValidateForIS: one fatal window at most, and exactly the
\* windows after it are skipped.
ValidateForIS(raw) ==
    \A w \in Windows : raw[w].kind = "skipped" <=> \E v \in Windows : v < w /\ raw[v].kind = "fatal"

\* The population standard deviation of at most two values, doubled; of more, the range
\* stands for it (only that unequal windows cost something matters here).
Spread(vs) == IF vs = {} THEN 0 ELSE Max(vs) - Min(vs)

\* AggregateScoreTotal: fatal when a window is; else fixed weights, a penalty for
\* unequal windows, and no renormalisation.
AggregateScoreTotal(raw) ==
    LET ws == {w \in Windows : raw[w].kind = "normal"}
    IN IF \E w \in Windows : raw[w].kind = "fatal" THEN FatalScore
       ELSE Score(MapThenSumSet(LAMBDA w : Weight[w] * raw[w].value, ws)
                  - Lambda * Spread({raw[w].value : w \in ws}))

Fitness == [g \in Genes |-> AggregateScoreTotal(RawEvaluate(g))]
Scores == {Fitness[g] : g \in Genes}

\* adapter.Reset(plan) before every Evaluate.
AfterReset(w) == used \ {w}

\* What Evaluate may return: the gene's own score, or anything on a used adapter.
Evaluations(g, w) == IF w \in AfterReset(w) THEN Scores ELSE {Fitness[g]}
---------------------------------------------------------------------------
(* Ranking *)

\* compareWithFp < 0: CompareFitness, and the fingerprint between two fatal genes.
Beats(a, b) ==
    LET s == scores[a] t == scores[b]
    IN IF s.fatal /\ t.fatal THEN Fingerprint[pop[a]] < Fingerprint[pop[b]]
       ELSE ~s.fatal /\ (t.fatal \/ s.value > t.value)

\* sort.SliceStable.
Before(a, b) == Beats(a, b) \/ (~Beats(b, a) /\ a < b)
Order == [k \in Idx |-> CHOOSE a \in Idx : Cardinality({b \in Idx : Before(b, a)}) = k - 1]

\* calcEliteCount.
NElite ==
    LET ne == (PopSize * EliteNum) \div EliteDen
    IN IF ne < 1 THEN 1 ELSE IF ne > PopSize THEN PopSize ELSE ne

\* newConvergenceState: no best yet counts as a fatal one.
NewConvergence == [noImprove |-> 0, best |-> FatalScore]

\* isImprovement.
IsImprovement(s) == ~s.fatal /\ (conv.best.fatal \/ s.value > conv.best.value + MinDelta)

\* Mutant of Observe: the best is latched at every generation.
ObserveLatches(s) ==
    IF IsImprovement(s) THEN [noImprove |-> 0, best |-> s]
    ELSE [noImprove |-> conv.noImprove + 1, best |-> s]

\* observe, without the mutation ramp.
Observe(s) ==
    IF IsImprovement(s) THEN [noImprove |-> 0, best |-> s]
    ELSE [conv EXCEPT !.noImprove = @ + 1]

ShouldStop(c) == Patience > 0 /\ c.noImprove >= Patience
---------------------------------------------------------------------------
TypeOK ==
    /\ phase \in {"start", "eval", "rank", "breed", "reeval", "done", "failed"}
    /\ gen \in 1 .. MaxGenerations /\ pop \in [Idx -> Genes]
    /\ scores \in [Idx -> Scores \cup {NoScore}]
    /\ job \in 1 .. PopSize + 1 /\ worker \in [Workers -> -1 .. PopSize]
    /\ used \subseteq Workers /\ errs \in BOOLEAN /\ cancelled \in BOOLEAN
    /\ conv \in [noImprove : 0 .. MaxGenerations, best : Scores \cup {FatalScore}]
    /\ progress \in Seq(Scores) /\ Len(progress) <= MaxGenerations
    /\ stats \in [evals : Nat, fatal : Nat] /\ calls \in [evals : Nat, fatal : Nat]
    /\ Len(result) <= 1 /\ seen \subseteq Genes /\ faults \in 0 .. MaxFaults
    \* an index is in the hands of one worker at most
    /\ \A v, w \in Workers : v # w => worker[v] # worker[w] \/ worker[v] \in {-1, 0}

Init ==
    /\ phase = "start" /\ gen = 1 /\ pop \in [Idx -> Genes]
    /\ scores = [i \in Idx |-> NoScore]
    /\ job = 1 /\ worker = [w \in Workers |-> 0] /\ used = {} /\ errs = FALSE
    /\ conv = NewConvergence /\ progress = <<>>
    /\ stats = [evals |-> 0, fatal |-> 0] /\ result = <<>> /\ cancelled = FALSE
    /\ calls = [evals |-> 0, fatal |-> 0] /\ seen = {} /\ faults = 0

\* RunEpoch up to the first pass: the population is sampled (Init), then the
\* adapters are made; an error of NewAdapter returns at once.
Start ==
    /\ phase = "start"
    /\ \/ phase' = "eval" /\ UNCHANGED faults
       \/ faults < MaxFaults /\ faults' = faults + 1 /\ phase' = "failed"
    /\ UNCHANGED <<main, scores, job, worker, used, errs, cancelled, ghosts>>

\* The service's context is cancelled (shutdown).
Cancel ==
    /\ ~cancelled /\ phase \notin {"done", "failed"} /\ cancelled' = TRUE
    /\ UNCHANGED <<phase, main, scores, job, worker, used, errs, ghosts, faults>>
---------------------------------------------------------------------------
(* evaluatePopulation *)

\* Mutant of JobReady: one receive too many.
JobReadyLate == job <= PopSize + 1

\* The jobs channel is closed: receives go on until it is empty.
JobReady == job <= PopSize

\* A worker receives an index; a cancelled context makes it return an error.
Take(w) ==
    /\ phase = "eval" /\ worker[w] = 0
    /\ \/ ~JobReady /\ worker' = [worker EXCEPT ![w] = -1] /\ UNCHANGED <<job, errs>>
       \/ /\ JobReady /\ job' = job + 1
          /\ worker' = [worker EXCEPT ![w] = IF cancelled THEN -1 ELSE job]
          /\ errs' = (errs \/ cancelled)
    /\ UNCHANGED <<phase, main, scores, used, cancelled, ghosts, faults>>

\* Reset, Evaluate, ValidateForIS and AggregateScoreTotal; an error ends the
\* worker and leaves the old score in the buffer.
Evaluate(w) ==
    /\ phase = "eval" /\ worker[w] > 0
    /\ LET i == worker[w] g == pop[i]
       IN \/ /\ ValidateForIS(RawEvaluate(g))
             /\ \E s \in Evaluations(g, w) :
                  /\ scores' = [scores EXCEPT ![i] = s]
                  /\ calls' = [evals |-> calls.evals + 1,
                               fatal |-> calls.fatal + (IF s.fatal THEN 1 ELSE 0)]
             /\ used' = AfterReset(w) \cup {w} /\ seen' = seen \cup {g}
             /\ worker' = [worker EXCEPT ![w] = 0] /\ UNCHANGED <<errs, faults>>
          \/ /\ ValidateForIS(RawEvaluate(g)) => faults < MaxFaults
             /\ faults' = IF ValidateForIS(RawEvaluate(g)) THEN faults + 1 ELSE faults
             /\ errs' = TRUE /\ worker' = [worker EXCEPT ![w] = -1]
             /\ UNCHANGED <<scores, used, ghosts>>
    /\ UNCHANGED <<phase, main, job, cancelled>>

\* The entries this pass has evaluated: all, or all but the carried elites.
Fresh == IF gen = 1 THEN Idx ELSE NElite + 1 .. PopSize

\* Mutant of Counted: carried elites are counted again.
CountedAll == [evals |-> stats.evals + PopSize,
               fatal |-> stats.fatal + Cardinality({i \in Idx : scores[i].fatal})]

\* SearchStats after a pass (countFatal).
Counted == [evals |-> stats.evals + Cardinality(Fresh),
            fatal |-> stats.fatal + Cardinality({i \in Fresh : scores[i].fatal})]

\* wg.Wait, then the first error in errCh, if any, is RunEpoch's.
Join ==
    /\ phase = "eval" /\ \A w \in Workers : worker[w] = -1
    /\ IF errs THEN phase' = "failed" /\ UNCHANGED stats ELSE phase' = "rank" /\ stats' = Counted
    /\ UNCHANGED <<gen, pop, conv, progress, result, scores, job, worker, used, errs,
                   cancelled, ghosts, faults>>
---------------------------------------------------------------------------
(* The generation loop *)

\* Sort, report the best, observe it; stop on stagnation or after the last generation.
Rank ==
    /\ phase = "rank"
    /\ LET s == scores[Order[1]] c == Observe(s)
       IN /\ progress' = Append(progress, s) /\ conv' = c
          /\ phase' = IF ShouldStop(c) \/ gen = MaxGenerations THEN "reeval" ELSE "breed"
    /\ UNCHANGED <<gen, pop, stats, result, scores, job, worker, used, errs, cancelled, ghosts,
                   faults>>

\* Mutant of CarryScores: elite scores copied in place, from left to right.
CarryScoresInPlace ==
    LET f[k \in 0 .. NElite] == IF k = 0 THEN scores
                                ELSE [f[k - 1] EXCEPT ![k] = f[k - 1][Order[k]]]
    IN f[NElite]

\* Elite scores go through scratch buffers; the rest of the buffer stays.
CarryScores == [i \in Idx |-> IF i <= NElite THEN scores[Order[i]] ELSE scores[i]]

\* Crossover and Mutate of two tournament winners: a child may be any gene.
Offspring == [NElite + 1 .. PopSize -> Genes]

\* produceNextGeneration: copies of the elites, then children.  The next pass
\* starts with the workers anew.
Breed ==
    /\ phase = "breed" /\ phase' = "eval" /\ gen' = gen + 1
    /\ \E child \in Offspring :
         pop' = [i \in Idx |-> IF i <= NElite THEN pop[Order[i]] ELSE child[i]]
    /\ scores' = CarryScores
    /\ job' = NElite + 1 /\ worker' = [w \in Workers |-> 0]
    /\ UNCHANGED <<conv, progress, stats, result, used, errs, cancelled, ghosts, faults>>

\* The best gene is evaluated once more for its raw result, on the first adapter.
Reevaluate ==
    /\ phase = "reeval"
    /\ \/ /\ phase' = "done" /\ UNCHANGED faults
          /\ result' = <<[gene |-> pop[Order[1]], score |-> scores[Order[1]],
                          raw |-> RawEvaluate(pop[Order[1]]), generations |-> gen]>>
       \/ faults < MaxFaults /\ faults' = faults + 1 /\ phase' = "failed" /\ UNCHANGED result
    /\ UNCHANGED <<gen, pop, conv, progress, stats, scores, job, worker, used, errs, cancelled,
                   ghosts>>

MainStep == Start \/ Join \/ Rank \/ Breed \/ Reevaluate
WorkerStep(w) == Take(w) \/ Evaluate(w)

Next == Cancel \/ MainStep \/ \E w \in Workers : WorkerStep(w)

\* Goroutines are scheduled, and an evaluation is a bounded loop over the bars.
Fairness == WF_vars(MainStep) /\ \A w \in Workers : WF_vars(WorkerStep(w))

Spec == Init /\ [][Next]_vars /\ Fairness
---------------------------------------------------------------------------
\* The sequential search this engine implements.
S == INSTANCE GASearch WITH
        Scores <- Scores, hist <- progress,
        phase <- CASE phase = "reeval" -> "stop"
                   [] phase \in {"done", "failed"} -> phase
                   [] OTHER -> "search",
        result <- IF phase = "done" THEN <<result[1].score>> ELSE <<>>

\* When a generation is ranked, every score in the reused buffer is the score of
\* the gene beside it, whichever worker evaluated it and whether it was carried
\* over or not (evaluatePopulation, the elite carry-over of RunEpoch).
ScoresMatchGenes ==
    phase \in {"rank", "breed", "reeval", "done"} => \A i \in Idx : scores[i] = Fitness[pop[i]]

\* A result is the best of all genes ever evaluated, its score is that of the raw
\* windows returned with it, it comes from complete passes only, and its SearchStats
\* are the evaluations that were made (RunEpoch).
ResultSound ==
    phase = "done" =>
        /\ result[1].score = AggregateScoreTotal(result[1].raw)
        /\ \A g \in seen : S!NotWorse(result[1].score, Fitness[g])
        /\ ~errs /\ stats = calls

\* The indices this pass has evaluated, as long as nothing failed.
Evaluated == {i \in Fresh : i < job /\ \A w \in Workers : worker[w] # i}

\* Before the workers are joined, and once the pass is complete.
Passing == phase \in {"start", "eval"}
Complete == phase \in {"rank", "breed", "reeval", "done"}

\* One best score per ranked generation.
GenSound ==
    /\ phase \in {"start", "eval", "rank"} => Len(progress) = gen - 1
    /\ phase \in {"breed", "reeval", "done"} => Len(progress) = gen
    /\ phase = "breed" => gen < MaxGenerations

\* Indices are handed out in order, from the first that is not a carried elite; a
\* worker that returned without an error found the channel empty.
JobsSound ==
    /\ phase = "start" => job = 1 /\ \A w \in Workers : worker[w] = 0
    /\ Passing /\ gen > 1 => job > NElite
    /\ \A w \in Workers : Passing /\ worker[w] > 0 => worker[w] \in Fresh /\ worker[w] < job
    /\ \A w \in Workers : Passing /\ ~errs /\ worker[w] = -1 => ~JobReady

\* What the reused buffer holds during a pass: true scores wherever this pass has
\* evaluated, and in the carried elites.
BufferSound ==
    /\ Passing /\ ~errs =>
         \A i \in Idx : i \in Evaluated \/ i \notin Fresh => scores[i] = Fitness[pop[i]]
    /\ Complete => ~errs

CountSound ==
    /\ Passing /\ ~errs =>
         /\ calls.evals = stats.evals + Cardinality(Evaluated)
         /\ calls.fatal = stats.fatal + Cardinality({i \in Evaluated : scores[i].fatal})
    /\ Complete => stats = calls

\* The last reported best is the first of the ranking, then the first carried elite.
BestSound ==
    /\ phase \in {"start", "eval", "rank"} /\ progress # <<>> =>
         scores[1] = progress[Len(progress)]
    /\ phase \in {"breed", "reeval", "done"} => scores[Order[1]] = progress[Len(progress)]

\* No gene that left the population was better than the last reported best.
SeenSound ==
    /\ phase \in {"start", "eval", "rank"} => \A g \in seen :
         \/ \E i \in Idx : pop[i] = g
         \/ progress # <<>> /\ S!NotWorse(progress[Len(progress)], Fitness[g])
    /\ phase \in {"breed", "reeval", "done"} =>
         \A g \in seen : S!NotWorse(progress[Len(progress)], Fitness[g])

\* A convergence state is what the reported scores say: the mark, and how long ago
\* it was set.
ConvFits(c, h) ==
    LET n == Len(h) k == c.noImprove m == S!Mark(h)
    IN /\ c.best = m[n + 1] /\ k <= n
       /\ \A i \in n - k + 1 .. n : ~S!Improves(h[i], m[i])
       /\ k < n => S!Improves(h[n - k], m[n - k])

ConvSound == ConvFits(conv, progress)

\* The inductive invariant of the proofs in GAEngineProofs.
IInv ==
    /\ TypeOK /\ GenSound /\ JobsSound /\ BufferSound /\ CountSound /\ BestSound /\ SeenSound
    /\ ConvSound /\ ScoresMatchGenes /\ ResultSound

\* The parallel engine with its buffers and counters does what the sequential
\* GASearch promises: reported scores never get worse, it stops exactly on
\* stagnation or after MaxGenerations, and it ends (RunEpoch, observe).
ImplementsSearch == S!Spec
============================================================================
