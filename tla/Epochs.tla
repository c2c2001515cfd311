------------------------------- MODULE Epochs -------------------------------
(***************************************************************************)
(* Evolution tasks: internal/saas/epoch/service.go over the repositories   *)
(* task.go, sharpe_bank.go and challenger.go, with the start-up sweep and  *)
(* the shutdown of cmd/saas/main.go.                                       *)
(*                                                                         *)
(* POST /evolution/tasks takes the tuple's in-process lock, inserts the    *)
(* task row and starts a goroutine that runs the pipeline and ends with a  *)
(* status write.  pc[t] is where that goroutine stands; each step is one   *)
(* statement on the database or one computation.  A statement may fail; it *)
(* may also commit and report an error (MaxFaults bounds both).  A crash   *)
(* may come at any point.                                                  *)
(*                                                                         *)
(* Abstractions: the tuple is (strategy_id, pair); the challenger of a     *)
(* task carries the task's name; klines only grow (DataImport), so the bars*)
(* of a load are their number, and so are the plan built from them and its *)
(* two hashes; scores and the OOS, alpha and stress reports are left out,  *)
(* for none of them decides which statement comes next.                    *)
(***************************************************************************)
EXTENDS Naturals, FiniteSets

CONSTANTS
    Tasks, Tuples,
    TupleOf,     \* the (strategy_id, pair) of a task's request
    MinTrials,   \* verification.MinTrialsForDSR
    MinBars,     \* the number of bars from which a crucible window fits
    MaxBars,     \* bound: bars the importers store
    MaxFaults,   \* bound: statements that report an error
    MaxStops,    \* bound: crashes and shutdowns
    NULL

ASSUME EpochsAssumption ==
    /\ TupleOf \in [Tasks -> Tuples]
    /\ MinTrials \in Nat /\ MinBars \in Nat /\ MaxBars \in Nat
    /\ MaxFaults \in Nat /\ MaxStops \in Nat
    /\ NULL \notin Tasks

VARIABLES
    status,    \* evolution_tasks.status, "none" = no row
    pc,        \* the task's request, then its goroutine
    lock,      \* Service.locks: the holder of each tuple's mutex
    bank,      \* sharpe_banks: the challengers with a row
    trials,    \* local to executeEpoch: bankStats.N of the DSR summary, 0 = no DSR
    plan,      \* local: the bars the epoch was run on, as hashed in its plan
    review,    \* local: the verdict of the reproducibility review
    klines,    \* klines: how many bars are stored
    saved,     \* gene_records: the packages
    proc,      \* the process: up, closing (HTTP drains), aborting, down
    late,      \* shutdownCtx has expired
    drained,   \* ghost: the last stop waited for every goroutine
    drifted,   \* ghost: tasks during which a bar was stored after their load
    lost,      \* ghost: tasks one of whose status writes went wrong
    faults, stops

report == <<trials, plan, review>>
world == <<klines, drifted>>
taskVars == <<status, pc, lock, bank, report, saved, lost>>
procVars == <<proc, late, drained, stops>>
vars == <<taskVars, world, procVars, faults>>

Active == {"queued", "running"}
Terminal == {"succeeded", "failed"}
Pipeline == {"start", "load", "engine", "bank", "stats", "review", "save", "markok"}

PackageType ==
    [task : Tasks, bars : MinBars .. MaxBars, trials : Nat, review : {"ok", "mismatch"}]

\* The types of the tables and of the goroutines' locals; a DSR counts between
\* MinTrials and all rows of the bank.
TypeOK ==
    /\ status \in [Tasks -> {"none"} \cup Active \cup Terminal]
    /\ pc \in [Tasks -> {"none", "create", "markfail", "done"} \cup Pipeline]
    /\ lock \in [Tuples -> Tasks \cup {NULL}]
    /\ bank \subseteq Tasks /\ IsFiniteSet(bank) /\ saved \subseteq PackageType
    /\ lost \subseteq Tasks /\ drifted \subseteq Tasks
    /\ klines \in 0 .. MaxBars /\ plan \in [Tasks -> {0} \cup (MinBars .. MaxBars)]
    /\ review \in [Tasks -> {"none", "ok", "mismatch"}]
    /\ trials \in [Tasks -> {0} \cup (MinTrials .. Cardinality(bank))]
    /\ proc \in {"up", "closing", "aborting", "down"}
    /\ late \in BOOLEAN /\ drained \in BOOLEAN
    /\ faults \in 0 .. MaxFaults /\ stops \in 0 .. MaxStops

Init ==
    /\ status = [t \in Tasks |-> "none"]
    /\ pc = [t \in Tasks |-> "none"]
    /\ lock = [p \in Tuples |-> NULL]
    /\ bank = {} /\ saved = {} /\ lost = {} /\ drifted = {}
    /\ klines = 0 /\ plan = [t \in Tasks |-> 0] /\ review = [t \in Tasks |-> "none"]
    /\ trials = [t \in Tasks |-> 0]
    /\ proc = "up" /\ late = FALSE /\ drained = FALSE
    /\ faults = 0 /\ stops = 0

Goto(t, l) == pc' = [pc EXCEPT ![t] = l]

SetStatus(t, s) == status' = [status EXCEPT ![t] = s]

\* defer mu.Unlock and defer wg.Done: the goroutine (or the request) is over,
\* and its locals with it.
Finish(t) ==
    /\ Goto(t, "done")
    /\ lock' = [lock EXCEPT ![TupleOf[t]] = NULL]
    /\ trials' = [trials EXCEPT ![t] = 0]
    /\ plan' = [plan EXCEPT ![t] = 0]
    /\ review' = [review EXCEPT ![t] = "none"]

\* A statement reports an error, whether or not it ran.
Fault == faults < MaxFaults /\ faults' = faults + 1

\* Statements on baseCtx run until Shutdown cancels it.
BaseCtx == proc \in {"up", "closing"}
---------------------------------------------------------------------------
(* The request *)

\* Mutant of CreateLock: the tuple's mutex is not consulted.
CreateNoLock(t) ==
    /\ proc = "up" /\ pc[t] = "none"
    /\ lock' = [lock EXCEPT ![TupleOf[t]] = t]
    /\ Goto(t, "create")
    /\ UNCHANGED <<status, bank, report, saved, lost, world, procVars, faults>>

\* CreateAndRunTask up to TryLock; a held lock is ErrTaskInProgress (409).
CreateLock(t) ==
    /\ proc = "up" /\ pc[t] = "none"
    /\ lock[TupleOf[t]] = NULL
    /\ lock' = [lock EXCEPT ![TupleOf[t]] = t]
    /\ Goto(t, "create")
    /\ UNCHANGED <<status, bank, report, saved, lost, world, procVars, faults>>

\* taskRepo.Create, then wg.Add and go run; an error unlocks and answers 500.
CreateRow(t) ==
    /\ pc[t] = "create" /\ proc # "down"
    /\ \/ SetStatus(t, "queued") /\ Goto(t, "start") /\ UNCHANGED <<lock, report, lost, faults>>
       \/ Fault /\ Finish(t) /\ UNCHANGED <<status, lost>>
       \/ Fault /\ Finish(t) /\ SetStatus(t, "queued") /\ lost' = lost \cup {t}
    /\ UNCHANGED <<bank, saved, world, procVars>>
---------------------------------------------------------------------------
(* The goroutine: run and executeEpoch *)

\* MarkStarted: the UPDATE has no status predicate.
MarkStarted(t) ==
    /\ pc[t] = "start" /\ BaseCtx
    /\ SetStatus(t, "running") /\ Goto(t, "load")
    /\ UNCHANGED <<lock, bank, report, saved, lost, world, procVars, faults>>

\* LoadKLines: every bar of the pair that is stored when the statement runs.
LoadKLines == klines

\* BuildCrucibleWindows finds room for a window.
WindowsFit(bars) == bars >= MinBars

\* BuildEvaluablePlan over the loaded bars; without a window the task fails.
LoadPlan(t) ==
    /\ pc[t] = "load" /\ BaseCtx
    /\ \/ /\ WindowsFit(LoadKLines) /\ plan' = [plan EXCEPT ![t] = LoadKLines]
          /\ Goto(t, "engine")
       \/ ~WindowsFit(LoadKLines) /\ Goto(t, "markfail") /\ UNCHANGED plan
    /\ UNCHANGED <<status, lock, bank, trials, review, saved, lost, world, procVars, faults>>

\* RunEpoch; without window statistics the bank and the DSR are skipped.
RunEngine(t) ==
    /\ pc[t] = "engine" /\ BaseCtx
    /\ \E next \in {"bank", "review"} : Goto(t, next)
    /\ UNCHANGED <<status, lock, bank, report, saved, lost, world, procVars, faults>>

\* sharpeRepo.Add.
BankAdd(t) ==
    /\ pc[t] = "bank" /\ BaseCtx
    /\ bank' = bank \cup {t} /\ Goto(t, "stats")
    /\ UNCHANGED <<status, lock, report, saved, lost, world, procVars, faults>>

\* SharpeBankStats.N: the rows of the tuple.
BankN(t) == Cardinality({u \in bank : TupleOf[u] = TupleOf[t]})

\* Mutant of BankStats: a DSR from the first trial on.
BankStatsNoMin(t) ==
    /\ pc[t] = "stats" /\ BaseCtx
    /\ trials' = [trials EXCEPT ![t] = BankN(t)]
    /\ Goto(t, "review")
    /\ UNCHANGED <<status, lock, bank, plan, review, saved, lost, world, procVars, faults>>

\* sharpeRepo.Stats and ComputeDSR, from MinTrialsForDSR trials on.
BankStats(t) ==
    /\ pc[t] = "stats" /\ BaseCtx
    /\ trials' = [trials EXCEPT ![t] = IF BankN(t) >= MinTrials THEN BankN(t) ELSE 0]
    /\ Goto(t, "review")
    /\ UNCHANGED <<status, lock, bank, plan, review, saved, lost, world, procVars, faults>>

\* RunReview on the plan rebuilt from a second load: the hash gate first, and a
\* deterministic replay reproduces the score.
RunReview(t) == IF LoadKLines = plan[t] THEN "ok" ELSE "mismatch"

\* RunOOS, RunReview, and the alpha and stress reports (which never fail the task).
Verify(t) ==
    /\ pc[t] = "review" /\ BaseCtx
    /\ review' = [review EXCEPT ![t] = RunReview(t)] /\ Goto(t, "save")
    /\ UNCHANGED <<status, lock, bank, trials, plan, saved, lost, world, procVars, faults>>

\* BuildChallengerPackage.
Package(t) == [task |-> t, bars |-> plan[t], trials |-> trials[t], review |-> review[t]]

\* Mutant of SaveChallenger: the status is written before the row.
SaveAfterStatus(t) ==
    /\ pc[t] = "save" /\ BaseCtx
    /\ SetStatus(t, "succeeded") /\ Goto(t, "markok")
    /\ UNCHANGED <<lock, bank, report, saved, lost, world, procVars, faults>>

\* challengerRepo.Save.
SaveChallenger(t) ==
    /\ pc[t] = "save" /\ BaseCtx
    /\ saved' = saved \cup {Package(t)} /\ Goto(t, "markok")
    /\ UNCHANGED <<status, lock, bank, report, lost, world, procVars, faults>>

\* MarkSucceeded ends the epoch.
MarkSucceeded(t) ==
    /\ pc[t] = "markok" /\ BaseCtx
    /\ SetStatus(t, "succeeded") /\ Finish(t)
    /\ UNCHANGED <<bank, saved, lost, world, procVars, faults>>

\* A step returns an error or panics, having done nothing, because baseCtx is
\* cancelled or by itself: everything funnels into markFailed.
StepFails(t) ==
    /\ pc[t] \in Pipeline /\ proc # "down"
    /\ IF BaseCtx THEN Fault ELSE UNCHANGED faults
    /\ Goto(t, "markfail")
    /\ UNCHANGED <<status, lock, bank, report, saved, lost, world, procVars>>

\* A write commits and reports an error all the same.
WriteUnconfirmed(t) ==
    /\ proc # "down" /\ Fault /\ Goto(t, "markfail")
    /\ \/ pc[t] = "start" /\ SetStatus(t, "running") /\ UNCHANGED <<bank, saved>>
       \/ pc[t] = "bank" /\ bank' = bank \cup {t} /\ UNCHANGED <<status, saved>>
       \/ pc[t] = "save" /\ saved' = saved \cup {Package(t)} /\ UNCHANGED <<status, bank>>
       \/ pc[t] = "markok" /\ SetStatus(t, "succeeded") /\ UNCHANGED <<bank, saved>>
    /\ UNCHANGED <<lock, report, lost, world, procVars>>

\* Mutant of MarkFailed: it writes on baseCtx, which a shutdown has cancelled.
MarkFailedOnBaseCtx(t) ==
    /\ pc[t] = "markfail" /\ proc # "down"
    /\ IF BaseCtx THEN SetStatus(t, "failed") ELSE UNCHANGED status
    /\ Finish(t)
    /\ UNCHANGED <<bank, saved, lost, world, procVars, faults>>

\* Mutant of MarkFailed: the error path returns without giving the mutex back.
MarkFailedKeepsLock(t) ==
    /\ pc[t] = "markfail" /\ proc # "down"
    /\ SetStatus(t, "failed") /\ Goto(t, "done")
    /\ UNCHANGED <<lock, bank, report, saved, lost, world, procVars, faults>>

\* markFailed writes on a context of its own and ignores the error.
MarkFailed(t) ==
    /\ pc[t] = "markfail" /\ proc # "down"
    /\ \/ SetStatus(t, "failed") /\ UNCHANGED <<lost, faults>>
       \/ Fault /\ lost' = lost \cup {t} /\ UNCHANGED status
    /\ Finish(t)
    /\ UNCHANGED <<bank, saved, world, procVars>>
---------------------------------------------------------------------------
(* The importers and the process *)

\* An importer, of this process or the CLI, stores a bar (DataImport).
ImportBar ==
    /\ klines < MaxBars /\ klines' = klines + 1
    /\ drifted' = drifted \cup {t \in Tasks : pc[t] \in {"engine", "bank", "stats", "review"}}
    /\ UNCHANGED <<taskVars, procVars, faults>>

\* SIGTERM: srv.Shutdown refuses new requests and waits for the ones under way.
Shutdown ==
    /\ proc = "up" /\ stops < MaxStops
    /\ proc' = "closing" /\ stops' = stops + 1
    /\ UNCHANGED <<taskVars, world, late, drained, faults>>

\* shutdownCtx, shared by srv.Shutdown and Service.Shutdown, expires.
Expire ==
    /\ proc \in {"closing", "aborting"} /\ ~late
    /\ late' = TRUE
    /\ UNCHANGED <<taskVars, world, proc, drained, stops, faults>>

\* srv.Shutdown returned, drained or expired; Service.Shutdown cancels baseCtx.
Abort ==
    /\ proc = "closing"
    /\ late \/ \A t \in Tasks : pc[t] # "create"
    /\ proc' = "aborting"
    /\ UNCHANGED <<taskVars, world, late, drained, stops, faults>>

Ended == \A t \in Tasks : pc[t] \in {"none", "done"}

\* The goroutines and the locks go with the process.
Vanish ==
    /\ proc' = "down" /\ late' = FALSE
    /\ pc' = [t \in Tasks |-> IF pc[t] = "none" THEN "none" ELSE "done"]
    /\ lock' = [p \in Tuples |-> NULL]
    /\ trials' = [t \in Tasks |-> 0]
    /\ plan' = [t \in Tasks |-> 0] /\ review' = [t \in Tasks |-> "none"]
    /\ UNCHANGED <<status, bank, saved, lost, world, faults>>

\* Service.Shutdown returns: wg.Wait is through, or the deadline is.
Exit ==
    /\ proc = "aborting" /\ (Ended \/ late)
    /\ drained' = (Ended /\ ~late)
    /\ Vanish /\ UNCHANGED stops

Crash ==
    /\ proc # "down" /\ stops < MaxStops
    /\ stops' = stops + 1 /\ drained' = FALSE
    /\ Vanish

\* EvolutionTaskRepo.SweepOrphans.
Sweep == [t \in Tasks |-> IF status[t] \in Active THEN "failed" ELSE status[t]]

\* main: the sweep runs before the server listens; its error is only logged.
Restart ==
    /\ proc = "down" /\ proc' = "up"
    /\ \/ status' = Sweep /\ UNCHANGED <<lost, faults>>
       \/ Fault /\ lost' = lost \cup {t \in Tasks : status[t] \in Active} /\ UNCHANGED status
    /\ UNCHANGED <<pc, lock, bank, report, saved, world, late, drained, stops>>

\* What the goroutine of a task (or the request that starts it) does next.
Progress(t) ==
    \/ CreateRow(t) \/ MarkStarted(t) \/ LoadPlan(t) \/ RunEngine(t) \/ BankAdd(t)
    \/ BankStats(t) \/ Verify(t) \/ SaveChallenger(t) \/ MarkSucceeded(t)
    \/ StepFails(t) \/ WriteUnconfirmed(t) \/ MarkFailed(t)

Next ==
    \/ \E t \in Tasks : CreateLock(t) \/ Progress(t)
    \/ ImportBar \/ Shutdown \/ Expire \/ Abort \/ Exit \/ Crash \/ Restart

\* The runtime schedules every goroutine, RunEpoch terminates (GAEngine), a
\* shutdown reaches its end (its deadline is a timer), and the supervisor starts
\* the process again.  Nothing obliges anybody to create tasks or to stop.
Fairness ==
    /\ \A t \in Tasks : WF_vars(Progress(t))
    /\ WF_vars(Expire) /\ WF_vars(Abort) /\ WF_vars(Exit) /\ WF_vars(Restart)

Spec == Init /\ [][Next]_vars /\ Fairness
---------------------------------------------------------------------------
\* Same-tuple epochs are serial and each adds its row before it counts, so no
\* two challengers of a tuple are judged against the same number of trials: the
\* multiple-testing correction of two challengers never rests on the same count
\* (executeEpoch, lockFor).
TrialsDistinct ==
    \A g, h \in saved :
        TupleOf[g.task] = TupleOf[h.task] /\ g.trials # 0 /\ g.trials = h.trials => g = h

\* A succeeded task has one challenger row, saved before the status whatever fails
\* or crashes in between, and its review reads ok exactly if no bar was stored
\* between the load the epoch ran on and the review (executeEpoch, RunReview).
SucceededIsBacked ==
    \A t \in Tasks : status[t] = "succeeded" =>
        \E g \in saved :
            /\ g.task = t /\ \A h \in saved : h.task = t => h = g
            /\ (g.review = "ok") <=> (t \notin drifted)

\* A task row stays queued or running without a goroutine only while the process
\* is down, or if a status write (or the sweep) itself went wrong; and a shutdown
\* that waited for the goroutines leaves none (run, Shutdown, SweepOrphans).
NoSilentOrphan ==
    \A t \in Tasks :
        status[t] \in Active /\ pc[t] = "done" /\ (proc # "down" \/ drained) => t \in lost

\* Every accepted task ends: its goroutine or the sweep of the next start gives it
\* a terminal status (unless a status write went wrong), and its tuple is free for
\* the next task (run, SweepOrphans).
EpochEnds ==
    \A t \in Tasks :
        (lock[TupleOf[t]] = t) ~>
            (lock[TupleOf[t]] # t /\ (status[t] \notin Active \/ t \in lost))
---------------------------------------------------------------------------
(* The inductive invariant of the proofs in EpochsProofs *)

Unbanked == {"none", "create", "start", "load", "engine", "bank"}
Unsaved == Unbanked \cup {"stats", "review", "save"}

\* Whoever is under way holds the mutex of its tuple, so is alone in it.
LockHeld == \A t \in Tasks : pc[t] \notin {"none", "done"} => lock[TupleOf[t]] = t

\* How far a task has come says what it has written.
StageSound ==
    \A t \in Tasks :
        /\ pc[t] \in {"none", "create"} => status[t] = "none"
        /\ pc[t] \in Unbanked => t \notin bank
        /\ pc[t] \in Unbanked \cup {"stats"} => trials[t] = 0
        /\ pc[t] \in Unsaved => \A g \in saved : g.task # t
        /\ pc[t] = "markok" \/ status[t] = "succeeded" => \E g \in saved : g.task = t

OnePackage == \A g, h \in saved : g.task = h.task => g = h

\* A package counted at most the rows the bank now has of its tuple, and fewer than
\* the task under way in that tuple counts, once that task has its own row.
CountSound ==
    /\ \A g \in saved : g.trials <= BankN(g.task)
    /\ \A t \in Tasks :
         /\ pc[t] = "stats" =>
              \A g \in saved : TupleOf[g.task] = TupleOf[t] => g.trials < BankN(t)
         /\ pc[t] \in {"review", "save"} /\ trials[t] # 0 =>
              /\ trials[t] <= BankN(t)
              /\ \A g \in saved : TupleOf[g.task] = TupleOf[t] => g.trials < trials[t]

\* The bars a task ran on are the stored ones exactly until its data drifts; the
\* verdict of its review says which.
ReviewSound ==
    /\ \A g \in saved : (g.review = "ok") <=> (g.task \notin drifted)
    /\ \A t \in Tasks :
         /\ pc[t] \in {"none", "create", "start", "load"} => t \notin drifted
         /\ pc[t] \in {"engine", "bank", "stats", "review"} =>
              plan[t] \in MinBars .. klines /\ (t \in drifted <=> plan[t] # klines)
         /\ pc[t] = "save" =>
              /\ plan[t] \in MinBars .. MaxBars /\ review[t] # "none"
              /\ (review[t] = "ok") <=> (t \notin drifted)

IInv ==
    /\ TypeOK /\ LockHeld /\ StageSound /\ OnePackage /\ CountSound /\ ReviewSound
    /\ NoSilentOrphan
============================================================================
