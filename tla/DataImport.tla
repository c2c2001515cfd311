----------------------------- MODULE DataImport -----------------------------
(***************************************************************************)
(* K-line import of one (symbol, interval): the jobs of                    *)
(* handlers_import.go and import_job.go, the serial ImportWorker, the      *)
(* datafeeder CLI, and Orchestrator.ImportSymbol, which both run.          *)
(*                                                                         *)
(* The worker lives in the SaaS process; the CLI (by hand or from cron) is *)
(* a process of its own, and no lock is between them: the unique index is  *)
(* on import_jobs only.  Each of the two is a record with a program        *)
(* counter; a step is the fetch of one month or one SQL statement.         *)
(*                                                                         *)
(* Time is counted in bars: bars below `now` are closed, bar `now` is      *)
(* still open.  A bar is stored partial (as the REST API shows an open     *)
(* bar) or final.  Prices, months_done and the row counts are left out:    *)
(* the screens show them, no step reads them.                              *)
(***************************************************************************)
EXTENDS Integers, FiniteSets

CONSTANTS
    MaxBar,      \* bars 1 .. MaxBar
    MonthOf,     \* the month of a bar
    Missing,     \* bars the exchange never produced (maintenance)
    Ranges,      \* the <<from, to>> that requests name
    StartNow,    \* the open bar at the beginning
    MaxJobs,     \* bound: import_jobs rows
    MaxFaults,   \* bound: failing fetches and statements
    MaxStops,    \* bound: exits of the SaaS process
    MaxCLI       \* bound: CLI runs

Bars == 1 .. MaxBar
Months == {MonthOf[b] : b \in Bars}
Jobs == 1 .. MaxJobs
Importers == {"worker", "cli"}

ASSUME DataImportAssumption ==
    /\ MaxBar \in Nat /\ MonthOf \in [Bars -> Nat] /\ Missing \subseteq Bars
    /\ \A b, c \in Bars : b < c => MonthOf[b] <= MonthOf[c]
    /\ Ranges \subseteq Bars \X Bars /\ \A r \in Ranges : r[1] <= r[2]
    /\ StartNow \in Bars
    /\ MaxJobs \in Nat /\ MaxFaults \in Nat /\ MaxStops \in Nat /\ MaxCLI \in Nat

VARIABLES
    now,        \* the bar that is open
    published,  \* months whose archive is on the server
    klines,     \* klines: per bar "none", "partial" or "final"
    gaps,       \* kline_gaps: <<start, end, importer that inserted it>>
    job,        \* import_jobs
    im,         \* the two importers
    up,         \* the SaaS process runs
    lost,       \* ghost: jobs one of whose status writes went wrong
    faults, stops, runs

vars == <<now, published, klines, gaps, job, im, up, lost, faults, stops, runs>>
market == <<now, published>>
counts == <<stops, runs>>

Active == {"queued", "running"}
Terminal == {"succeeded", "failed", "cancelled"}

NoJob == [status |-> "none", range |-> <<1, 1>>, cancel |-> FALSE]
Idle == [pc |-> "idle", job |-> 0, from |-> 1, to |-> 1, month |-> 0, began |-> 0,
         rows |-> {}, open |-> 0, found |-> {}, out |-> "none", clean |-> FALSE]

JobType == [status : {"none"} \cup Active \cup Terminal, range : Ranges \cup {<<1, 1>>},
            cancel : BOOLEAN]

ImporterType ==
    [pc : {"idle", "mark", "fetch", "insert", "month", "gapread", "gapdelete", "gapinsert",
           "finish"},
     job : 0 .. MaxJobs, from : Bars, to : Bars, month : Nat, began : 0 .. MaxBar + 1,
     rows : SUBSET Bars, open : 0 .. MaxBar + 1, found : SUBSET (Bars \X Bars),
     out : {"none"} \cup Terminal, clean : BOOLEAN]

TypeOK ==
    /\ now \in 1 .. MaxBar + 1 /\ published \subseteq Months
    /\ klines \in [Bars -> {"none", "partial", "final"}]
    /\ gaps \subseteq Bars \X Bars \X Importers
    /\ job \in [Jobs -> JobType] /\ im \in [Importers -> ImporterType]
    /\ \A k \in Importers : im[k].rows \subseteq im[k].from .. im[k].to
    /\ up \in BOOLEAN /\ lost \subseteq Jobs
    /\ faults \in 0 .. MaxFaults /\ stops \in 0 .. MaxStops /\ runs \in 0 .. MaxCLI
    \* uq_import_jobs_active
    /\ Cardinality({j \in Jobs : job[j].status \in Active}) <= 1

Init ==
    /\ now = StartNow /\ published = {}
    /\ klines = [b \in Bars |-> "none"] /\ gaps = {}
    /\ job = [j \in Jobs |-> NoJob]
    /\ im = [k \in Importers |-> Idle]
    /\ up = TRUE /\ lost = {} /\ faults = 0 /\ stops = 0 /\ runs = 0

Fault == faults < MaxFaults /\ faults' = faults + 1
---------------------------------------------------------------------------
(* The exchange *)

\* The open bar closes; its final values are now known.
Tick ==
    /\ now <= MaxBar /\ now' = now + 1
    /\ UNCHANGED <<published, klines, gaps, job, im, up, lost, faults, counts>>

\* The archive of a month appears once all its bars are closed.
Publish(m) ==
    /\ m \notin published /\ \A b \in Bars : MonthOf[b] = m => b < now
    /\ published' = published \cup {m}
    /\ UNCHANGED <<now, klines, gaps, job, im, up, lost, faults, counts>>
---------------------------------------------------------------------------
(* The handlers *)

\* Mutant of IndexFree: only running jobs count.
IndexFreeRunning == \A j \in Jobs : job[j].status # "running"

\* uq_import_jobs_active lets a new job in.
IndexFree == \A j \in Jobs : job[j].status \notin Active

\* POST /data/import: a queued row, or 409.
CreateImport(r) ==
    /\ up /\ IndexFree
    /\ \E j \in Jobs :
         /\ job[j].status = "none" /\ \A i \in 1 .. j - 1 : job[i].status # "none"
         /\ job' = [job EXCEPT ![j] = [status |-> "queued", range |-> r, cancel |-> FALSE]]
    /\ UNCHANGED <<market, klines, gaps, im, up, lost, faults, counts>>

\* POST /data/import/:id/cancel: the UPDATE touches active jobs only.
CancelImport(j) ==
    /\ up /\ job[j].status \in Active /\ ~job[j].cancel
    /\ job' = [job EXCEPT ![j].cancel = TRUE]
    /\ UNCHANGED <<market, klines, gaps, im, up, lost, faults, counts>>
---------------------------------------------------------------------------
(* ImportSymbol, for either importer *)

At(k, l) == im[k].pc = l /\ (k = "worker" => up)

\* ImportSymbol returns: the worker goes on to finish, the CLI exits.
Return(k, out) ==
    im' = [im EXCEPT ![k] = IF k = "cli" THEN Idle ELSE [@ EXCEPT !.pc = "finish", !.out = out]]

\* The range of a request is entered at its first month.
Enter(k, j, r) ==
    [Idle EXCEPT !.pc = "fetch", !.job = j, !.from = r[1], !.to = r[2],
                 !.month = MonthOf[r[1]], !.began = IF k = "worker" THEN now ELSE 0]

\* A month's archive, checksum verified and parsed, is the whole month; a file that
\* is not published is ErrArchiveNotFound, and anything else a failure.
ArchiveRows(m) == {b \in Bars : MonthOf[b] = m /\ m \in published}

\* The REST API, page after page with its retries, up to the open bar.
APIRows(m) == {b \in Bars : MonthOf[b] = m /\ b <= now}

\* Mutant of Available: an unpublished month is skipped.
AvailableArchiveOnly(k) == ArchiveRows(im[k].month)

\* fetchMonth, or fetchMonthViaAPI when the archive is not there.
Available(k) ==
    IF im[k].month \in published THEN ArchiveRows(im[k].month) ELSE APIRows(im[k].month)

\* The rows of the month inside the range (filterByOpenTime); any error ends the
\* import.
FetchMonth(k) ==
    /\ At(k, "fetch")
    /\ \/ /\ im' = [im EXCEPT ![k].pc = "insert",
                              ![k].rows = (Available(k) \ Missing) \cap im[k].from .. im[k].to,
                              ![k].open = IF im[k].month \in published \/ now > im[k].to
                                           THEN 0 ELSE now]
          /\ UNCHANGED faults
       \/ Fault /\ Return(k, "failed")
    /\ UNCHANGED <<market, klines, gaps, job, up, lost, counts>>

\* The other importer's gap scan no longer describes the tables.
Disturb(k) == [i \in Importers |-> IF i = k THEN im[i] ELSE [im[i] EXCEPT !.clean = FALSE]]

\* Mutant of Stored: ON CONFLICT DO UPDATE.
StoredUpsert(k, b) ==
    IF b \in im[k].rows THEN (IF b = im[k].open THEN "partial" ELSE "final") ELSE klines[b]

\* bulkInsert: ON CONFLICT DO NOTHING.
Stored(k, b) ==
    IF b \in im[k].rows /\ klines[b] = "none"
    THEN (IF b = im[k].open THEN "partial" ELSE "final") ELSE klines[b]

\* One month is one transaction.
InsertMonth(k) ==
    /\ At(k, "insert")
    /\ \/ /\ klines' = [b \in Bars |-> Stored(k, b)]
          /\ im' = [Disturb(k) EXCEPT ![k].pc = "month", ![k].rows = {}, ![k].open = 0]
          /\ UNCHANGED faults
       \/ Fault /\ Return(k, "failed") /\ UNCHANGED klines
    /\ UNCHANGED <<market, gaps, job, up, lost, counts>>

\* The month boundary: the worker's OnMonth records progress and reads the
\* cancel flag back (an error reads as "go on"); the CLI has no hook.
MonthDone(k) ==
    /\ At(k, "month")
    /\ LET cancel == k = "worker" /\ job[im[k].job].cancel
           onward == [im EXCEPT ![k].pc = IF im[k].month = MonthOf[im[k].to]
                                          THEN "gapread" ELSE "fetch",
                                ![k].month = @ + 1]
       IN \/ cancel /\ Return(k, "cancelled") /\ UNCHANGED faults
          \/ ~cancel /\ im' = onward /\ UNCHANGED faults
          \/ cancel /\ Fault /\ im' = onward
    /\ UNCHANGED <<market, klines, gaps, job, up, lost, counts>>

\* computeGaps: the spans between consecutive stored bars of the range.
Holes(from, to) ==
    {g \in Bars \X Bars :
        /\ from < g[1] /\ g[1] <= g[2] /\ g[2] < to
        /\ klines[g[1] - 1] # "none" /\ klines[g[2] + 1] # "none"
        /\ \A b \in g[1] .. g[2] : klines[b] = "none"}

\* The gap rows a rewrite of the importer's range replaces.
Inside(k, g) == im[k].from <= g[1] /\ g[2] <= im[k].to

\* detectAndPersistGaps, first statement: the open times of the range.
GapRead(k) ==
    /\ At(k, "gapread")
    /\ \/ /\ im' = [im EXCEPT ![k].pc = "gapdelete", ![k].clean = (k = "worker"),
                              ![k].found = Holes(im[k].from, im[k].to)]
          /\ UNCHANGED faults
       \/ Fault /\ Return(k, "failed")
    /\ UNCHANGED <<market, klines, gaps, job, up, lost, counts>>

\* The rows the DELETE removes.
StaleGaps(k) == {g \in gaps : Inside(k, g)}

GapDelete(k) ==
    /\ At(k, "gapdelete")
    /\ \/ /\ gaps' = gaps \ StaleGaps(k)
          /\ im' = [Disturb(k) EXCEPT ![k].pc = "gapinsert"]
          /\ UNCHANGED faults
       \/ Fault /\ Return(k, "failed") /\ UNCHANGED gaps
    /\ UNCHANGED <<market, klines, job, up, lost, counts>>

\* The INSERT of the new rows ends ImportSymbol.
GapInsert(k) ==
    /\ At(k, "gapinsert")
    /\ \/ /\ gaps' = gaps \cup {<<g[1], g[2], k>> : g \in im[k].found}
          /\ im' = IF k = "cli" THEN [Disturb(k) EXCEPT ![k] = Idle]
                   ELSE [Disturb(k) EXCEPT ![k].pc = "finish", ![k].out = "succeeded"]
          /\ UNCHANGED faults
       \/ Fault /\ Return(k, "failed") /\ UNCHANGED gaps
    /\ UNCHANGED <<market, klines, job, up, lost, counts>>

ImportStep(k) ==
    \/ FetchMonth(k) \/ InsertMonth(k) \/ MonthDone(k)
    \/ GapRead(k) \/ GapDelete(k) \/ GapInsert(k)
---------------------------------------------------------------------------
(* The worker, the CLI and the process *)

\* ImportWorker.Run takes the oldest queued job; a poll error waits and polls again.
NextQueued ==
    /\ up /\ im["worker"].pc = "idle"
    /\ \E j \in Jobs :
         /\ job[j].status = "queued" /\ \A i \in 1 .. j - 1 : job[i].status # "queued"
         /\ im' = [im EXCEPT !["worker"] = [Idle EXCEPT !.pc = "mark", !.job = j]]
    /\ UNCHANGED <<market, klines, gaps, job, up, lost, faults, counts>>

\* runJob: MarkRunning, then the import. On an error the worker polls again: it finds
\* the job still queued, or, when the write was committed and only its confirmation
\* was lost, leaves it running for the next start's sweep.
MarkRunning ==
    /\ At("worker", "mark")
    /\ LET j == im["worker"].job
           running == [job EXCEPT ![j].status = "running"]
       IN \/ /\ job' = running
             /\ im' = [im EXCEPT !["worker"] = Enter("worker", j, job[j].range)]
             /\ UNCHANGED <<lost, faults>>
          \/ /\ Fault
             /\ im' = [im EXCEPT !["worker"] = Idle]
             /\ \/ UNCHANGED <<job, lost>>
                \/ job' = running /\ lost' = lost \cup {j}
    /\ UNCHANGED <<market, klines, gaps, up, counts>>

\* finish writes the terminal status; an error is logged and the row stays running.
FinishJob ==
    /\ At("worker", "finish")
    /\ \/ /\ job' = [job EXCEPT ![im["worker"].job].status = im["worker"].out]
          /\ UNCHANGED <<lost, faults>>
       \/ Fault /\ lost' = lost \cup {im["worker"].job} /\ UNCHANGED job
    /\ im' = [im EXCEPT !["worker"] = Idle]
    /\ UNCHANGED <<market, klines, gaps, up, counts>>

\* datafeeder import, by hand or from cron.
StartCLI(r) ==
    /\ im["cli"].pc = "idle" /\ runs < MaxCLI
    /\ im' = [im EXCEPT !["cli"] = Enter("cli", 0, r)]
    /\ runs' = runs + 1
    /\ UNCHANGED <<market, klines, gaps, job, up, lost, faults, stops>>

\* The CLI is interrupted.
KillCLI ==
    /\ im["cli"].pc # "idle" /\ Fault
    /\ im' = [im EXCEPT !["cli"] = Idle]
    /\ UNCHANGED <<market, klines, gaps, job, up, lost, counts>>

\* The SaaS process crashes, or stops (its cancelled context fails every
\* statement of the worker, the last one too).
Stop ==
    /\ up /\ stops < MaxStops
    /\ up' = FALSE /\ stops' = stops + 1
    /\ im' = [im EXCEPT !["worker"] = Idle]
    /\ UNCHANGED <<market, klines, gaps, job, lost, faults, runs>>

\* Mutant of Sweep: nothing is swept at start-up.
NoSweep == job

\* ImportJobRepo.SweepOrphans: running rows fail, queued rows are picked again.
Sweep == [j \in Jobs |-> IF job[j].status = "running"
                         THEN [job[j] EXCEPT !.status = "failed"] ELSE job[j]]

\* main: the sweep, whose error is only logged, and then the worker.
Restart ==
    /\ ~up /\ up' = TRUE
    /\ \/ job' = Sweep /\ UNCHANGED <<lost, faults>>
       \/ /\ Fault /\ UNCHANGED job
          /\ lost' = lost \cup {j \in Jobs : job[j].status = "running"}
    /\ UNCHANGED <<market, klines, gaps, im, counts>>

WorkerStep == NextQueued \/ MarkRunning \/ FinishJob \/ ImportStep("worker")

Next ==
    \/ Tick \/ \E m \in Months : Publish(m)
    \/ \E r \in Ranges : CreateImport(r) \/ StartCLI(r)
    \/ \E j \in Jobs : CancelImport(j)
    \/ WorkerStep \/ ImportStep("cli") \/ KillCLI
    \/ Stop \/ Restart

\* The worker goroutine is scheduled, fetches end (client timeouts and a bounded
\* number of retries), and the process is started again after it stopped.
Fairness == WF_vars(WorkerStep) /\ WF_vars(Restart)

Spec == Init /\ [][Next]_vars /\ Fairness
---------------------------------------------------------------------------
\* A final bar is never changed or removed by a later import: a slow importer
\* that fetched a bar while it was open cannot overwrite the final bar another
\* one stored meanwhile (bulkInsert).
StoredBarsKept ==
    [][\A b \in Bars : klines[b] = "final" => klines'[b] = "final"]_vars

\* What the status succeeded promises, at the moment it is written: every bar of
\* the range that was closed when the import began and that the exchange has is
\* stored, and, unless another importer wrote meanwhile, the gap rows inside the
\* range are the holes of klines there, each once (ImportSymbol).
SuccessIsComplete ==
    LET w == im["worker"] IN
    w.pc = "finish" /\ w.out = "succeeded" =>
        /\ \A b \in w.from .. w.to : b < w.began /\ b \notin Missing => klines[b] # "none"
        /\ w.clean => {g \in gaps : Inside("worker", g)} =
                      {<<g[1], g[2], "worker">> : g \in Holes(w.from, w.to)}

\* Every job ends, also one cancelled before it started and one interrupted by a
\* restart, unless its own status write (or the sweep) went wrong: an active row
\* blocks its pair (import_worker.go, SweepOrphans).
JobEnds ==
    \A j \in Jobs : (job[j].status \in Active) ~> (job[j].status \in Terminal \/ j \in lost)
---------------------------------------------------------------------------
(* The inductive invariant of the proofs in DataImportProofs *)

OneActive ==
    \A i, j \in Jobs : job[i].status \in Active /\ job[j].status \in Active => i = j

\* The worker holds a job of the process that runs, queued until it is marked running.
WorkerJob ==
    LET w == im["worker"] IN
    w.pc # "idle" =>
        /\ up /\ w.job \in Jobs
        /\ job[w.job].status = IF w.pc = "mark" THEN "queued" ELSE "running"
        /\ w.pc = "finish" => w.out \in Terminal

\* What the worker's import has stored, month after month, of the bars that were closed
\* when it began.
Covered ==
    LET w == im["worker"] IN
    /\ w.began <= now
    /\ \A b \in w.from .. w.to : b < w.began /\ b \notin Missing =>
         /\ w.pc \in {"fetch", "insert"} /\ MonthOf[b] < w.month => klines[b] # "none"
         /\ w.pc = "insert" /\ MonthOf[b] = w.month => b \in w.rows
         /\ w.pc = "month" /\ MonthOf[b] <= w.month => klines[b] # "none"
         /\ \/ w.pc \in {"gapread", "gapdelete", "gapinsert"}
            \/ w.pc = "finish" /\ w.out = "succeeded"
            => klines[b] # "none"

\* An undisturbed gap rewrite works on the holes that are there.
CleanSound ==
    LET w == im["worker"]
        old == {g \in gaps : Inside("worker", g)}
    IN w.clean =>
        /\ w.pc \in {"gapdelete", "gapinsert"} => w.found = Holes(w.from, w.to)
        /\ w.pc = "gapinsert" => old = {}
        /\ w.pc = "finish" /\ w.out = "succeeded" =>
             old = {<<g[1], g[2], "worker">> : g \in Holes(w.from, w.to)}

IInv == TypeOK /\ OneActive /\ WorkerJob /\ Covered /\ CleanSound
============================================================================
