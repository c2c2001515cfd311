----------------------------- MODULE TradeLedger -----------------------------
(***************************************************************************)
(* The SaaS ledger of one strategy instance: its trade_records, its        *)
(* spot_executions and its portfolio_states.                               *)
(*                                                                         *)
(* Writers share only the database: the instance's Tick, the goroutine of  *)
(* every connection of its account (frames of one connection are handled   *)
(* one by one, those of two connections concurrently), and the start-up    *)
(* sweep. Each action is one statement of a writer. The agent and the      *)
(* exchange are external: a frame says what happened on the exchange, but  *)
(* may be lost, late, repeated, or overtaken on another connection.        *)
(*                                                                         *)
(* A client_order_id is the millisecond of its Tick, so orders are named   *)
(* by the clock. One order per Tick stands for its macro and micro order.  *)
(***************************************************************************)
EXTENDS Integers, FiniteSets

CONSTANTS
    Conns,      \* goroutines of the account's connections
    Qty,        \* fills that complete an order
    TTL,        \* orderTTLMs
    MaxNow,     \* bound: the clock
    MaxOrders,  \* bound: Ticks that emit an order
    MaxFrames,  \* bound: frames received
    MaxFaults   \* bound: errors that cut a handler or a Tick short, and restarts

ASSUME QtyAssumption == Qty \in Nat \ {0}
ASSUME TTLAssumption == TTL \in Nat
ASSUME LimitAssumption ==
    /\ MaxNow \in Nat \ {0}
    /\ MaxOrders \in Nat /\ MaxFrames \in Nat /\ MaxFaults \in Nat

VARIABLES
    now,
    status,   \* status[o]: trade_records.status, "none" without a row
    execs,    \* spot_executions: committed rows, each an id and a fill
    nextID,   \* the sequence spot_executions.id is drawn from
    rows,     \* portfolio_states
    funded,   \* strategy_instances.funded_at_ms is set
    hpc,      \* hpc[c]: where the handler of c stands
    frame,    \* frame[c]: what is left to do of the frame c received
    cur, eid, \* cur[c], eid[c]: the fill insertFillIfNew is inserting, and its id
    seed,     \* seed[c]: fundInstance's seed row
    tpc, tms, tbase, tnew, \* Tick: position, nowMs, the row it loaded, the fills it read
    sent,     \* orders handed to the agent
    book, traded, \* the order on the exchange
    late,     \* history: ids committed after a higher one
    blind,    \* history: a report was compared with balances no seed underlies
    frames, faults

tableVars == <<status, execs, nextID, rows, funded>>
handlerVars == <<hpc, frame, cur, eid, seed>>
tickVars == <<tpc, tms, tbase, tnew>>
exchangeVars == <<sent, book, traded>>
historyVars == <<late, blind>>
countVars == <<frames, faults>>
vars == <<now, tableVars, handlerVars, tickVars, exchangeVars, historyVars, countVars>>

Times == 1..MaxNow
Orders == Times

Fill == Orders \X (1..Qty)
NoFill == <<0, 0>>

Executed(o) == {o} \X (1..traded[o])

Terminal == {"filled", "cancelled", "rejected"}

\* A portfolio_states row. Balances are abstracted to the fills they reflect, on top
\* of the exchange's balance at funding when `seeded`.
Row(ms, seeded, applied, mark) ==
    [ms |-> ms, seeded |-> seeded, applied |-> applied, mark |-> mark]

\* Cold start: no row yet.
NoRow == Row(0, FALSE, {}, 0)

Frame(kind, o, s, fs, unfunded) ==
    [kind |-> kind, order |-> o, status |-> s, fills |-> fs, unfunded |-> unfunded]

NoFrame == Frame("none", 0, "none", {}, FALSE)

\* A fresh instance, or one whose ledger was seeded before its first Tick.
Init ==
    /\ now = 1
    /\ status = [o \in Orders |-> "none"]
    /\ execs = {}
    /\ nextID = 0
    /\ funded \in BOOLEAN
    /\ rows = IF funded THEN {Row(0, TRUE, {}, 0)} ELSE {}
    /\ hpc = [c \in Conns |-> "idle"]
    /\ frame = [c \in Conns |-> NoFrame]
    /\ cur = [c \in Conns |-> NoFill]
    /\ eid = [c \in Conns |-> 0]
    /\ seed = [c \in Conns |-> NoRow]
    /\ tpc = "idle" /\ tms = 0 /\ tbase = NoRow /\ tnew = {}
    /\ sent = {}
    /\ book = [o \in Orders |-> "none"]
    /\ traded = [o \in Orders |-> 0]
    /\ late = {} /\ blind = FALSE
    /\ frames = 0 /\ faults = 0

-----------------------------------------------------------------------------
(***************************************************************************)
(* The repositories' statements.                                           *)
(***************************************************************************)

MutUpdateTradeStatus(o, s) ==
    status' = IF status[o] = "none" THEN status ELSE [status EXCEPT ![o] = s]

\* UPDATE ... WHERE status NOT IN terminalStatuses; an unknown order is a no-op.
UpdateTradeStatus(o, s) ==
    status' = IF status[o] \in Terminal \cup {"none"} THEN status ELSE [status EXCEPT ![o] = s]

MarkPartialIfPending(o) ==
    status' = IF status[o] = "pending" THEN [status EXCEPT ![o] = "partial_filled"] ELSE status

Exists(f) == \E e \in execs : e.fill = f

\* Execution ids are drawn when the INSERT runs, the row is visible when it commits.
\* A unique violation is not an error and adds nothing.
MutInsertSpotExecution(id, f) == execs' = execs \cup {[id |-> id, fill |-> f]}

InsertSpotExecution(id, f) ==
    execs' = IF Exists(f) THEN execs ELSE execs \cup {[id |-> id, fill |-> f]}

MutNewExecutions(since) == {e \in execs : e.id >= since}

NewExecutions(since) == {e \in execs : e.id > since}

Max0(S) == IF S = {} THEN 0 ELSE CHOOSE m \in S : \A n \in S : n <= m

MaxExecutionID == Max0({e.id : e \in execs})

\* ORDER BY now_ms DESC LIMIT 1.
Latest ==
    IF rows = {} THEN NoRow
    ELSE CHOOSE r \in rows : \A s \in rows : s.ms <= r.ms

MutVacant(ms) == TRUE

\* The primary key (instance_id, now_ms) of portfolio_states.
Vacant(ms) == \A r \in rows : r.ms # ms

-----------------------------------------------------------------------------
(***************************************************************************)
(* Time, the agent and the exchange (external).                            *)
(***************************************************************************)

Pass ==
    /\ now < MaxNow
    /\ now' = now + 1
    /\ UNCHANGED <<tableVars, handlerVars, tickVars, exchangeVars, historyVars, countVars>>

\* The agent checks valid_until_ms when it reads the command, and never again.
Place(o) ==
    /\ o \in sent
    /\ book[o] = "none"
    /\ now <= o + TTL
    /\ book' = [book EXCEPT ![o] = "open"]
    /\ UNCHANGED <<now, tableVars, handlerVars, tickVars, sent, traded, historyVars, countVars>>

Trade(o) ==
    /\ book[o] = "open"
    /\ traded' = [traded EXCEPT ![o] = @ + 1]
    /\ book' = [book EXCEPT ![o] = IF traded'[o] = Qty THEN "filled" ELSE "open"]
    /\ UNCHANGED <<now, tableVars, handlerVars, tickVars, sent, historyVars, countVars>>

\* The exchange takes the order off its book with part of it, or all of it, untraded.
Cancel(o) ==
    /\ book[o] = "open"
    /\ \E s \in {"cancelled", "rejected"} : book' = [book EXCEPT ![o] = s]
    /\ UNCHANGED <<now, tableVars, handlerVars, tickVars, sent, traded, historyVars, countVars>>

-----------------------------------------------------------------------------
(***************************************************************************)
(* agentMessageHandler.Hook, on the goroutine of a connection.             *)
(***************************************************************************)

Receiving(c) ==
    /\ hpc[c] = "idle"
    /\ frames < MaxFrames
    /\ frames' = frames + 1
    /\ UNCHANGED <<now, nextID, rows, funded, execs, cur, eid, seed, tickVars,
                   exchangeVars, historyVars, faults>>

\* handleAck. An accepted or duplicate ack moves nothing. A rejection may be of an
\* order whose submit failed with an unknown outcome.
MutAckToTradeStatus == [rejected |-> "rejected", expired |-> "expired"]

ackToTradeStatus == [rejected |-> "rejected", expired |-> "cancelled"]

ReceiveAck(c, o) ==
    /\ o \in sent
    /\ Receiving(c)
    /\ \E s \in DOMAIN ackToTradeStatus :
          /\ s = "expired" => book[o] = "none"
          /\ UpdateTradeStatus(o, ackToTradeStatus[s])
    /\ UNCHANGED <<hpc, frame>>

\* An order_update carries fills with the status they led to, or says that the order
\* was cancelled or rejected.
Update(o, fs, s) ==
    \/ /\ fs # {} /\ fs \subseteq Executed(o)
       /\ s = IF <<o, Qty>> \in fs THEN "filled" ELSE "partial_filled"
    \/ /\ fs = {} /\ s \in {"cancelled", "rejected"}
       /\ book[o] = s

ReceiveOrderUpdate(c, o) ==
    /\ Receiving(c)
    /\ \E fs \in SUBSET Executed(o),
          s \in {"filled", "partial_filled", "cancelled", "rejected"} :
          /\ Update(o, fs, s)
          /\ frame' = [frame EXCEPT ![c] = Frame("order_update", o, s, fs, FALSE)]
    /\ hpc' = [hpc EXCEPT ![c] = "check"]
    /\ UNCHANGED status

\* handleDeltaReport lists the instances, and so reads funded_at_ms, before anything else.
ReceiveDeltaReport(c) ==
    /\ Receiving(c)
    /\ \E fs \in SUBSET UNION {Executed(o) : o \in Orders} :
          frame' = [frame EXCEPT ![c] = Frame("delta_report", 0, "none", fs, ~funded)]
    /\ hpc' = [hpc EXCEPT ![c] = "check"]
    /\ UNCHANGED status

Handling(c, from) ==
    /\ hpc[c] = from
    /\ UNCHANGED <<now, tickVars, exchangeVars, countVars>>

\* The handler returns, with or without an error.
Done(c) ==
    /\ hpc' = [hpc EXCEPT ![c] = "idle"]
    /\ frame' = [frame EXCEPT ![c] = NoFrame]
    /\ cur' = [cur EXCEPT ![c] = NoFill]
    /\ eid' = [eid EXCEPT ![c] = 0]
    /\ seed' = [seed EXCEPT ![c] = NoRow]

\* The dedup check of insertFillIfNew, on the next fill.
CheckFill(c, f) ==
    /\ Handling(c, "check")
    /\ f \in frame[c].fills
    /\ frame' = [frame EXCEPT ![c].fills = @ \ {f}]
    /\ \/ /\ Exists(f)
          /\ UNCHANGED <<hpc, cur>>
       \/ /\ ~Exists(f)
          /\ cur' = [cur EXCEPT ![c] = f]
          /\ hpc' = [hpc EXCEPT ![c] = "insert"]
    /\ UNCHANGED <<tableVars, eid, seed, late, blind>>

DrawID(c) ==
    /\ Handling(c, "insert")
    /\ nextID' = nextID + 1
    /\ eid' = [eid EXCEPT ![c] = nextID']
    /\ hpc' = [hpc EXCEPT ![c] = "commit"]
    /\ UNCHANGED <<status, execs, rows, funded, frame, cur, seed, late, blind>>

\* Only delta_report touches the status fill by fill.
CommitFill(c) ==
    /\ Handling(c, "commit")
    /\ InsertSpotExecution(eid[c], cur[c])
    /\ late' = IF MaxExecutionID > eid[c] THEN late \cup {eid[c]} ELSE late
    /\ IF frame[c].kind = "delta_report"
       THEN hpc' = [hpc EXCEPT ![c] = "mark"] /\ UNCHANGED cur
       ELSE hpc' = [hpc EXCEPT ![c] = "check"] /\ cur' = [cur EXCEPT ![c] = NoFill]
    /\ eid' = [eid EXCEPT ![c] = 0]
    /\ UNCHANGED <<status, nextID, rows, funded, frame, seed, blind>>

MarkPartial(c) ==
    /\ Handling(c, "mark")
    /\ MarkPartialIfPending(cur[c][1])
    /\ cur' = [cur EXCEPT ![c] = NoFill]
    /\ hpc' = [hpc EXCEPT ![c] = "check"]
    /\ UNCHANGED <<execs, nextID, rows, funded, frame, eid, seed, late, blind>>

MutFillsDone(c) == TRUE

FillsDone(c) == frame[c].fills = {}

FinishUpdate(c) ==
    /\ Handling(c, "check")
    /\ frame[c].kind = "order_update"
    /\ FillsDone(c)
    /\ UpdateTradeStatus(frame[c].order, frame[c].status)
    /\ Done(c)
    /\ UNCHANGED <<execs, nextID, rows, funded, late, blind>>

\* reconcile of a funded instance: its latest row is compared with the positions.
Compare(c) ==
    /\ Handling(c, "check")
    /\ frame[c].kind = "delta_report" /\ FillsDone(c)
    /\ ~frame[c].unfunded
    /\ blind' = (blind \/ (rows # {} /\ ~Latest.seeded))
    /\ Done(c)
    /\ UNCHANGED <<tableVars, late>>

MutClaimable == TRUE

\* MarkFunded: UPDATE ... WHERE funded_at_ms IS NULL.
Claimable == ~funded

Claim(c) ==
    /\ Handling(c, "check")
    /\ frame[c].kind = "delta_report" /\ FillsDone(c)
    /\ frame[c].unfunded
    /\ \/ /\ Claimable
          /\ funded' = TRUE
          /\ seed' = [seed EXCEPT ![c] = Row(now, TRUE, {}, 0)]
          /\ hpc' = [hpc EXCEPT ![c] = "watermark"]
          /\ UNCHANGED <<frame, cur, eid>>
       \/ /\ ~Claimable
          /\ Done(c)
          /\ UNCHANGED funded
    /\ UNCHANGED <<status, execs, nextID, rows, late, blind>>

\* The genesis balance counts as reflecting every execution recorded so far.
SeedWatermark(c) ==
    /\ Handling(c, "watermark")
    /\ seed' = [seed EXCEPT ![c] = Row(@.ms, TRUE, {e.fill : e \in execs}, MaxExecutionID)]
    /\ hpc' = [hpc EXCEPT ![c] = "seed"]
    /\ UNCHANGED <<tableVars, frame, cur, eid, late, blind>>

AppendSeed(c) ==
    /\ Handling(c, "seed")
    /\ rows' = IF Vacant(seed[c].ms) THEN rows \cup {seed[c]} ELSE rows
    /\ Done(c)
    /\ UNCHANGED <<status, execs, nextID, funded, late, blind>>

\* Any statement may return an error: the rest of the frame is dropped.
HandlerFails(c) ==
    /\ hpc[c] # "idle"
    /\ faults < MaxFaults
    /\ faults' = faults + 1
    /\ Done(c)
    /\ UNCHANGED <<now, tableVars, tickVars, exchangeVars, historyVars, frames>>

-----------------------------------------------------------------------------
(***************************************************************************)
(* Manager.Tick, one at a time.                                            *)
(***************************************************************************)

TickStep(from, to) ==
    /\ tpc = from
    /\ tpc' = to
    /\ UNCHANGED <<now, handlerVars, book, traded, historyVars, countVars>>

TickReturns == tpc' = "idle" /\ tms' = 0 /\ tbase' = NoRow /\ tnew' = {}

TickStart ==
    /\ TickStep("idle", "load")
    /\ tms' = now
    /\ UNCHANGED <<tableVars, tbase, tnew, sent>>

TickLoad ==
    /\ TickStep("load", "fold")
    /\ tbase' = Latest
    /\ UNCHANGED <<tableVars, tms, tnew, sent>>

TickFold ==
    /\ TickStep("fold", "append")
    /\ tnew' = NewExecutions(tbase.mark)
    /\ UNCHANGED <<tableVars, tms, tbase, sent>>

MutApplyFills ==
    Row(tms, tbase.seeded, tbase.applied \cup {e.fill : e \in tnew},
        Max0({tbase.mark, MaxExecutionID}))

\* The watermark is the highest id among the fills that were read.
applyFills ==
    Row(tms, tbase.seeded, tbase.applied \cup {e.fill : e \in tnew},
        Max0({tbase.mark} \cup {e.id : e \in tnew}))

\* A strategy without equity emits no order.
TickAppend ==
    /\ tpc = "append"
    /\ \/ /\ Vacant(tms)
          /\ rows' = rows \cup {applyFills}
          /\ \/ /\ applyFills.seeded \/ applyFills.applied # {}
                /\ Cardinality({o \in Orders \ {tms} : status[o] # "none"}) < MaxOrders
                /\ tpc' = "record" /\ tbase' = NoRow /\ tnew' = {}
                /\ UNCHANGED tms
             \/ TickReturns
       \/ /\ ~Vacant(tms)
          /\ TickReturns
          /\ UNCHANGED rows
    /\ UNCHANGED <<now, status, execs, nextID, funded, handlerVars, exchangeVars,
                   historyVars, countVars>>

\* recordingDispatcher: the pending row comes first; a taken client_order_id is an
\* error, which TickFails covers.
InsertTradeRecord ==
    /\ TickStep("record", "send")
    /\ status[tms] = "none"
    /\ status' = [status EXCEPT ![tms] = "pending"]
    /\ UNCHANGED <<execs, nextID, rows, funded, tms, tbase, tnew, sent>>

\* Hub.Dispatch: sent, or the account has no Ready connection and the row is orphaned.
Dispatch ==
    /\ tpc = "send"
    /\ sent' = sent \cup {tms} \/ UNCHANGED sent
    /\ TickReturns
    /\ UNCHANGED <<now, tableVars, handlerVars, book, traded, historyVars, countVars>>

\* No champion, stale bars, a strategy error, or an error of any statement.
TickFails ==
    /\ tpc # "idle"
    /\ faults < MaxFaults
    /\ faults' = faults + 1
    /\ TickReturns
    /\ UNCHANGED <<now, tableVars, handlerVars, exchangeVars, historyVars, frames>>

-----------------------------------------------------------------------------
(***************************************************************************)
(* The SaaS dies and starts again; the start sweeps orphaned rows.         *)
(***************************************************************************)

SweepOrphanPending ==
    {o \in Orders : /\ status[o] = "pending"
                    /\ o + TTL < now
                    /\ \A e \in execs : e.fill[1] # o}

Restart ==
    /\ faults < MaxFaults
    /\ faults' = faults + 1
    /\ \E orphans \in {SweepOrphanPending, {}} :
          status' = [o \in Orders |-> IF o \in orphans THEN "cancelled" ELSE status[o]]
    /\ hpc' = [c \in Conns |-> "idle"]
    /\ frame' = [c \in Conns |-> NoFrame]
    /\ cur' = [c \in Conns |-> NoFill]
    /\ eid' = [c \in Conns |-> 0]
    /\ seed' = [c \in Conns |-> NoRow]
    /\ TickReturns
    /\ UNCHANGED <<now, execs, nextID, rows, funded, exchangeVars, late, blind, frames>>

-----------------------------------------------------------------------------
Hook(c) ==
    \/ ReceiveDeltaReport(c)
    \/ \E o \in Orders : ReceiveAck(c, o) \/ ReceiveOrderUpdate(c, o)
    \/ \E f \in Fill : CheckFill(c, f)
    \/ DrawID(c) \/ CommitFill(c) \/ MarkPartial(c) \/ FinishUpdate(c)
    \/ Compare(c) \/ Claim(c) \/ SeedWatermark(c) \/ AppendSeed(c)
    \/ HandlerFails(c)

Tick ==
    \/ TickStart \/ TickLoad \/ TickFold \/ TickAppend
    \/ InsertTradeRecord \/ Dispatch \/ TickFails

Exchange == \E o \in Orders : Place(o) \/ Trade(o) \/ Cancel(o)

Next == Pass \/ Exchange \/ Tick \/ Restart \/ \E c \in Conns : Hook(c)

Spec == Init /\ [][Next]_vars

-----------------------------------------------------------------------------
(***************************************************************************)
(* Properties.                                                             *)
(***************************************************************************)

TradeStatus == {"none", "pending", "partial_filled"} \cup Terminal

RowType == [ms : 0 .. MaxNow, seeded : BOOLEAN, applied : SUBSET Fill, mark : Nat]

ExecType == [id : Nat, fill : Fill]

FrameType ==
    [kind : {"none", "order_update", "delta_report"}, order : Orders \cup {0},
     status : TradeStatus, fills : SUBSET Fill, unfunded : BOOLEAN]

\* The types of the tables and of the writers' locals; an id is drawn before its row
\* commits.
TypeOK ==
    /\ now \in Times
    /\ status \in [Orders -> TradeStatus]
    /\ execs \subseteq ExecType /\ nextID \in Nat
    /\ \A e \in execs : e.id <= nextID
    /\ rows \subseteq RowType
    /\ funded \in BOOLEAN
    /\ hpc \in [Conns -> {"idle", "check", "insert", "commit", "mark", "watermark", "seed"}]
    /\ frame \in [Conns -> FrameType]
    /\ cur \in [Conns -> Fill \cup {NoFill}]
    /\ eid \in [Conns -> Nat]
    /\ seed \in [Conns -> RowType]
    /\ tpc \in {"idle", "load", "fold", "append", "record", "send"}
    /\ tms \in 0 .. MaxNow /\ tbase \in RowType /\ tnew \subseteq ExecType
    /\ sent \subseteq Orders
    /\ book \in [Orders -> {"none", "open", "filled", "cancelled", "rejected"}]
    /\ traded \in [Orders -> 0..Qty]
    /\ late \subseteq Nat /\ blind \in BOOLEAN
    /\ frames \in Nat /\ faults \in Nat

\* Exactly one spot_executions row per fill, although both channels check first and
\* insert later, on connections that run concurrently.
OneRowPerFill == \A d, e \in execs : d.fill = e.fill => d = e

\* The Tick never adds a fill to balances that already reflect it.
FoldedOnce == tpc = "append" => \A e \in tnew : e.fill \notin tbase.applied

\* Balances whose watermark has passed an execution reflect its fill, unless that
\* execution committed after one with a higher id.
SkippedOnlyWhenLate ==
    \A r \in rows : \A e \in execs :
        e.id <= r.mark /\ e.id \notin late => e.fill \in r.applied

\* A trade record that says it executed has an execution row: fills are persisted
\* before the status, wherever the handler stops.
ExecutedHasRow ==
    \A o \in Orders : status[o] \in {"partial_filled", "filled"} =>
        \E e \in execs : e.fill[1] = o

\* Reports that all find the instance unfunded seed its ledger once: whoever holds a
\* seed row is alone, and no balances descend from another seed.
Seeding(c) == hpc[c] \in {"watermark", "seed"}
SeededOnce ==
    \A c \in Conns : Seeding(c) =>
        /\ \A d \in Conns : Seeding(d) => d = c
        /\ \A r \in rows : ~r.seeded

\* A Tick never finds its client_order_id taken: the ledger row of its millisecond,
\* written first, excludes a second Tick in the same one.
FreshOrderID == tpc = "record" => status[tms] = "none"

\* No terminal trade record changes again, whichever writer comes late.
TerminalStays ==
    [][\A o \in Orders : status[o] \in Terminal => status'[o] = status[o]]_vars

-----------------------------------------------------------------------------
(***************************************************************************)
(* The inductive invariant of the proofs in TradeLedgerProofs.             *)
(***************************************************************************)

HasExec(o) == \E e \in execs : e.fill[1] = o

\* Ids are drawn once: whoever is about to commit holds an id nobody else has.
IdsFresh ==
    /\ \A e \in execs : e.id > 0
    /\ \A c \in Conns : hpc[c] = "commit" =>
         /\ eid[c] \in 1 .. nextID /\ \A e \in execs : e.id # eid[c]
         /\ \A d \in Conns : hpc[d] = "commit" /\ eid[d] = eid[c] => d = c

\* What balances mean: their watermark is an id, every fill they reflect has a row at
\* or below it, and they reflect every row below it that did not commit late.
RowSound(r) ==
    /\ r.mark = 0 \/ \E e \in execs : e.id = r.mark
    /\ \A f \in r.applied : \E e \in execs : e.fill = f /\ e.id <= r.mark
    /\ \A e \in execs : e.id <= r.mark /\ e.id \notin late => e.fill \in r.applied

\* So do the stored rows, the row a Tick starts from and the seed row.
RowsSound ==
    /\ \A r \in rows : RowSound(r)
    /\ RowSound(tbase)
    /\ \A c \in Conns : hpc[c] = "seed" => RowSound(seed[c])

\* The fills a Tick read are those above its watermark, but for the ones that
\* committed after it read: these are late, or above all it read.
TickSound ==
    /\ tpc # "idle" => tms \in Times
    /\ tpc = "append" =>
         /\ tnew \subseteq execs /\ \A e \in tnew : e.id > tbase.mark
         /\ \A e \in execs \ tnew : e.id > tbase.mark /\ e.id \notin late =>
              \A d \in tnew : d.id < e.id

\* The ledger row of a millisecond comes before the order of that millisecond.
RowBeforeOrder ==
    /\ tpc \in {"record", "send"} => \E r \in rows : r.ms = tms
    /\ \A o \in Orders : status[o] # "none" => \E r \in rows : r.ms = o

\* What is left of an order_update is about its order, and once nothing is left the
\* order has a row if the update says it executed; a fill to be marked has one.
FrameSound ==
    \A c \in Conns :
        /\ hpc[c] \in {"insert", "commit", "mark"} => cur[c] \in Fill
        /\ hpc[c] = "mark" => frame[c].kind # "order_update" /\ Exists(cur[c])
        /\ frame[c].kind = "order_update" =>
             /\ frame[c].order \in Orders /\ frame[c].status \in TradeStatus \ {"none", "pending"}
             /\ \A f \in frame[c].fills : f[1] = frame[c].order
             /\ hpc[c] \in {"insert", "commit"} => cur[c][1] = frame[c].order
             /\ hpc[c] = "check" /\ frame[c].fills = {}
                /\ frame[c].status \in {"partial_filled", "filled"} => HasExec(frame[c].order)

\* Until the seed row is written nothing descends from a seed.
Unseeded == (\A r \in rows : ~r.seeded) /\ ~tbase.seeded
SeedSound ==
    /\ ~funded => Unseeded
    /\ \A c \in Conns : Seeding(c) => funded /\ Unseeded /\ \A d \in Conns : Seeding(d) => d = c

BookSound ==
    \A o \in Orders : (book[o] = "none" => traded[o] = 0) /\ (book[o] = "open" => traded[o] < Qty)

IInv ==
    /\ TypeOK /\ IdsFresh /\ OneRowPerFill /\ RowsSound /\ TickSound
    /\ RowBeforeOrder /\ FreshOrderID /\ FrameSound /\ ExecutedHasRow /\ SeedSound /\ BookSound

-----------------------------------------------------------------------------
(***************************************************************************)
(* A statement of the source that does not hold.                           *)
(***************************************************************************)

\* Reports are compared with balances that grew from the funded baseline, never with
\* the empty ledger of a fresh instance.
ComparedIsSeeded == ~blind
=============================================================================
