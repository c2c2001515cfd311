------------------------------ MODULE LiveTick ------------------------------
(***************************************************************************)
(* Live trading decisions: the cron scheduler fires Manager.Tick for every *)
(* live instance in parallel; a Tick loads its state, asks sigmoid_v1.Step *)
(* for macro and micro orders, and then writes the portfolio row, the      *)
(* runtime state, the trade records and the command frames, one after the  *)
(* other, each of which may fail.                                          *)
(*                                                                         *)
(* Time is counted in scheduler intervals, which are also bars; a          *)
(* millisecond is an interval and an offset in it.  The NAV of a Tick is   *)
(* the close of its newest bar (holdings move it far less); whether the    *)
(* cash suffices and what the micro engine wants is free.  No live Tick    *)
(* releases anything: the genesis seed (buildSeedPortfolio) and the fills  *)
(* (applyFills) touch the float only, so DeadBTC stays 0 and so does       *)
(* computeReleaseQty; evaluateRelease and its stamp are left out.          *)
(* Fills and funding: TradeLedger.  Instance status: Champions.            *)
(***************************************************************************)
EXTENDS Integers, Sequences, FiniteSetsExt

CONSTANTS
    Instances,
    LiveFrom,    \* the interval from which an instance is live
    MaxTime,     \* bound: intervals
    Offsets,     \* milliseconds told apart in an interval
    Closes,      \* price paths: the close of each bar
    MonthOf,     \* the UTC month of an interval
    StaleLimit,  \* MaxBarStaleness
    Deadline,    \* macroDeadlineWindowMs
    PeakWindow,  \* navPeakWindowDurationMs
    MaxFaults    \* bound: failing statements and sends, and crashes

Times == 1 .. MaxTime
Navs == 1 .. 3

ASSUME LiveTickAssumption ==
    /\ MaxTime \in Nat \ {0} /\ LiveFrom \in [Instances -> Times] /\ MonthOf \in [Times -> Nat]
    /\ \A s, t \in Times : s < t => MonthOf[s] <= MonthOf[t]
    /\ Deadline \in Nat /\ PeakWindow \in Nat /\ StaleLimit \in Nat
    /\ Closes \subseteq [Times -> Navs] /\ Offsets # {} /\ MaxFaults \in Nat
    /\ "none" \notin Instances

VARIABLES
    clock,      \* the current interval
    close,      \* the price path
    feed,       \* the newest stored bar, 0: none
    ps,         \* latest PortfolioState: LastProcessedBarTime, 0: no row
    rs,         \* RuntimeState
    tick,       \* the Tick in flight of each instance
    records,    \* trade_records: the owner of a client_order_id
    sent,       \* commands handed to the agent's connection
    faults

vars == <<clock, close, feed, ps, rs, tick, records, sent, faults>>
tables == <<ps, rs, records, sent>>

Kinds == {"macro", "micro"}
OrderIDs == Kinds \X Times \X Offsets

\* freshRuntimeState.
FreshRuntime == [macro |-> 0, peak |-> {}]

NoTick == [pc |-> "idle", now |-> 0, bar |-> 0,
           next |-> FreshRuntime, reason |-> "none", orders |-> <<>>, at |-> 1]

RuntimeType == [macro : 0 .. MaxTime, peak : SUBSET (Times \X Navs)]

TickType ==
    [pc : {"idle", "start", "append", "upsert", "record", "send"}, now : 0 .. MaxTime,
     bar : 0 .. MaxTime, next : RuntimeType,
     reason : {"none", "monthly", "deadline"}, orders : Seq(OrderIDs), at : Nat \ {0}]

CommandType ==
    [by : Instances, id : OrderIDs, bar : Times, reason : {"none", "monthly", "deadline", "micro"}]

\* One entry per Tick, PeakWindow apart at most.
PeakSound(peak) == \A e, f \in peak : (e[1] = f[1] => e = f) /\ e[1] - f[1] <= PeakWindow

\* Types; a Tick never runs past its orders, and the stored peak window is bounded.
TypeOK ==
    /\ clock \in Times /\ close \in Closes /\ feed \in 0 .. MaxTime
    /\ ps \in [Instances -> 0 .. MaxTime] /\ rs \in [Instances -> RuntimeType]
    /\ tick \in [Instances -> TickType]
    /\ \A i \in Instances : PeakSound(rs[i].peak) /\ tick[i].at <= Len(tick[i].orders) + 1
    /\ records \in [OrderIDs -> Instances \cup {"none"}] /\ sent \subseteq CommandType
    /\ faults \in 0 .. MaxFaults

\* ListLive at interval t: a live instance gets a Tick goroutine, unless its lock is
\* held (ErrTickInFlight).
Fire(i, t, tk) ==
    IF LiveFrom[i] <= t /\ tk.pc = "idle" THEN [NoTick EXCEPT !.pc = "start"] ELSE tk

Init ==
    /\ clock = 1 /\ close \in Closes /\ feed = 0
    /\ ps = [i \in Instances |-> 0] /\ rs = [i \in Instances |-> FreshRuntime]
    /\ tick = [i \in Instances |-> Fire(i, 1, NoTick)]
    /\ records = [o \in OrderIDs |-> "none"] /\ sent = {}
    /\ faults = 0

Fault == faults < MaxFaults /\ faults' = faults + 1
---------------------------------------------------------------------------
(* The scheduler and the bars *)

\* scanAndTick fires all instances at once.
ScanAndTick ==
    /\ clock < MaxTime /\ clock' = clock + 1
    /\ \A i \in Instances : tick[i].pc # "start"
    /\ tick' = [i \in Instances |-> Fire(i, clock', tick[i])]
    /\ UNCHANGED <<close, feed, tables, faults>>

\* The datafeeder stores bars up to some point, the open bar at the latest.
FeedBars(b) ==
    /\ feed < b /\ b <= clock /\ feed' = b
    /\ UNCHANGED <<clock, close, tables, tick, faults>>
---------------------------------------------------------------------------
(* sigmoid_v1.Step *)

\* EvaluateMacroEngine: the month of the clock against the month of the last bar
\* processed; else the dead line.
MacroReason(now, lastBar, lastMacro) ==
    IF lastBar > 0 /\ MonthOf[now] # MonthOf[lastBar] THEN "monthly"
    ELSE IF lastMacro = 0 \/ now - lastMacro >= Deadline THEN "deadline"
    ELSE "none"

\* Mutant of RollPeakWindow: nothing is trimmed.
RollPeakWindowUntrimmed(peak, now, nav) == peak \cup {<<now, nav>>}

\* rollNAVPeakWindow.
RollPeakWindow(peak, now, nav) ==
    {e \in peak : e[1] >= now - PeakWindow} \cup {<<now, nav>>}

\* applyMacroDecision: without the cash the buy is skipped silently, not reduced.
MacroDecision(r, now, lastBar, cash) ==
    IF cash THEN MacroReason(now, lastBar, r.macro) ELSE "none"

\* applyMacroDecision stamps the buy it orders.
StampMacro(r, now, reason) == [r EXCEPT !.macro = IF reason = "none" THEN @ ELSE now]

\* At most one macro and one micro order (buildMicroOrders), whose ids hold the kind
\* and the millisecond; Tick dispatches them in this order.
Orders(now, ms, reason, micro) ==
    (IF reason = "none" THEN <<>> ELSE <<<<"macro", now, ms>>>>)
    \o (IF micro THEN <<<<"micro", now, ms>>>> ELSE <<>>)

\* stepCore: macro decision, then the peak window with this bar.
Step(r, now, lastBar, nav, cash) ==
    LET reason == MacroDecision(r, now, lastBar, cash)
    IN [reason |-> reason,
        next |-> [StampMacro(r, now, reason) EXCEPT !.peak = RollPeakWindow(r.peak, now, nav)]]

\* Mutants of Stages: one of the two states is written after the orders.
StagesPortfolioLast == <<"upsert", "record", "send", "append">>
StagesRuntimeLast == <<"append", "record", "send", "upsert">>

\* The order of the writes: portfolio row, runtime state, then dispatch, which
\* records all orders before it sends the first.
Stages == <<"append", "upsert", "record", "send">>

\* The first stage after the k-th; the dispatcher is skipped without orders.
Enter(t, k) ==
    LET left == {n \in k + 1 .. Len(Stages) : Stages[n] \in {"append", "upsert"} \/ t.orders # <<>>}
    IN IF left = {} THEN NoTick ELSE [t EXCEPT !.pc = Stages[Min(left)], !.at = 1]

\* After a write: the next order of this stage, or the next stage.
After(t) ==
    IF t.pc \in {"record", "send"} /\ t.at < Len(t.orders) THEN [t EXCEPT !.at = @ + 1]
    ELSE Enter(t, CHOOSE k \in DOMAIN Stages : Stages[k] = t.pc)

\* barStaleness: no bar, or the newest one is too old.
BarsStale == feed = 0 \/ clock - feed > StaleLimit

\* Manager.Tick up to Step.  Tick reads the clock once; a stale feed ends the
\* cycle, and so does a failing load.
Decide(i) ==
    /\ tick[i].pc = "start"
    /\ \/ /\ ~BarsStale /\ UNCHANGED faults
          /\ \E ms \in Offsets, cash, micro \in BOOLEAN :
               LET out == Step(rs[i], clock, ps[i], close[feed], cash)
               IN tick' = [tick EXCEPT ![i] = Enter(
                    [pc |-> "start", now |-> clock, bar |-> feed, next |-> out.next,
                     reason |-> out.reason, at |-> 1,
                     orders |-> Orders(clock, ms, out.reason, micro)], 0)]
       \/ BarsStale /\ tick' = [tick EXCEPT ![i] = NoTick] /\ UNCHANGED faults
       \/ Fault /\ tick' = [tick EXCEPT ![i] = NoTick]
    /\ UNCHANGED <<clock, close, feed, tables>>
---------------------------------------------------------------------------
(* What a Tick writes *)

\* The Tick returns an error; the next one starts from the tables.
GiveUp(i) == Fault /\ tick' = [tick EXCEPT ![i] = NoTick]

\* The portfolio row: last bar.
AppendPortfolio(i) ==
    /\ tick[i].pc = "append"
    /\ \/ /\ ps' = [ps EXCEPT ![i] = tick[i].bar]
          /\ tick' = [tick EXCEPT ![i] = After(tick[i])] /\ UNCHANGED faults
       \/ GiveUp(i) /\ UNCHANGED ps
    /\ UNCHANGED <<clock, close, feed, rs, records, sent>>

UpsertRuntime(i) ==
    /\ tick[i].pc = "upsert"
    /\ \/ /\ rs' = [rs EXCEPT ![i] = tick[i].next]
          /\ tick' = [tick EXCEPT ![i] = After(tick[i])] /\ UNCHANGED faults
       \/ GiveUp(i) /\ UNCHANGED rs
    /\ UNCHANGED <<clock, close, feed, ps, records, sent>>

\* Mutant of RecordOrder: a taken id counts as recorded.
RecordOrderTaken(i) ==
    /\ tick[i].pc = "record"
    /\ LET o == tick[i].orders[tick[i].at]
       IN \/ /\ records' = IF records[o] = "none" THEN [records EXCEPT ![o] = i] ELSE records
             /\ tick' = [tick EXCEPT ![i] = After(tick[i])] /\ UNCHANGED faults
          \/ GiveUp(i) /\ UNCHANGED records
    /\ UNCHANGED <<clock, close, feed, ps, rs, sent>>

\* InsertTradeRecord for each order.  gorm runs without TranslateError (NewDB), so a
\* taken client_order_id is not ErrDuplicatedKey: Dispatch returns the error and the
\* Tick ends; what it recorded before stays.
RecordOrder(i) ==
    /\ tick[i].pc = "record"
    /\ LET o == tick[i].orders[tick[i].at]
       IN \/ /\ records[o] = "none" /\ records' = [records EXCEPT ![o] = i]
             /\ tick' = [tick EXCEPT ![i] = After(tick[i])] /\ UNCHANGED faults
          \/ /\ records[o] # "none" /\ tick' = [tick EXCEPT ![i] = NoTick]
             /\ UNCHANGED <<records, faults>>
          \/ GiveUp(i) /\ UNCHANGED records
    /\ UNCHANGED <<clock, close, feed, ps, rs, sent>>

\* buildTradeCommand; reason and bar are what the order was decided on.
Command(i, t, o) == [by |-> i, id |-> o, bar |-> t.bar,
                     reason |-> IF o[1] = "macro" THEN t.reason ELSE "micro"]

\* Hub.Dispatch: one frame per order; no Ready connection or a full outbox ends it.
SendOrder(i) ==
    /\ tick[i].pc = "send"
    /\ LET t == tick[i] o == t.orders[t.at]
       IN \/ /\ sent' = sent \cup {Command(i, t, o)}
             /\ tick' = [tick EXCEPT ![i] = After(tick[i])] /\ UNCHANGED faults
          \/ GiveUp(i) /\ UNCHANGED sent
    /\ UNCHANGED <<clock, close, feed, ps, rs, records>>

\* The process dies and starts again some time later; the scheduler scans at once.
Crash ==
    /\ Fault /\ clock < MaxTime /\ clock' = clock + 1
    /\ tick' = [i \in Instances |-> Fire(i, clock', NoTick)]
    /\ UNCHANGED <<close, feed, tables>>

Tick(i) == Decide(i) \/ AppendPortfolio(i) \/ UpsertRuntime(i) \/ RecordOrder(i) \/ SendOrder(i)

Next ==
    \/ ScanAndTick \/ Crash \/ \E b \in Times : FeedBars(b)
    \/ \E i \in Instances : Tick(i)

Spec == Init /\ [][Next]_vars
---------------------------------------------------------------------------
Macro(o) == o.reason \in {"monthly", "deadline"}

\* A deadline buy is sent only when no macro buy of the instance was sent within the
\* deadline before it, whatever write, send or process fails in between: the stamp is
\* stored before the order leaves (Manager.Tick, EvaluateMacroEngine).
DeadlineSpaced ==
    \A o, p \in sent :
        o.by = p.by /\ Macro(o) /\ p.reason = "deadline" /\ o.id[2] < p.id[2]
        => p.id[2] - o.id[2] >= Deadline

Monthly(o, p) ==
    /\ o.by = p.by /\ o.reason = "monthly" /\ p.reason = "monthly"
    /\ o.id[2] < p.id[2] /\ MonthOf[o.id[2]] = MonthOf[p.id[2]]

\* The monthly buy is sent a second time in a month only when the first was
\* decided on bars of the month before; no failure or crash repeats it, because
\* the portfolio row precedes the orders (Manager.Tick, EvaluateMacroEngine).
RepeatedOnlyBehind ==
    \A o, p \in sent : Monthly(o, p) => MonthOf[o.bar] # MonthOf[o.id[2]]

\* Before the first command of a Tick is sent, every order of that Tick has a trade
\* record of this instance, and a sent command keeps it: acks and fills by
\* client_order_id never reach the ledger of another instance that ticked in the
\* same millisecond (recordingDispatcher.Dispatch, InsertTradeRecord).
SentIsRecorded ==
    /\ \A o \in sent : records[o.id] = o.by
    /\ \A i \in Instances : tick[i].pc = "send" =>
         \A k \in DOMAIN tick[i].orders : records[tick[i].orders[k]] = i
---------------------------------------------------------------------------
(* The inductive invariant of the proofs in LiveTickProofs *)

Decided == {"append", "upsert", "record", "send"}

\* What an instance has written so far is of this interval or earlier.
Limit(i) ==
    IF tick[i].pc = "start" THEN clock - 1
    ELSE IF tick[i].pc = "append" THEN tick[i].now - 1
    ELSE IF tick[i].pc = "idle" THEN clock ELSE tick[i].now

PastOK(i) ==
    /\ \A e \in rs[i].peak : e[1] <= Limit(i)
    /\ rs[i].macro <= Limit(i)
    /\ \A o \in sent : o.by = i => o.id[2] <= Limit(i)

PastSound == \A i \in Instances : PastOK(i)

\* A Tick that decided: its interval and bar, its orders, and what it decided from,
\* which stays in the tables until it writes.
TickOK(i) ==
    LET t == tick[i] IN t.pc \in Decided =>
        /\ t.now \in 1 .. clock /\ t.bar \in 1 .. t.now /\ t.bar <= feed
        /\ \A k \in DOMAIN t.orders : t.orders[k][2] = t.now
        /\ IF t.pc = "append" THEN ps[i] <= t.bar ELSE t.bar <= ps[i]
        /\ t.pc \in {"append", "upsert"} =>
             /\ t.next.macro = IF t.reason = "none" THEN rs[i].macro ELSE t.now
             /\ PeakSound(t.next.peak) /\ \A e \in t.next.peak : e[1] <= t.now
        /\ t.pc \in {"record", "send"} =>
             t.at <= Len(t.orders) /\ (t.reason # "none" => rs[i].macro = t.now)
        /\ t.pc = "record" => \A k \in 1 .. t.at - 1 : records[t.orders[k]] = i

TickSound == \A i \in Instances : TickOK(i)

\* A macro buy that was sent is stamped in the runtime state.
StampSound == \A o \in sent : Macro(o) => o.id[2] <= rs[o.by].macro

\* A deadline buy in flight keeps the distance to the buys already sent.
DeadlineOK(i) ==
    tick[i].pc \in Decided /\ tick[i].reason = "deadline" =>
        \A o \in sent :
            o.by = i /\ Macro(o) /\ o.id[2] < tick[i].now => tick[i].now - o.id[2] >= Deadline

DeadlineSound == \A i \in Instances : DeadlineOK(i)

\* Bars only advance, so a monthly buy that was decided on a bar of its month leaves
\* the portfolio row in that month.
BarsAdvance ==
    /\ feed <= clock /\ \A i \in Instances : ps[i] <= feed
    /\ \A o \in sent : o.bar <= ps[o.by] /\ o.bar <= o.id[2]

MonthOK(i) ==
    tick[i].pc \in Decided /\ tick[i].reason = "monthly" =>
        \A o \in sent :
            /\ o.by = i /\ o.reason = "monthly" /\ o.id[2] < tick[i].now
            /\ MonthOf[o.id[2]] = MonthOf[tick[i].now]
            => MonthOf[o.bar] # MonthOf[o.id[2]]

MonthSound == \A i \in Instances : MonthOK(i)

IInv ==
    /\ TypeOK /\ PastSound /\ TickSound /\ StampSound /\ DeadlineSound /\ BarsAdvance
    /\ MonthSound /\ DeadlineSpaced /\ RepeatedOnlyBehind /\ SentIsRecorded
---------------------------------------------------------------------------
\* docs/strategies/sigmoid_v1.md: the macro engine buys monthly.
MonthlyOnce == \A o, p \in sent : ~Monthly(o, p)
============================================================================
