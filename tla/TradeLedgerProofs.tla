-------------------------- MODULE TradeLedgerProofs -------------------------
(***************************************************************************)
(* TLAPS proofs about TradeLedger: typing, one row per fill, the           *)
(* watermark, the order of fills and statuses, seeding and order ids, for  *)
(* any number of connections, any order size and any bound.                *)
(***************************************************************************)
EXTENDS TradeLedger, FiniteSetTheorems, TLAPS

-----------------------------------------------------------------------------
(* Greatest elements *)

\* Every non-empty set of naturals has a least element.
LEMMA LeastNat ==
    ASSUME NEW T, T \subseteq Nat, T # {}
    PROVE  \E m \in T : \A n \in T : m <= n
  <1>1. PICK x \in T : \A y \in T : ~ (<<y, x>> \in OpToRel(<, Nat))
    BY NatLessThanWellFounded, WFMin
  <1>2. \A y \in T : ~(y < x)
    BY <1>1 DEF OpToRel
  <1> QED
    BY <1>2

\* Every non-empty bounded set of naturals has a greatest element: its least bound.
LEMMA GreatestNat ==
    ASSUME NEW S, S \subseteq Nat, S # {}, NEW b \in Nat, \A n \in S : n <= b
    PROVE  \E m \in S : \A n \in S : n <= m
  <1> DEFINE T == {k \in Nat : \A n \in S : n <= k}
  <1>1. PICK k \in T : \A j \in T : k <= j
    <2>1. T \subseteq Nat /\ b \in T
      OBVIOUS
    <2> HIDE DEF T
    <2> QED
      BY <2>1, LeastNat
  <1>2. k \in Nat /\ \A n \in S : n <= k
    BY <1>1
  <1>3. CASE k \in S
    BY <1>2, <1>3
  <1>4. CASE k \notin S
    <2>1. \A n \in S : n < k
      BY <1>2, <1>4
    <2>2. PICK n \in S : n \in Nat /\ n < k
      BY <2>1
    <2>3. k - 1 \in T
      BY <1>2, <2>1, <2>2
    <2> QED
      BY <1>1, <1>2, <2>3
  <1> QED
    BY <1>3, <1>4

\* What Max0 returns for a bounded set.
LEMMA Max0Bounds ==
    ASSUME NEW S, S \subseteq Nat, NEW b \in Nat, \A n \in S : n <= b
    PROVE  /\ Max0(S) \in Nat /\ \A n \in S : n <= Max0(S)
           /\ Max0(S) \in S \/ (S = {} /\ Max0(S) = 0)
  <1>1. CASE S = {}
    BY <1>1 DEF Max0
  <1>2. CASE S # {}
    <2>1. \E m \in S : \A n \in S : n <= m
      BY <1>2, GreatestNat
    <2> QED
      BY <1>2, <2>1 DEF Max0
  <1> QED
    BY <1>1, <1>2

\* MaxExecutionID is the highest id, or 0 without a row.
LEMMA MaxExecution ==
    ASSUME TypeOK
    PROVE  /\ MaxExecutionID \in Nat /\ \A e \in execs : e.id <= MaxExecutionID
           /\ MaxExecutionID = 0 \/ \E e \in execs : e.id = MaxExecutionID
  <1> DEFINE S == {e.id : e \in execs}
  <1>1. S \subseteq Nat /\ nextID \in Nat /\ \A n \in S : n <= nextID
    BY DEF TypeOK, ExecType
  <1> HIDE DEF S
  <1>2. /\ Max0(S) \in Nat /\ \A n \in S : n <= Max0(S)
        /\ Max0(S) \in S \/ (S = {} /\ Max0(S) = 0)
    BY <1>1, Max0Bounds
  <1> QED
    BY <1>2 DEF MaxExecutionID, S

\* An instance has a latest row, or none at all.
LEMMA LatestRow ==
    ASSUME TypeOK
    PROVE  Latest \in rows \/ (rows = {} /\ Latest = NoRow)
  <1>1. CASE rows = {}
    BY <1>1 DEF Latest
  <1>2. CASE rows # {}
    <2> DEFINE S == {r.ms : r \in rows}
    <2>1. S \subseteq Nat /\ S # {} /\ \A n \in S : n <= MaxNow
      BY <1>2, LimitAssumption DEF TypeOK, RowType
    <2> HIDE DEF S
    <2>2. PICK m \in S : \A n \in S : n <= m
      BY <2>1, GreatestNat, LimitAssumption
    <2>3. \E r \in rows : \A s \in rows : s.ms <= r.ms
      BY <2>2 DEF S
    <2> QED
      BY <1>2, <2>3 DEF Latest
  <1> QED
    BY <1>1, <1>2

\* The watermark of the row a Tick appends.
LEMMA AppliedMark ==
    ASSUME TypeOK, TickSound, tpc = "append"
    PROVE  /\ applyFills.mark \in Nat /\ tbase.mark <= applyFills.mark
           /\ \A e \in tnew : e.id <= applyFills.mark
           /\ applyFills.mark = tbase.mark \/ \E e \in tnew : e.id = applyFills.mark
  <1> DEFINE S == {tbase.mark} \cup {e.id : e \in tnew}
  <1>1. tbase.mark \in Nat /\ nextID \in Nat /\ \A e \in tnew : e.id \in Nat /\ e.id <= nextID
    BY DEF TypeOK, ExecType, RowType, TickSound
  <1>2. S \subseteq Nat /\ tbase.mark + nextID \in Nat /\ \A n \in S : n <= tbase.mark + nextID
    BY <1>1
  <1> HIDE DEF S
  <1>3. /\ Max0(S) \in Nat /\ \A n \in S : n <= Max0(S)
        /\ Max0(S) \in S \/ (S = {} /\ Max0(S) = 0)
    BY <1>2, Max0Bounds
  <1>4. applyFills.mark = Max0(S)
    BY DEF applyFills, Row, S
  <1> QED
    BY <1>3, <1>4 DEF S

-----------------------------------------------------------------------------
(* Typing *)

\* The absent row and the absent frame.
LEMMA Absent == NoRow \in RowType /\ NoFrame \in FrameType
  BY LimitAssumption DEF NoRow, Row, RowType, NoFrame, Frame, FrameType, TradeStatus, Orders, Times

\* A handler that returns leaves the locals of all handlers well typed.
LEMMA DoneType ==
    ASSUME TypeOK, NEW c \in Conns, Done(c)
    PROVE  /\ hpc' \in [Conns -> {"idle", "check", "insert", "commit", "mark", "watermark", "seed"}]
           /\ frame' \in [Conns -> FrameType]
           /\ cur' \in [Conns -> Fill \cup {NoFill}]
           /\ eid' \in [Conns -> Nat]
           /\ seed' \in [Conns -> RowType]
  BY Absent DEF TypeOK, Done

\* What a Tick returns to.
LEMMA TickReturnsType ==
    ASSUME TickReturns
    PROVE  /\ tpc' = "idle" /\ tms' \in 0 .. MaxNow /\ tbase' \in RowType
           /\ tnew' \subseteq ExecType
  BY Absent, LimitAssumption DEF TickReturns

\* The three ways a status is written keep the statuses well typed.
LEMMA StatusType ==
    ASSUME TypeOK, NEW o, NEW s \in TradeStatus,
           UpdateTradeStatus(o, s) \/ MarkPartialIfPending(o)
    PROVE  status' \in [Orders -> TradeStatus]
  BY DEF TypeOK, UpdateTradeStatus, MarkPartialIfPending, TradeStatus

\* Executed fills are fills.
LEMMA ExecutedFill ==
    ASSUME TypeOK, NEW o \in Orders
    PROVE  Executed(o) \subseteq Fill
  BY QtyAssumption DEF TypeOK, Executed, Fill

\* TypeOK is preserved: ids and fills of the handlers are at hand where they are used.
LEMMA TypeStep == IInv /\ [Next]_vars => TypeOK'
  <1> SUFFICES ASSUME IInv, [Next]_vars PROVE TypeOK'
    OBVIOUS
  <1>0. TypeOK /\ TickSound /\ FrameSound /\ BookSound
    BY DEF IInv
  <1> USE LimitAssumption DEF tableVars, handlerVars, tickVars, exchangeVars, historyVars, countVars
  <1>1. ASSUME Pass PROVE TypeOK'
    BY <1>0, <1>1 DEF TypeOK, Pass, Times
  <1>2. ASSUME NEW o \in Orders, Place(o) PROVE TypeOK'
    BY <1>0, <1>2 DEF TypeOK, Place
  <1>3. ASSUME NEW o \in Orders, Trade(o) PROVE TypeOK'
    <2>1. traded[o] + 1 \in 0 .. Qty
      BY <1>0, <1>3, QtyAssumption DEF TypeOK, BookSound, Trade
    <2> QED
      BY <1>0, <1>3, <2>1 DEF TypeOK, Trade
  <1>4. ASSUME NEW o \in Orders, Cancel(o) PROVE TypeOK'
    BY <1>0, <1>4 DEF TypeOK, Cancel
  <1>5. ASSUME NEW c \in Conns, NEW o \in Orders, ReceiveAck(c, o) PROVE TypeOK'
    <2>1. PICK s \in {"rejected", "cancelled"} : UpdateTradeStatus(o, s)
      BY <1>5 DEF ReceiveAck, ackToTradeStatus
    <2>2. status' \in [Orders -> TradeStatus]
      BY <1>0, <2>1, StatusType DEF TradeStatus, Terminal
    <2> QED
      BY <1>0, <1>5, <2>2 DEF TypeOK, ReceiveAck, Receiving
  <1>6. ASSUME NEW c \in Conns, NEW o \in Orders, ReceiveOrderUpdate(c, o) PROVE TypeOK'
    <2>1. PICK fs \in SUBSET Executed(o),
               s \in {"filled", "partial_filled", "cancelled", "rejected"} :
             frame' = [frame EXCEPT ![c] = Frame("order_update", o, s, fs, FALSE)]
      BY <1>6 DEF ReceiveOrderUpdate
    <2>2. fs \subseteq Fill
      BY <1>0, ExecutedFill
    <2>3. Frame("order_update", o, s, fs, FALSE) \in FrameType
      BY <2>2 DEF Frame, FrameType, TradeStatus, Terminal
    <2>4. frame' \in [Conns -> FrameType]
      BY <1>0, <2>1, <2>3 DEF TypeOK
    <2>5. hpc' = [hpc EXCEPT ![c] = "check"] /\ UNCHANGED status /\ Receiving(c)
      BY <1>6 DEF ReceiveOrderUpdate
    <2> QED
      BY <1>0, <2>4, <2>5 DEF TypeOK, Receiving
  <1>7. ASSUME NEW c \in Conns, ReceiveDeltaReport(c) PROVE TypeOK'
    <2>1. PICK fs \in SUBSET UNION {Executed(o) : o \in Orders} :
             frame' = [frame EXCEPT ![c] = Frame("delta_report", 0, "none", fs, ~funded)]
      BY <1>7 DEF ReceiveDeltaReport
    <2>2. fs \subseteq Fill
      BY <1>0, ExecutedFill
    <2>3. Frame("delta_report", 0, "none", fs, ~funded) \in FrameType
      BY <1>0, <2>2 DEF Frame, FrameType, TradeStatus, TypeOK
    <2> QED
      BY <1>0, <1>7, <2>1, <2>3 DEF TypeOK, ReceiveDeltaReport, Receiving
  <1>8. ASSUME NEW c \in Conns, NEW f \in Fill, CheckFill(c, f) PROVE TypeOK'
    <2>1. [frame[c] EXCEPT !.fills = @ \ {f}] \in FrameType
      BY <1>0, SMTT(30) DEF TypeOK, FrameType
    <2>2. frame' \in [Conns -> FrameType]
      BY <1>0, <1>8, <2>1 DEF TypeOK, CheckFill
    <2> QED
      BY <1>0, <1>8, <2>2 DEF TypeOK, CheckFill, Handling
  <1>9. ASSUME NEW c \in Conns, DrawID(c) PROVE TypeOK'
    <2>1. nextID' \in Nat /\ \A e \in execs : e.id <= nextID'
      BY <1>0, <1>9 DEF TypeOK, DrawID, ExecType
    <2> QED
      BY <1>0, <1>9, <2>1 DEF TypeOK, DrawID, Handling
  <1>10. ASSUME NEW c \in Conns, CommitFill(c) PROVE TypeOK'
    <2>1. cur[c] \in Fill /\ eid[c] \in Nat /\ eid[c] <= nextID
      BY <1>0, <1>10 DEF CommitFill, Handling, FrameSound, TypeOK, IInv, IdsFresh
    <2>2. [id |-> eid[c], fill |-> cur[c]] \in ExecType
      BY <2>1 DEF ExecType
    <2>3. execs' \subseteq ExecType /\ \A e \in execs' : e.id <= nextID
      BY <1>0, <1>10, <2>1, <2>2 DEF CommitFill, InsertSpotExecution, TypeOK
    <2>4. late' \subseteq Nat
      BY <1>0, <1>10, <2>1 DEF CommitFill, TypeOK
    <2> QED
      BY <1>0, <1>10, <2>3, <2>4 DEF TypeOK, CommitFill, Handling
  <1>11. ASSUME NEW c \in Conns, MarkPartial(c) PROVE TypeOK'
    <2>1. status' \in [Orders -> TradeStatus]
      BY <1>0, <1>11, StatusType DEF MarkPartial, TradeStatus
    <2> QED
      BY <1>0, <1>11, <2>1 DEF TypeOK, MarkPartial, Handling
  <1>12. ASSUME NEW c \in Conns, FinishUpdate(c) PROVE TypeOK'
    <2>1. frame[c].status \in TradeStatus
      BY <1>0 DEF TypeOK, FrameType
    <2>2. status' \in [Orders -> TradeStatus]
      BY <1>0, <1>12, <2>1, StatusType DEF FinishUpdate
    <2> QED
      BY <1>0, <1>12, <2>2, DoneType DEF TypeOK, FinishUpdate, Handling
  <1>13. ASSUME NEW c \in Conns, Compare(c) PROVE TypeOK'
    BY <1>0, <1>13, DoneType DEF TypeOK, Compare, Handling
  <1>14. ASSUME NEW c \in Conns, Claim(c) PROVE TypeOK'
    <2>1. Row(now, TRUE, {}, 0) \in RowType
      BY <1>0 DEF TypeOK, RowType, Row, Times
    <2>2. CASE funded' = TRUE /\ seed' = [seed EXCEPT ![c] = Row(now, TRUE, {}, 0)]
               /\ hpc' = [hpc EXCEPT ![c] = "watermark"] /\ UNCHANGED <<frame, cur, eid>>
      BY <1>0, <1>14, <2>1, <2>2 DEF TypeOK, Claim, Handling
    <2>3. CASE Done(c) /\ UNCHANGED funded
      BY <1>0, <1>14, <2>3, DoneType DEF TypeOK, Claim, Handling
    <2> QED
      BY <1>14, <2>2, <2>3 DEF Claim
  <1>15. ASSUME NEW c \in Conns, SeedWatermark(c) PROVE TypeOK'
    <2> DEFINE r == Row(seed[c].ms, TRUE, {e.fill : e \in execs}, MaxExecutionID)
    <2>1. r \in RowType
      <3>1. seed[c].ms \in 0 .. MaxNow /\ {e.fill : e \in execs} \subseteq Fill
        BY <1>0 DEF TypeOK, RowType, ExecType
      <3> QED
        BY <1>0, <3>1, MaxExecution DEF Row, RowType
    <2>2. seed' = [seed EXCEPT ![c] = r]
      BY <1>15 DEF SeedWatermark
    <2> HIDE DEF r
    <2> QED
      BY <1>0, <1>15, <2>1, <2>2 DEF TypeOK, SeedWatermark, Handling
  <1>16. ASSUME NEW c \in Conns, AppendSeed(c) PROVE TypeOK'
    <2>1. rows' \subseteq RowType
      BY <1>0, <1>16 DEF TypeOK, AppendSeed
    <2> QED
      BY <1>0, <1>16, <2>1, DoneType DEF TypeOK, AppendSeed, Handling
  <1>17. ASSUME NEW c \in Conns, HandlerFails(c) PROVE TypeOK'
    BY <1>0, <1>17, DoneType DEF TypeOK, HandlerFails
  <1>18. ASSUME TickStart PROVE TypeOK'
    BY <1>0, <1>18 DEF TypeOK, TickStart, TickStep, Times
  <1>19. ASSUME TickLoad PROVE TypeOK'
    <2>1. Latest \in RowType
      BY <1>0, LatestRow, Absent DEF TypeOK
    <2> QED
      BY <1>0, <1>19, <2>1 DEF TypeOK, TickLoad, TickStep
  <1>20. ASSUME TickFold PROVE TypeOK'
    BY <1>0, <1>20 DEF TypeOK, TickFold, TickStep, NewExecutions
  <1>21. ASSUME TickAppend PROVE TypeOK'
    <2>1. applyFills \in RowType
      <3>1. tbase.applied \cup {e.fill : e \in tnew} \subseteq Fill /\ tbase.seeded \in BOOLEAN
        BY <1>0 DEF TypeOK, RowType, ExecType
      <3>2. applyFills.mark \in Nat
        BY <1>0, <1>21, AppliedMark DEF TickAppend
      <3>3. applyFills = Row(tms, tbase.seeded, tbase.applied \cup {e.fill : e \in tnew},
                             applyFills.mark)
        BY DEF applyFills, Row
      <3> QED
        BY <1>0, <3>1, <3>2, <3>3 DEF TypeOK, RowType, Row
    <2>2. rows' \subseteq RowType
      BY <1>0, <1>21, <2>1 DEF TypeOK, TickAppend
    <2>3. /\ tpc' \in {"idle", "record"} /\ tms' \in 0 .. MaxNow
          /\ tbase' \in RowType /\ tnew' \subseteq ExecType
      BY <1>0, <1>21, TickReturnsType, Absent DEF TypeOK, TickAppend
    <2> QED
      BY <1>0, <1>21, <2>2, <2>3 DEF TypeOK, TickAppend
  <1>22. ASSUME InsertTradeRecord PROVE TypeOK'
    <2>1. status' \in [Orders -> TradeStatus]
      BY <1>0, <1>22 DEF TypeOK, InsertTradeRecord, TradeStatus
    <2> QED
      BY <1>0, <1>22, <2>1 DEF TypeOK, InsertTradeRecord, TickStep
  <1>23. ASSUME Dispatch PROVE TypeOK'
    <2>1. tms \in Orders
      BY <1>0, <1>23 DEF TickSound, Dispatch, Orders
    <2> QED
      BY <1>0, <1>23, <2>1, TickReturnsType DEF TypeOK, Dispatch
  <1>24. ASSUME TickFails PROVE TypeOK'
    BY <1>0, <1>24, TickReturnsType DEF TypeOK, TickFails
  <1>25. ASSUME Restart PROVE TypeOK'
    <2>1. status' \in [Orders -> TradeStatus]
      BY <1>0, <1>25 DEF TypeOK, Restart, TradeStatus, Terminal
    <2> QED
      BY <1>0, <1>25, <2>1, TickReturnsType, Absent DEF TypeOK, Restart
  <1>26. CASE UNCHANGED vars
    BY <1>0, <1>26 DEF TypeOK, vars
  <1> QED
    BY <1>1, <1>2, <1>3, <1>4, <1>5, <1>6, <1>7, <1>8, <1>9, <1>10, <1>11, <1>12, <1>13, <1>14,
       <1>15, <1>16, <1>17, <1>18, <1>19, <1>20, <1>21, <1>22, <1>23, <1>24, <1>25, <1>26
       DEF Next, Exchange, Tick, Hook

-----------------------------------------------------------------------------
(* What the longer actions do *)

\* A claim wins the funded flag and goes on to seed, or the handler returns.
LEMMA ClaimEffect ==
    ASSUME TypeOK, NEW c \in Conns, Claim(c)
    PROVE  /\ hpc[c] = "check" /\ UNCHANGED <<status, execs, nextID, rows, tbase, late>>
           /\ \A d \in Conns \ {c} : hpc'[d] = hpc[d] /\ eid'[d] = eid[d] /\ seed'[d] = seed[d]
                                   /\ frame'[d] = frame[d] /\ cur'[d] = cur[d]
           /\ \/ /\ ~funded /\ funded' /\ hpc'[c] = "watermark"
                 /\ UNCHANGED <<frame, cur, eid>>
              \/ UNCHANGED funded /\ hpc'[c] = "idle" /\ frame'[c] = NoFrame
  <1>1. CASE Claimable /\ funded' = TRUE
    BY <1>1 DEF Claim, Handling, Claimable, TypeOK, tickVars, Done
  <1>2. CASE ~Claimable /\ Done(c) /\ UNCHANGED funded
    BY <1>2 DEF Claim, Handling, Done, TypeOK, tickVars
  <1> QED
    BY <1>1, <1>2 DEF Claim, Done

\* A Tick appends the row of its millisecond, or finds it taken and returns.
LEMMA AppendEffect ==
    ASSUME TickAppend
    PROVE  /\ tpc = "append" /\ tbase' = NoRow /\ tnew' = {}
           /\ \/ /\ Vacant(tms) /\ rows' = rows \cup {applyFills}
                 /\ applyFills.ms = tms /\ applyFills.seeded = tbase.seeded
                 /\ (tpc' = "record" /\ tms' = tms) \/ tpc' = "idle"
              \/ tpc' = "idle" /\ UNCHANGED rows
           /\ UNCHANGED <<status, execs, nextID, funded, hpc, frame, cur, eid, seed, late>>
  <1>1. applyFills.ms = tms /\ applyFills.seeded = tbase.seeded
    BY DEF applyFills, Row
  <1> QED
    BY <1>1 DEF TickAppend, TickReturns, handlerVars, historyVars

\* A committed execution is new by its id, and is above all others unless it is late.
LEMMA CommitEffect ==
    ASSUME IInv, NEW c \in Conns, CommitFill(c)
    PROVE  /\ hpc[c] = "commit" /\ cur[c] \in Fill
           /\ UNCHANGED <<status, rows, frame, seed, tpc, tms, tbase, tnew>>
           /\ execs \subseteq execs' /\ \E e \in execs' : e.fill = cur[c]
           /\ \A e \in execs' \ execs : e.id \in late' \/ \A d \in execs : d.id < e.id
           /\ late \subseteq late' /\ \A e \in execs : e.id \in late' => e.id \in late
           /\ \A e \in execs' : e.id \in Nat
           /\ \A d \in Conns \ {c} : hpc'[d] = hpc[d] /\ cur'[d] = cur[d]
           /\ \/ frame[c].kind = "delta_report" /\ hpc'[c] = "mark" /\ cur'[c] = cur[c]
              \/ frame[c].kind # "delta_report" /\ hpc'[c] = "check"
  <1>0. TypeOK /\ IdsFresh /\ FrameSound
    BY DEF IInv
  <1>1. /\ hpc[c] = "commit" /\ eid[c] \in Nat /\ cur[c] \in Fill
        /\ \A e \in execs : e.id \in Nat /\ e.id # eid[c]
    BY <1>0 DEF CommitFill, Handling, IdsFresh, FrameSound, TypeOK, ExecType
  <1>2. execs' = execs \/ execs' = execs \cup {[id |-> eid[c], fill |-> cur[c]]}
    BY DEF CommitFill, InsertSpotExecution
  <1>3. MaxExecutionID \in Nat /\ \A e \in execs : e.id <= MaxExecutionID
    BY <1>0, MaxExecution
  <1>4. late' = late \cup {eid[c]} \/ (late' = late /\ ~(MaxExecutionID > eid[c]))
    BY DEF CommitFill
  <1>5. \A e \in execs' \ execs : e.id \in late' \/ \A d \in execs : d.id < e.id
    BY <1>1, <1>2, <1>3, <1>4
  <1>6. \E e \in execs' : e.fill = cur[c]
    <2>1. CASE Exists(cur[c])
      BY <1>2, <2>1 DEF Exists
    <2>2. CASE ~Exists(cur[c])
      <3>1. execs' = execs \cup {[id |-> eid[c], fill |-> cur[c]]}
        BY <2>2 DEF CommitFill, InsertSpotExecution
      <3>2. [id |-> eid[c], fill |-> cur[c]].fill = cur[c]
        OBVIOUS
      <3> QED
        BY <3>1, <3>2, Zenon
    <2> QED
      BY <2>1, <2>2
  <1>7. /\ \A d \in Conns \ {c} : hpc'[d] = hpc[d] /\ cur'[d] = cur[d]
        /\ \/ frame[c].kind = "delta_report" /\ hpc'[c] = "mark" /\ cur'[c] = cur[c]
           \/ frame[c].kind # "delta_report" /\ hpc'[c] = "check"
    BY <1>0 DEF CommitFill, TypeOK
  <1>8. UNCHANGED <<status, rows, frame, seed, tpc, tms, tbase, tnew>>
    BY DEF CommitFill, Handling, tickVars
  <1>9. \A e \in execs' : e.id \in Nat
    BY <1>1, <1>2
  <1> QED
    BY <1>1, <1>2, <1>4, <1>5, <1>6, <1>7, <1>8, <1>9

-----------------------------------------------------------------------------
(* Balances and their watermark *)

\* A commit leaves balances sound: below their watermark it can only be late.
LEMMA RowKept ==
    ASSUME IInv, NEW c \in Conns, CommitFill(c), NEW r \in RowType, RowSound(r)
    PROVE  RowSound(r)'
  <1>1. /\ execs \subseteq execs' /\ late \subseteq late' /\ \A e \in execs' : e.id \in Nat
        /\ \A e \in execs' \ execs : e.id \in late' \/ \A d \in execs : d.id < e.id
        /\ \A e \in execs : e.id \in late' => e.id \in late
    BY CommitEffect
  <1>2. r.mark \in Nat /\ \A e \in execs' : e.id > 0
    BY DEF RowType, IInv, IdsFresh, CommitFill, InsertSpotExecution, Handling
  <1>3. ASSUME NEW e \in execs' \ execs, e.id <= r.mark PROVE e.id \in late'
    <2>1. PICK d \in execs : d.id = r.mark
      BY <1>1, <1>2, <1>3 DEF RowSound
    <2> QED
      BY <1>1, <1>2, <1>3, <2>1
  <1>4. (r.mark = 0 \/ \E e \in execs : e.id = r.mark)'
    BY <1>1 DEF RowSound
  <1>5. (\A f \in r.applied : \E e \in execs : e.fill = f /\ e.id <= r.mark)'
    BY <1>1 DEF RowSound
  <1>6. (\A e \in execs : e.id <= r.mark /\ e.id \notin late => e.fill \in r.applied)'
    BY <1>1, <1>3 DEF RowSound
  <1> QED
    BY <1>4, <1>5, <1>6 DEF RowSound

\* The row a Tick appends is sound: an execution it did not read is late or above all
\* that it read.
LEMMA AppliedSound ==
    ASSUME IInv, tpc = "append"
    PROVE  RowSound(applyFills)
  <1>0. TypeOK /\ RowSound(tbase) /\ TickSound
    BY DEF IInv, RowsSound
  <1> DEFINE m == applyFills.mark
             a == tbase.applied \cup {e.fill : e \in tnew}
  <1>1. /\ m \in Nat /\ tbase.mark <= m /\ \A e \in tnew : e.id <= m
        /\ m = tbase.mark \/ \E e \in tnew : e.id = m
    BY <1>0, AppliedMark
  <1>2. applyFills.applied = a
    BY DEF applyFills, Row
  <1>3. tbase.mark \in Nat /\ \A e \in execs : e.id \in Nat
    BY <1>0 DEF TypeOK, RowType, ExecType
  <1>4. /\ tnew \subseteq execs /\ \A e \in tnew : e.id > tbase.mark
        /\ \A e \in execs \ tnew : e.id > tbase.mark /\ e.id \notin late =>
             \A d \in tnew : d.id < e.id
    BY <1>0 DEF TickSound
  <1> HIDE DEF m
  <1>5. m = 0 \/ \E e \in execs : e.id = m
    BY <1>0, <1>1, <1>4 DEF RowSound
  <1>6. ASSUME NEW f \in a PROVE \E e \in execs : e.fill = f /\ e.id <= m
    BY <1>0, <1>1, <1>3, <1>4, <1>6 DEF RowSound
  <1>7. ASSUME NEW e \in execs, e.id <= m, e.id \notin late PROVE e.fill \in a
    <2>1. CASE e.id <= tbase.mark
      BY <1>0, <1>7, <2>1 DEF RowSound
    <2>2. CASE e.id > tbase.mark
      BY <1>1, <1>3, <1>4, <1>7, <2>2
    <2> QED
      BY <1>3, <2>1, <2>2
  <1> HIDE DEF a
  <1> QED
    BY <1>2, <1>5, <1>6, <1>7 DEF RowSound, m

\* Without a row nothing is reflected, and every id is above the watermark.
LEMMA NoRowSound == TypeOK /\ IdsFresh => RowSound(NoRow)
  BY DEF TypeOK, ExecType, IdsFresh, RowSound, NoRow, Row

\* An open order is not filled.
LEMMA BookStep == IInv /\ [Next]_vars => BookSound'
  <1> SUFFICES ASSUME IInv, [Next]_vars PROVE BookSound'
    OBVIOUS
  <1>0. TypeOK /\ BookSound
    BY DEF IInv
  <1> USE DEF tableVars, handlerVars, tickVars, exchangeVars, historyVars, countVars
  <1>1. ASSUME NEW o \in Orders, Place(o) PROVE BookSound'
    BY <1>0, <1>1, QtyAssumption DEF BookSound, TypeOK, Place
  <1>2. ASSUME NEW o \in Orders, Trade(o) PROVE BookSound'
    BY <1>0, <1>2, QtyAssumption DEF BookSound, TypeOK, Trade
  <1>3. ASSUME NEW o \in Orders, Cancel(o) PROVE BookSound'
    BY <1>0, <1>3 DEF BookSound, TypeOK, Cancel
  <1>4. CASE UNCHANGED <<book, traded>>
    BY <1>0, <1>4 DEF BookSound
  <1> QED
    BY <1>1, <1>2, <1>3, <1>4, ZenonT(30) DEF Next, vars, Exchange, Tick, Hook, Pass,
       ReceiveAck, Receiving,
       ReceiveOrderUpdate, ReceiveDeltaReport, CheckFill, Handling, DrawID, CommitFill,
       MarkPartial, FinishUpdate, Done, Compare, Claim, SeedWatermark, AppendSeed, HandlerFails,
       TickStart, TickStep, TickLoad, TickFold, TickAppend, TickReturns, InsertTradeRecord,
       Dispatch, TickFails, Restart

\* Ids drawn from the sequence are new, and are used once.
LEMMA IdsStep == IInv /\ [Next]_vars => IdsFresh'
  <1> SUFFICES ASSUME IInv, [Next]_vars PROVE IdsFresh'
    OBVIOUS
  <1>0. TypeOK /\ IdsFresh
    BY DEF IInv
  <1> USE DEF tableVars, handlerVars, tickVars, exchangeVars, historyVars, countVars
  <1>1. ASSUME NEW c \in Conns, NEW o \in Orders, ReceiveOrderUpdate(c, o) PROVE IdsFresh'
    BY <1>0, <1>1 DEF IdsFresh, TypeOK, ReceiveOrderUpdate, Receiving
  <1>2. ASSUME NEW c \in Conns, ReceiveDeltaReport(c) PROVE IdsFresh'
    BY <1>0, <1>2 DEF IdsFresh, TypeOK, ReceiveDeltaReport, Receiving
  <1>3. ASSUME NEW c \in Conns, NEW f \in Fill, CheckFill(c, f) PROVE IdsFresh'
    BY <1>0, <1>3 DEF IdsFresh, TypeOK, CheckFill, Handling
  <1>4. ASSUME NEW c \in Conns, DrawID(c) PROVE IdsFresh'
    BY <1>0, <1>4 DEF IdsFresh, TypeOK, DrawID, Handling, ExecType
  <1>5. ASSUME NEW c \in Conns, CommitFill(c) PROVE IdsFresh'
    BY <1>0, <1>5, <1>0 DEF IdsFresh, TypeOK, CommitFill, Handling, InsertSpotExecution
  <1>6. ASSUME NEW c \in Conns, MarkPartial(c) PROVE IdsFresh'
    BY <1>0, <1>6 DEF IdsFresh, TypeOK, MarkPartial, Handling
  <1>7. ASSUME NEW c \in Conns, FinishUpdate(c) PROVE IdsFresh'
    BY <1>0, <1>7 DEF IdsFresh, TypeOK, FinishUpdate, Handling, Done
  <1>8. ASSUME NEW c \in Conns, Compare(c) PROVE IdsFresh'
    BY <1>0, <1>8 DEF IdsFresh, TypeOK, Compare, Handling, Done
  <1>9. ASSUME NEW c \in Conns, Claim(c) PROVE IdsFresh'
    <2>1. /\ hpc[c] = "check" /\ UNCHANGED <<execs, nextID, rows, tbase>>
          /\ \A d \in Conns \ {c} : hpc'[d] = hpc[d] /\ eid'[d] = eid[d]
          /\ \/ ~funded /\ funded' /\ hpc'[c] = "watermark"
             \/ UNCHANGED funded /\ hpc'[c] = "idle"
      BY <1>0, <1>9, ClaimEffect
    <2> QED
      BY <1>0, <2>1 DEF IdsFresh
  <1>10. ASSUME NEW c \in Conns, SeedWatermark(c) PROVE IdsFresh'
    BY <1>0, <1>10 DEF IdsFresh, TypeOK, SeedWatermark, Handling
  <1>11. ASSUME NEW c \in Conns, AppendSeed(c) PROVE IdsFresh'
    BY <1>0, <1>11 DEF IdsFresh, TypeOK, AppendSeed, Handling, Done
  <1>12. ASSUME NEW c \in Conns, HandlerFails(c) PROVE IdsFresh'
    BY <1>0, <1>12 DEF IdsFresh, TypeOK, HandlerFails, Done
  <1>13. ASSUME Restart PROVE IdsFresh'
    BY <1>0, <1>13 DEF IdsFresh, TypeOK, Restart, TickReturns
  <1>14. CASE UNCHANGED <<execs, nextID, hpc, eid>>
    BY <1>0, <1>14 DEF IdsFresh
  <1> QED
    BY <1>1, <1>2, <1>3, <1>4, <1>5, <1>6, <1>7, <1>8, <1>9, <1>10, <1>11, <1>12, <1>13, <1>14
       DEF Next, vars, Exchange, Tick, Hook, Pass, Place, Trade, Cancel, ReceiveAck, Receiving,
       TickStart, TickStep, TickLoad, TickFold, TickAppend, TickReturns, InsertTradeRecord,
       Dispatch, TickFails

\* The unique index of spot_executions.
LEMMA OneRowStep == IInv /\ [Next]_vars => OneRowPerFill'
  <1> SUFFICES ASSUME IInv, [Next]_vars PROVE OneRowPerFill'
    OBVIOUS
  <1>0. OneRowPerFill
    BY DEF IInv
  <1> USE DEF tableVars, handlerVars, tickVars, exchangeVars, historyVars, countVars
  <1>1. ASSUME NEW c \in Conns, CommitFill(c) PROVE OneRowPerFill'
    BY <1>0, <1>1 DEF OneRowPerFill, CommitFill, Handling, InsertSpotExecution, Exists
  <1>2. CASE UNCHANGED execs
    BY <1>0, <1>2 DEF OneRowPerFill
  <1> QED
    BY <1>1, <1>2, ZenonT(30) DEF Next, vars, Exchange, Tick, Hook, Pass, Place, Trade, Cancel,
       ReceiveAck,
       Receiving, ReceiveOrderUpdate, ReceiveDeltaReport, CheckFill, Handling, DrawID,
       MarkPartial, FinishUpdate, Done, Compare, Claim, SeedWatermark, AppendSeed, HandlerFails,
       TickStart, TickStep, TickLoad, TickFold, TickAppend, TickReturns, InsertTradeRecord,
       Dispatch, TickFails, Restart

\* Funding is claimed once, and only the claim leads to a seed row.
LEMMA SeedStep == IInv /\ [Next]_vars => SeedSound'
  <1> SUFFICES ASSUME IInv, [Next]_vars PROVE SeedSound'
    OBVIOUS
  <1>0. TypeOK /\ SeedSound /\ RowsSound
    BY DEF IInv
  <1> USE DEF tableVars, handlerVars, tickVars, exchangeVars, historyVars, countVars
  <1>1. ASSUME NEW c \in Conns, NEW o \in Orders, ReceiveOrderUpdate(c, o) PROVE SeedSound'
    BY <1>0, <1>1 DEF SeedSound, Seeding, Unseeded, ReceiveOrderUpdate, Receiving, TypeOK
  <1>2. ASSUME NEW c \in Conns, ReceiveDeltaReport(c) PROVE SeedSound'
    BY <1>0, <1>2 DEF SeedSound, Seeding, Unseeded, ReceiveDeltaReport, Receiving, TypeOK
  <1>3. ASSUME NEW c \in Conns, NEW f \in Fill, CheckFill(c, f) PROVE SeedSound'
    BY <1>0, <1>3 DEF SeedSound, Seeding, Unseeded, CheckFill, Handling, TypeOK
  <1>4. ASSUME NEW c \in Conns, DrawID(c) PROVE SeedSound'
    BY <1>0, <1>4 DEF SeedSound, Seeding, Unseeded, DrawID, Handling, TypeOK
  <1>5. ASSUME NEW c \in Conns, CommitFill(c) PROVE SeedSound'
    BY <1>0, <1>5 DEF SeedSound, Seeding, Unseeded, CommitFill, Handling, TypeOK
  <1>6. ASSUME NEW c \in Conns, MarkPartial(c) PROVE SeedSound'
    BY <1>0, <1>6 DEF SeedSound, Seeding, Unseeded, MarkPartial, Handling, TypeOK
  <1>7. ASSUME NEW c \in Conns, FinishUpdate(c) PROVE SeedSound'
    BY <1>0, <1>7 DEF SeedSound, Seeding, Unseeded, FinishUpdate, Handling, Done, TypeOK
  <1>8. ASSUME NEW c \in Conns, Compare(c) PROVE SeedSound'
    BY <1>0, <1>8 DEF SeedSound, Seeding, Unseeded, Compare, Handling, Done, TypeOK
  <1>9. ASSUME NEW c \in Conns, Claim(c) PROVE SeedSound'
    <2>1. /\ hpc[c] = "check" /\ UNCHANGED <<execs, nextID, rows, tbase>>
          /\ \A d \in Conns \ {c} : hpc'[d] = hpc[d] /\ eid'[d] = eid[d]
          /\ \/ ~funded /\ funded' /\ hpc'[c] = "watermark"
             \/ UNCHANGED funded /\ hpc'[c] = "idle"
      BY <1>0, <1>9, ClaimEffect
    <2> QED
      BY <1>0, <2>1 DEF SeedSound, Seeding, Unseeded
  <1>10. ASSUME NEW c \in Conns, SeedWatermark(c) PROVE SeedSound'
    BY <1>0, <1>10 DEF SeedSound, Seeding, Unseeded, SeedWatermark, Handling, TypeOK
  <1>11. ASSUME NEW c \in Conns, AppendSeed(c) PROVE SeedSound'
    BY <1>0, <1>11 DEF SeedSound, Seeding, Unseeded, AppendSeed, Handling, Done, TypeOK
  <1>12. ASSUME NEW c \in Conns, HandlerFails(c) PROVE SeedSound'
    BY <1>0, <1>12 DEF SeedSound, Seeding, Unseeded, HandlerFails, Done, TypeOK
  <1>13. ASSUME TickLoad PROVE SeedSound'
    BY <1>0, <1>13, LatestRow DEF SeedSound, Seeding, Unseeded, TickLoad, TickStep, NoRow, Row
  <1>14. ASSUME TickAppend PROVE SeedSound'
    <2>1. /\ tpc = "append" /\ tbase' = NoRow
          /\ \/ /\ Vacant(tms) /\ rows' = rows \cup {applyFills}
                /\ applyFills.ms = tms /\ applyFills.seeded = tbase.seeded
                /\ (tpc' = "record" /\ tms' = tms) \/ tpc' = "idle"
             \/ tpc' = "idle" /\ UNCHANGED rows
          /\ UNCHANGED <<status, funded, hpc>>
      BY <1>14, AppendEffect
    <2> QED
      BY <1>0, <2>1 DEF SeedSound, Seeding, Unseeded, NoRow, Row
  <1>15. ASSUME Dispatch PROVE SeedSound'
    BY <1>0, <1>15 DEF SeedSound, Seeding, Unseeded, Dispatch, TickReturns, NoRow, Row
  <1>16. ASSUME TickFails PROVE SeedSound'
    BY <1>0, <1>16 DEF SeedSound, Seeding, Unseeded, TickFails, TickReturns, NoRow, Row
  <1>17. ASSUME Restart PROVE SeedSound'
    BY <1>0, <1>17 DEF SeedSound, Seeding, Unseeded, Restart, TickReturns, NoRow, Row
  <1>18. CASE UNCHANGED <<funded, rows, tbase, hpc>>
    BY <1>0, <1>18 DEF SeedSound, Seeding, Unseeded
  <1> QED
    BY <1>1, <1>2, <1>3, <1>4, <1>5, <1>6, <1>7, <1>8, <1>9, <1>10, <1>11, <1>12, <1>13, <1>14,
       <1>15, <1>16, <1>17, <1>18 DEF Next, vars, Exchange, Tick, Hook, Pass, Place, Trade,
       Cancel, ReceiveAck, Receiving, TickStart, TickStep, TickFold, InsertTradeRecord

\* Ledger rows stay, and an order is recorded after the row of its millisecond.
LEMMA OrderRowStep == IInv /\ [Next]_vars => RowBeforeOrder'
  <1> SUFFICES ASSUME IInv, [Next]_vars PROVE RowBeforeOrder'
    OBVIOUS
  <1>0. TypeOK /\ RowBeforeOrder /\ TickSound
    BY DEF IInv
  <1> USE DEF tableVars, handlerVars, tickVars, exchangeVars, historyVars, countVars
  <1>1. ASSUME NEW c \in Conns, NEW o \in Orders, ReceiveAck(c, o) PROVE RowBeforeOrder'
    BY <1>0, <1>1 DEF RowBeforeOrder, ReceiveAck, Receiving, UpdateTradeStatus, TypeOK
  <1>2. ASSUME NEW c \in Conns, MarkPartial(c) PROVE RowBeforeOrder'
    BY <1>0, <1>2 DEF RowBeforeOrder, MarkPartial, Handling, MarkPartialIfPending, TypeOK
  <1>3. ASSUME NEW c \in Conns, FinishUpdate(c) PROVE RowBeforeOrder'
    BY <1>0, <1>3 DEF RowBeforeOrder, FinishUpdate, Handling, Done, UpdateTradeStatus, TypeOK
  <1>4. ASSUME NEW c \in Conns, AppendSeed(c) PROVE RowBeforeOrder'
    BY <1>0, <1>4 DEF RowBeforeOrder, AppendSeed, Handling, Done
  <1>5. ASSUME TickStart PROVE RowBeforeOrder'
    BY <1>0, <1>5 DEF RowBeforeOrder, TickStart, TickStep
  <1>6. ASSUME TickLoad PROVE RowBeforeOrder'
    BY <1>0, <1>6 DEF RowBeforeOrder, TickLoad, TickStep
  <1>7. ASSUME TickFold PROVE RowBeforeOrder'
    BY <1>0, <1>7 DEF RowBeforeOrder, TickFold, TickStep
  <1>8. ASSUME TickAppend PROVE RowBeforeOrder'
    <2>1. /\ tpc = "append" /\ tbase' = NoRow
          /\ \/ /\ Vacant(tms) /\ rows' = rows \cup {applyFills}
                /\ applyFills.ms = tms /\ applyFills.seeded = tbase.seeded
                /\ (tpc' = "record" /\ tms' = tms) \/ tpc' = "idle"
             \/ tpc' = "idle" /\ UNCHANGED rows
          /\ UNCHANGED <<status, funded, hpc>>
      BY <1>8, AppendEffect
    <2> QED
      BY <1>0, <2>1 DEF RowBeforeOrder
  <1>9. ASSUME InsertTradeRecord PROVE RowBeforeOrder'
    BY <1>0, <1>9 DEF RowBeforeOrder, InsertTradeRecord, TickStep, TypeOK
  <1>10. ASSUME Dispatch PROVE RowBeforeOrder'
    BY <1>0, <1>10 DEF RowBeforeOrder, Dispatch, TickReturns
  <1>11. ASSUME TickFails PROVE RowBeforeOrder'
    BY <1>0, <1>11 DEF RowBeforeOrder, TickFails, TickReturns
  <1>12. ASSUME Restart PROVE RowBeforeOrder'
    BY <1>0, <1>12 DEF RowBeforeOrder, Restart, TickReturns, SweepOrphanPending, TypeOK
  <1>13. CASE UNCHANGED <<status, rows, tpc, tms>>
    BY <1>0, <1>13 DEF RowBeforeOrder
  <1> QED
    BY <1>1, <1>2, <1>3, <1>4, <1>5, <1>6, <1>7, <1>8, <1>9, <1>10, <1>11, <1>12, <1>13 DEF
       Next, vars, Exchange, Tick, Hook, Pass, Place, Trade, Cancel, ReceiveOrderUpdate,
       Receiving, ReceiveDeltaReport, CheckFill, Handling, DrawID, CommitFill, Compare, Done,
       Claim, SeedWatermark, HandlerFails

\* Only the Tick that wrote the row of a millisecond records an order for it.
LEMMA FreshStep == IInv /\ [Next]_vars => FreshOrderID'
  <1> SUFFICES ASSUME IInv, [Next]_vars PROVE FreshOrderID'
    OBVIOUS
  <1>0. TypeOK /\ FreshOrderID /\ RowBeforeOrder /\ TickSound
    BY DEF IInv
  <1> USE DEF tableVars, handlerVars, tickVars, exchangeVars, historyVars, countVars
  <1>1. ASSUME NEW c \in Conns, NEW o \in Orders, ReceiveAck(c, o) PROVE FreshOrderID'
    BY <1>0, <1>1 DEF FreshOrderID, ReceiveAck, Receiving, UpdateTradeStatus, TypeOK, TickSound,
       Orders
  <1>2. ASSUME NEW c \in Conns, MarkPartial(c) PROVE FreshOrderID'
    BY <1>0, <1>2 DEF FreshOrderID, MarkPartial, Handling, MarkPartialIfPending, TypeOK,
       TickSound, Orders
  <1>3. ASSUME NEW c \in Conns, FinishUpdate(c) PROVE FreshOrderID'
    BY <1>0, <1>3 DEF FreshOrderID, FinishUpdate, Handling, Done, UpdateTradeStatus, TypeOK,
       TickSound, Orders
  <1>4. ASSUME TickStart PROVE FreshOrderID'
    BY <1>0, <1>4 DEF FreshOrderID, TickStart, TickStep
  <1>5. ASSUME TickLoad PROVE FreshOrderID'
    BY <1>0, <1>5 DEF FreshOrderID, TickLoad, TickStep
  <1>6. ASSUME TickFold PROVE FreshOrderID'
    BY <1>0, <1>6 DEF FreshOrderID, TickFold, TickStep
  <1>7. ASSUME TickAppend PROVE FreshOrderID'
    BY <1>0, <1>7 DEF FreshOrderID, TickAppend, TickReturns, Vacant, RowBeforeOrder, TickSound,
       Orders
  <1>8. ASSUME InsertTradeRecord PROVE FreshOrderID'
    BY <1>0, <1>8 DEF FreshOrderID, InsertTradeRecord, TickStep
  <1>9. ASSUME Dispatch PROVE FreshOrderID'
    BY <1>0, <1>9 DEF FreshOrderID, Dispatch, TickReturns
  <1>10. ASSUME TickFails PROVE FreshOrderID'
    BY <1>0, <1>10 DEF FreshOrderID, TickFails, TickReturns
  <1>11. ASSUME Restart PROVE FreshOrderID'
    BY <1>0, <1>11 DEF FreshOrderID, Restart, TickReturns
  <1>12. CASE UNCHANGED <<status, tpc, tms>>
    BY <1>0, <1>12 DEF FreshOrderID
  <1> QED
    BY <1>1, <1>2, <1>3, <1>4, <1>5, <1>6, <1>7, <1>8, <1>9, <1>10, <1>11, <1>12,
       ZenonT(30) DEF Next, vars,
       Exchange, Tick, Hook, Pass, Place, Trade, Cancel, ReceiveOrderUpdate, Receiving,
       ReceiveDeltaReport, CheckFill, Handling, DrawID, CommitFill, Compare, Done, Claim,
       SeedWatermark, AppendSeed, HandlerFails

\* Balances stay sound, wherever they are held.
LEMMA RowsStep == IInv /\ [Next]_vars => RowsSound'
  <1> SUFFICES ASSUME IInv, [Next]_vars PROVE RowsSound'
    OBVIOUS
  <1>0. IInv /\ TypeOK /\ RowsSound /\ IdsFresh
    BY DEF IInv
  <1> USE DEF tableVars, handlerVars, tickVars, exchangeVars, historyVars, countVars
  <1>1. ASSUME NEW c \in Conns, NEW o \in Orders, ReceiveOrderUpdate(c, o) PROVE RowsSound'
    BY <1>0, <1>1 DEF RowsSound, RowSound, ReceiveOrderUpdate, Receiving, TypeOK
  <1>2. ASSUME NEW c \in Conns, ReceiveDeltaReport(c) PROVE RowsSound'
    BY <1>0, <1>2 DEF RowsSound, RowSound, ReceiveDeltaReport, Receiving, TypeOK
  <1>3. ASSUME NEW c \in Conns, NEW f \in Fill, CheckFill(c, f) PROVE RowsSound'
    BY <1>0, <1>3 DEF RowsSound, RowSound, CheckFill, Handling, TypeOK
  <1>4. ASSUME NEW c \in Conns, DrawID(c) PROVE RowsSound'
    BY <1>0, <1>4 DEF RowsSound, RowSound, DrawID, Handling, TypeOK
  <1>5. ASSUME NEW c \in Conns, CommitFill(c) PROVE RowsSound'
    <2>1. /\ UNCHANGED <<status, rows, frame, seed, tpc, tms, tbase, tnew>>
          /\ \A d \in Conns : hpc'[d] = "seed" => hpc[d] = "seed"
      BY <1>5, CommitEffect
    <2>2. \A r \in RowType : RowSound(r) => RowSound(r)'
      BY <1>5, RowKept
    <2>3. (\A r \in rows : RowSound(r))'
      BY <1>0, <2>1, <2>2 DEF RowsSound, TypeOK
    <2>4. RowSound(tbase)'
      BY <1>0, <2>1, <2>2 DEF RowsSound, RowSound, TypeOK
    <2>5. (\A d \in Conns : hpc[d] = "seed" => RowSound(seed[d]))'
      BY <1>0, <2>1, <2>2 DEF RowsSound, RowSound, TypeOK
    <2> QED
      BY <2>3, <2>4, <2>5 DEF RowsSound
  <1>6. ASSUME NEW c \in Conns, MarkPartial(c) PROVE RowsSound'
    BY <1>0, <1>6 DEF RowsSound, RowSound, MarkPartial, Handling, TypeOK
  <1>7. ASSUME NEW c \in Conns, FinishUpdate(c) PROVE RowsSound'
    BY <1>0, <1>7 DEF RowsSound, RowSound, FinishUpdate, Handling, Done, TypeOK
  <1>8. ASSUME NEW c \in Conns, Compare(c) PROVE RowsSound'
    BY <1>0, <1>8 DEF RowsSound, RowSound, Compare, Handling, Done, TypeOK
  <1>9. ASSUME NEW c \in Conns, Claim(c) PROVE RowsSound'
    <2>1. /\ UNCHANGED <<execs, rows, tbase, late>>
          /\ \A d \in Conns : hpc'[d] = "seed" => hpc[d] = "seed" /\ seed'[d] = seed[d]
      BY <1>0, <1>9, ClaimEffect
    <2> QED
      BY <1>0, <2>1 DEF RowsSound, RowSound
  <1>10. ASSUME NEW c \in Conns, SeedWatermark(c) PROVE RowsSound'
    <2> DEFINE r == Row(seed[c].ms, TRUE, {e.fill : e \in execs}, MaxExecutionID)
    <2>1. RowSound(r)
      BY <1>0, MaxExecution DEF RowSound, Row
    <2>2. /\ UNCHANGED <<execs, rows, tbase, late>>
          /\ seed'[c] = r /\ \A d \in Conns \ {c} : hpc'[d] = hpc[d] /\ seed'[d] = seed[d]
      BY <1>0, <1>10 DEF SeedWatermark, Handling, TypeOK
    <2> HIDE DEF r
    <2> QED
      BY <1>0, <2>1, <2>2 DEF RowsSound, RowSound
  <1>11. ASSUME NEW c \in Conns, AppendSeed(c) PROVE RowsSound'
    <2>1. /\ UNCHANGED <<execs, tbase, late>> /\ rows' \subseteq rows \cup {seed[c]}
          /\ hpc[c] = "seed"
          /\ \A d \in Conns : hpc'[d] = "seed" => hpc[d] = "seed" /\ seed'[d] = seed[d]
      BY <1>0, <1>11 DEF AppendSeed, Handling, Done, TypeOK
    <2> QED
      BY <1>0, <2>1 DEF RowsSound, RowSound
  <1>12. ASSUME NEW c \in Conns, HandlerFails(c) PROVE RowsSound'
    BY <1>0, <1>12 DEF RowsSound, RowSound, HandlerFails, Done, TypeOK
  <1>13. ASSUME TickLoad PROVE RowsSound'
    <2>1. RowSound(NoRow)
      BY <1>0, NoRowSound
    <2>2. RowSound(Latest)
      BY <1>0, <2>1, LatestRow DEF RowsSound
    <2>3. UNCHANGED <<execs, rows, late, hpc, seed>> /\ tbase' = Latest
      BY <1>13 DEF TickLoad, TickStep
    <2> QED
      BY <1>0, <2>2, <2>3 DEF RowsSound, RowSound
  <1>14. ASSUME TickAppend PROVE RowsSound'
    <2>1. /\ tpc = "append" /\ tbase' = NoRow /\ rows' \subseteq rows \cup {applyFills}
          /\ UNCHANGED <<execs, late, hpc, seed>>
      BY <1>14, AppendEffect
    <2>2. RowSound(NoRow) /\ RowSound(applyFills)
      BY <1>0, <2>1, NoRowSound, AppliedSound
    <2> QED
      BY <1>0, <2>1, <2>2 DEF RowsSound, RowSound
  <1>15. ASSUME Dispatch PROVE RowsSound'
    BY <1>0, <1>15, NoRowSound DEF RowsSound, RowSound, Dispatch, TickReturns, TypeOK
  <1>16. ASSUME TickFails PROVE RowsSound'
    BY <1>0, <1>16, NoRowSound DEF RowsSound, RowSound, TickFails, TickReturns, TypeOK
  <1>17. ASSUME Restart PROVE RowsSound'
    BY <1>0, <1>17, NoRowSound DEF RowsSound, RowSound, Restart, TickReturns, TypeOK
  <1>18. CASE UNCHANGED <<rows, tbase, hpc, seed, execs, late>>
    BY <1>0, <1>18 DEF RowsSound, RowSound
  <1> QED
    BY <1>1, <1>2, <1>3, <1>4, <1>5, <1>6, <1>7, <1>8, <1>9, <1>10, <1>11, <1>12, <1>13, <1>14,
       <1>15, <1>16, <1>17, <1>18 DEF Next, vars, Exchange, Tick, Hook, Pass, Place, Trade,
       Cancel, ReceiveAck, Receiving, TickStart, TickStep, TickFold, InsertTradeRecord

\* What a Tick read stays above its watermark, and what commits later is late or above it.
LEMMA TickStepSound == IInv /\ [Next]_vars => TickSound'
  <1> SUFFICES ASSUME IInv, [Next]_vars PROVE TickSound'
    OBVIOUS
  <1>0. IInv /\ TypeOK /\ TickSound
    BY DEF IInv
  <1> USE DEF tableVars, handlerVars, tickVars, exchangeVars, historyVars, countVars
  <1>1. ASSUME NEW c \in Conns, CommitFill(c) PROVE TickSound'
    <2>1. /\ UNCHANGED <<tpc, tms, tbase, tnew>> /\ execs \subseteq execs'
          /\ \A e \in execs' \ execs : e.id \in late' \/ \A d \in execs : d.id < e.id
          /\ late \subseteq late'
      BY <1>0, <1>1, CommitEffect
    <2> QED
      BY <1>0, <2>1 DEF TickSound
  <1>2. ASSUME TickStart PROVE TickSound'
    BY <1>0, <1>2 DEF TickSound, TickStart, TickStep, TypeOK, Times
  <1>3. ASSUME TickLoad PROVE TickSound'
    BY <1>0, <1>3 DEF TickSound, TickLoad, TickStep
  <1>4. ASSUME TickFold PROVE TickSound'
    BY <1>0, <1>4 DEF TickSound, TickFold, TickStep, NewExecutions, TypeOK, ExecType, RowType
  <1>5. ASSUME TickAppend PROVE TickSound'
    BY <1>0, <1>5, AppendEffect DEF TickSound
  <1>6. ASSUME InsertTradeRecord PROVE TickSound'
    BY <1>0, <1>6 DEF TickSound, InsertTradeRecord, TickStep
  <1>7. ASSUME Dispatch PROVE TickSound'
    BY <1>0, <1>7 DEF TickSound, Dispatch, TickReturns
  <1>8. ASSUME TickFails PROVE TickSound'
    BY <1>0, <1>8 DEF TickSound, TickFails, TickReturns
  <1>9. ASSUME Restart PROVE TickSound'
    BY <1>0, <1>9 DEF TickSound, Restart, TickReturns
  <1>10. CASE UNCHANGED <<execs, late, tpc, tms, tbase, tnew>>
    BY <1>0, <1>10 DEF TickSound
  <1> QED
    BY <1>1, <1>2, <1>3, <1>4, <1>5, <1>6, <1>7, <1>8, <1>9, <1>10, ZenonT(30) DEF Next, vars,
       Exchange,
       Tick, Hook, Pass, Place, Trade, Cancel, ReceiveAck, Receiving, ReceiveOrderUpdate,
       ReceiveDeltaReport, CheckFill, Handling, DrawID, MarkPartial, FinishUpdate, Done,
       Compare, Claim, SeedWatermark, AppendSeed, HandlerFails

\* What is left of a frame stays about its order.
LEMMA FrameStep == IInv /\ [Next]_vars => FrameSound'
  <1> SUFFICES ASSUME IInv, [Next]_vars PROVE FrameSound'
    OBVIOUS
  <1>0. IInv /\ TypeOK /\ FrameSound
    BY DEF IInv
  <1> USE DEF tableVars, handlerVars, tickVars, exchangeVars, historyVars, countVars
  <1>1. ASSUME NEW c \in Conns, NEW o \in Orders, ReceiveOrderUpdate(c, o) PROVE FrameSound'
    <2>1. PICK fs \in SUBSET Executed(o),
               s \in {"filled", "partial_filled", "cancelled", "rejected"} :
             /\ Update(o, fs, s)
             /\ frame' = [frame EXCEPT ![c] = Frame("order_update", o, s, fs, FALSE)]
      BY <1>1 DEF ReceiveOrderUpdate
    <2>2. (fs = {} => s \in {"cancelled", "rejected"}) /\ \A f \in fs : f[1] = o
      BY <2>1 DEF Update, Executed
    <2>3. /\ frame'[c].kind = "order_update" /\ frame'[c].order = o /\ frame'[c].status = s
          /\ frame'[c].fills = fs /\ hpc'[c] = "check" /\ UNCHANGED <<cur, execs>>
          /\ \A d \in Conns \ {c} : frame'[d] = frame[d] /\ hpc'[d] = hpc[d]
      BY <1>0, <1>1, <2>1 DEF ReceiveOrderUpdate, Receiving, TypeOK, Frame
    <2> QED
      BY <1>0, <2>2, <2>3 DEF FrameSound, Exists, HasExec, TradeStatus, Terminal
  <1>2. ASSUME NEW c \in Conns, ReceiveDeltaReport(c) PROVE FrameSound'
    <2>1. /\ frame'[c].kind = "delta_report" /\ hpc'[c] = "check" /\ UNCHANGED <<cur, execs>>
          /\ \A d \in Conns \ {c} : frame'[d] = frame[d] /\ hpc'[d] = hpc[d]
      BY <1>0, <1>2 DEF ReceiveDeltaReport, Receiving, TypeOK, Frame
    <2> QED
      BY <1>0, <2>1 DEF FrameSound, Exists, HasExec
  <1>3. ASSUME NEW c \in Conns, NEW f \in Fill, CheckFill(c, f) PROVE FrameSound'
    BY <1>0, <1>3 DEF FrameSound, TypeOK, Exists, HasExec, CheckFill, Handling, FrameType
  <1>4. ASSUME NEW c \in Conns, DrawID(c) PROVE FrameSound'
    BY <1>0, <1>4 DEF FrameSound, TypeOK, Exists, HasExec, DrawID, Handling
  <1>5. ASSUME NEW c \in Conns, CommitFill(c) PROVE FrameSound'
    <2>1. /\ hpc[c] = "commit" /\ cur[c] \in Fill /\ UNCHANGED frame
          /\ execs \subseteq execs' /\ \E e \in execs' : e.fill = cur[c]
          /\ \A d \in Conns \ {c} : hpc'[d] = hpc[d] /\ cur'[d] = cur[d]
          /\ \/ frame[c].kind = "delta_report" /\ hpc'[c] = "mark" /\ cur'[c] = cur[c]
             \/ frame[c].kind # "delta_report" /\ hpc'[c] = "check"
      BY <1>0, <1>5, CommitEffect
    <2> QED
      BY <1>0, <2>1 DEF FrameSound, Exists, HasExec
  <1>6. ASSUME NEW c \in Conns, MarkPartial(c) PROVE FrameSound'
    BY <1>0, <1>6 DEF FrameSound, TypeOK, Exists, HasExec, MarkPartial, Handling
  <1>7. ASSUME NEW c \in Conns, FinishUpdate(c) PROVE FrameSound'
    BY <1>0, <1>7 DEF FrameSound, TypeOK, Exists, HasExec, FinishUpdate, Handling, Done,
       NoFrame, Frame
  <1>8. ASSUME NEW c \in Conns, Compare(c) PROVE FrameSound'
    BY <1>0, <1>8 DEF FrameSound, TypeOK, Exists, HasExec, Compare, Handling, Done, NoFrame,
       Frame
  <1>9. ASSUME NEW c \in Conns, Claim(c) PROVE FrameSound'
    <2>1. /\ hpc[c] = "check" /\ UNCHANGED execs
          /\ \A d \in Conns \ {c} : hpc'[d] = hpc[d] /\ frame'[d] = frame[d] /\ cur'[d] = cur[d]
          /\ \/ hpc'[c] = "watermark" /\ UNCHANGED <<frame, cur>>
             \/ hpc'[c] = "idle" /\ frame'[c] = NoFrame
      BY <1>0, <1>9, ClaimEffect
    <2> QED
      BY <1>0, <2>1 DEF FrameSound, Exists, HasExec, NoFrame, Frame
  <1>10. ASSUME NEW c \in Conns, SeedWatermark(c) PROVE FrameSound'
    BY <1>0, <1>10 DEF FrameSound, TypeOK, Exists, HasExec, SeedWatermark, Handling
  <1>11. ASSUME NEW c \in Conns, AppendSeed(c) PROVE FrameSound'
    BY <1>0, <1>11 DEF FrameSound, TypeOK, Exists, HasExec, AppendSeed, Handling, Done, NoFrame,
       Frame
  <1>12. ASSUME NEW c \in Conns, HandlerFails(c) PROVE FrameSound'
    BY <1>0, <1>12 DEF FrameSound, TypeOK, Exists, HasExec, HandlerFails, Done, NoFrame, Frame
  <1>13. ASSUME Restart PROVE FrameSound'
    BY <1>0, <1>13 DEF FrameSound, TypeOK, Exists, HasExec, Restart, TickReturns, NoFrame, Frame
  <1>14. CASE UNCHANGED <<hpc, frame, cur, execs>>
    BY <1>0, <1>14 DEF FrameSound, Exists, HasExec
  <1> QED
    BY <1>1, <1>2, <1>3, <1>4, <1>5, <1>6, <1>7, <1>8, <1>9, <1>10, <1>11, <1>12, <1>13, <1>14
       DEF Next, vars, Exchange, Tick, Hook, Pass, Place, Trade, Cancel, ReceiveAck, Receiving,
       TickStart, TickStep, TickLoad, TickFold, TickAppend, TickReturns, InsertTradeRecord,
       Dispatch, TickFails

\* A status that says executed is written after a row.
LEMMA ExecutedStep == IInv /\ [Next]_vars => ExecutedHasRow'
  <1> SUFFICES ASSUME IInv, [Next]_vars PROVE ExecutedHasRow'
    OBVIOUS
  <1>0. IInv /\ TypeOK /\ FrameSound /\ ExecutedHasRow
    BY DEF IInv
  <1> USE DEF tableVars, handlerVars, tickVars, exchangeVars, historyVars, countVars
  <1>1. ASSUME NEW c \in Conns, NEW o \in Orders, ReceiveAck(c, o) PROVE ExecutedHasRow'
    BY <1>0, <1>1 DEF ExecutedHasRow, ReceiveAck, Receiving, UpdateTradeStatus,
       ackToTradeStatus, TypeOK
  <1>2. ASSUME NEW c \in Conns, CommitFill(c) PROVE ExecutedHasRow'
    BY <1>0, <1>2, CommitEffect DEF ExecutedHasRow
  <1>3. ASSUME NEW c \in Conns, MarkPartial(c) PROVE ExecutedHasRow'
    BY <1>0, <1>3 DEF ExecutedHasRow, MarkPartial, Handling, MarkPartialIfPending, FrameSound,
       Exists, TypeOK
  <1>4. ASSUME NEW c \in Conns, FinishUpdate(c) PROVE ExecutedHasRow'
    BY <1>0, <1>4 DEF ExecutedHasRow, FinishUpdate, Handling, Done, UpdateTradeStatus,
       FillsDone, FrameSound, HasExec, TypeOK
  <1>5. ASSUME InsertTradeRecord PROVE ExecutedHasRow'
    BY <1>0, <1>5 DEF ExecutedHasRow, InsertTradeRecord, TickStep, TypeOK
  <1>6. ASSUME Restart PROVE ExecutedHasRow'
    BY <1>0, <1>6 DEF ExecutedHasRow, Restart, TickReturns, TypeOK
  <1>7. CASE UNCHANGED <<status, execs>>
    BY <1>0, <1>7 DEF ExecutedHasRow
  <1> QED
    BY <1>1, <1>2, <1>3, <1>4, <1>5, <1>6, <1>7 DEF Next, vars, Exchange, Tick, Hook, Pass,
       Place, Trade, Cancel, ReceiveOrderUpdate, Receiving, ReceiveDeltaReport, CheckFill,
       Handling, DrawID, Compare, Done, Claim, SeedWatermark, AppendSeed, HandlerFails,
       TickStart, TickStep, TickLoad, TickFold, TickAppend, TickReturns, Dispatch, TickFails

-----------------------------------------------------------------------------
(* The inductive invariant, and what follows from it *)

\* A fresh instance satisfies the invariant, seeded or not.
LEMMA InitInv == Init => IInv
  <1> SUFFICES ASSUME Init PROVE IInv
    OBVIOUS
  <1>1. TypeOK
    <2>1. Row(0, TRUE, {}, 0) \in RowType
      BY LimitAssumption DEF Row, RowType
    <2>2. rows \subseteq RowType /\ funded \in BOOLEAN
      BY <2>1 DEF Init
    <2>3. now \in Times /\ status \in [Orders -> TradeStatus]
      BY LimitAssumption DEF Init, Times, TradeStatus
    <2>4. traded \in [Orders -> 0..Qty]
      BY QtyAssumption DEF Init
    <2>5. frame \in [Conns -> FrameType] /\ seed \in [Conns -> RowType] /\ tbase \in RowType
      BY Absent DEF Init
    <2>6. /\ cur \in [Conns -> Fill \cup {NoFill}] /\ eid \in [Conns -> Nat]
          /\ hpc \in [Conns -> {"idle", "check", "insert", "commit", "mark", "watermark", "seed"}]
          /\ book \in [Orders -> {"none", "open", "filled", "cancelled", "rejected"}]
      BY DEF Init
    <2>7. /\ execs \subseteq ExecType /\ nextID \in Nat /\ \A e \in execs : e.id <= nextID
          /\ tpc = "idle" /\ tnew \subseteq ExecType
          /\ sent \subseteq Orders /\ late \subseteq Nat
      BY DEF Init
    <2>8. tms \in 0 .. MaxNow /\ frames \in Nat /\ faults \in Nat
      BY LimitAssumption DEF Init
    <2>9. blind \in BOOLEAN
      BY DEF Init
    <2> QED
      BY <2>2, <2>3, <2>4, <2>5, <2>6, <2>7, <2>8, <2>9 DEF TypeOK
  <1>2. IdsFresh /\ OneRowPerFill /\ TickSound /\ FreshOrderID /\ RowBeforeOrder
    BY DEF Init, IdsFresh, OneRowPerFill, TickSound, FreshOrderID, RowBeforeOrder
  <1>3. RowsSound
    BY DEF Init, RowsSound, RowSound, NoRow, Row
  <1>4. FrameSound /\ ExecutedHasRow
    BY DEF Init, FrameSound, ExecutedHasRow, NoFrame, Frame
  <1>5. SeedSound
    BY DEF Init, SeedSound, Seeding, Unseeded, NoRow, Row
  <1>6. BookSound
    BY QtyAssumption DEF Init, BookSound
  <1> QED
    BY <1>1, <1>2, <1>3, <1>4, <1>5, <1>6 DEF IInv

\* Every step keeps it.
LEMMA Inductive == IInv /\ [Next]_vars => IInv'
  BY TypeStep, BookStep, IdsStep, OneRowStep, SeedStep, OrderRowStep, FreshStep, RowsStep,
     TickStepSound, FrameStep, ExecutedStep DEF IInv

\* The invariant holds throughout.
LEMMA Invariance == Spec => []IInv
  BY InitInv, Inductive, PTL DEF Spec

\* The tables and the locals of the writers keep their types: the fills a handler
\* inserts and the ids it drew are at hand when insertFillIfNew commits.
THEOREM Typing == Spec => []TypeOK
  <1>1. IInv => TypeOK
    BY DEF IInv
  <1> QED
    BY <1>1, Invariance, PTL

\* One spot_executions row per fill, for any number of connections between whose
\* dedup check and insert the others run.
THEOREM OneRow == Spec => []OneRowPerFill
  <1>1. IInv => OneRowPerFill
    BY DEF IInv
  <1> QED
    BY <1>1, Invariance, PTL

\* applyFills never adds a fill its base row reflects: that fill has a row at or below
\* the watermark, fills have one row, and the Tick read above the watermark.
THEOREM FoldOnce == Spec => []FoldedOnce
  <1>1. ASSUME IInv PROVE FoldedOnce
    <2>1. SUFFICES ASSUME tpc = "append", NEW e \in tnew, e.fill \in tbase.applied PROVE FALSE
      BY DEF FoldedOnce
    <2>2. TypeOK /\ OneRowPerFill /\ TickSound /\ RowSound(tbase)
      BY <1>1 DEF IInv, RowsSound
    <2>3. e \in execs /\ e.id > tbase.mark /\ e.id \in Nat /\ tbase.mark \in Nat
      BY <2>1, <2>2 DEF TickSound, TypeOK, ExecType, RowType
    <2>4. PICK d \in execs : d.fill = e.fill /\ d.id <= tbase.mark
      BY <2>1, <2>2 DEF RowSound
    <2> QED
      BY <2>2, <2>3, <2>4 DEF OneRowPerFill
  <1> QED
    BY <1>1, Invariance, PTL

\* A watermark passes an execution its balances do not reflect only when that
\* execution committed after one with a higher id.
THEOREM SkippedLate == Spec => []SkippedOnlyWhenLate
  <1>1. IInv => SkippedOnlyWhenLate
    BY DEF IInv, RowsSound, RowSound, SkippedOnlyWhenLate
  <1> QED
    BY <1>1, Invariance, PTL

\* A trade record that says it executed has a row, wherever a handler stopped.
THEOREM ExecutedBacked == Spec => []ExecutedHasRow
  <1>1. IInv => ExecutedHasRow
    BY DEF IInv
  <1> QED
    BY <1>1, Invariance, PTL

\* Two reports that both found the instance unfunded do not both seed its ledger.
THEOREM OneSeed == Spec => []SeededOnce
  <1>1. IInv => SeededOnce
    BY DEF IInv, SeedSound, Unseeded, SeededOnce
  <1> QED
    BY <1>1, Invariance, PTL

\* recordingDispatcher finds the client_order_id of its Tick free.
THEOREM FreshID == Spec => []FreshOrderID
  <1>1. IInv => FreshOrderID
    BY DEF IInv
  <1> QED
    BY <1>1, Invariance, PTL

\* No writer, the start-up sweep included, changes a terminal trade record.
THEOREM TerminalFinal == Spec => TerminalStays
  <1> DEFINE Stay == \A o \in Orders : status[o] \in Terminal => status'[o] = status[o]
  <1>1. ASSUME IInv, [Next]_vars PROVE Stay
    <2>0. TypeOK
      BY <1>1 DEF IInv
    <2> USE DEF tableVars
    <2>1. ASSUME NEW o, NEW s, UpdateTradeStatus(o, s) \/ MarkPartialIfPending(o) PROVE Stay
      BY <2>0, <2>1 DEF UpdateTradeStatus, MarkPartialIfPending, Terminal, TypeOK
    <2>2. ASSUME NEW c \in Conns, NEW o \in Orders, ReceiveAck(c, o) PROVE Stay
      BY <2>1, <2>2 DEF ReceiveAck
    <2>3. ASSUME NEW c \in Conns, MarkPartial(c) PROVE Stay
      BY <2>1, <2>3 DEF MarkPartial
    <2>4. ASSUME NEW c \in Conns, FinishUpdate(c) PROVE Stay
      BY <2>1, <2>4 DEF FinishUpdate
    <2>5. ASSUME InsertTradeRecord PROVE Stay
      BY <2>0, <2>5 DEF InsertTradeRecord, Terminal, TypeOK
    <2>6. ASSUME Restart PROVE Stay
      BY <2>0, <2>6 DEF Restart, SweepOrphanPending, Terminal, TypeOK
    <2>7. CASE UNCHANGED status
      BY <2>7
    <2> QED
      BY <1>1, <2>2, <2>3, <2>4, <2>5, <2>6, <2>7
         DEF Next, vars, Exchange, Tick, Hook, Pass, Place, Trade, Cancel, ReceiveOrderUpdate,
             ReceiveDeltaReport, CheckFill, DrawID, CommitFill, Compare, Claim, SeedWatermark,
             AppendSeed, HandlerFails, TickStart, TickLoad, TickFold, TickAppend, Dispatch,
             TickFails
  <1>2. IInv /\ [Next]_vars => [Stay]_vars
    BY <1>1
  <1> QED
    BY <1>2, Invariance, PTL DEF Spec, TerminalStays
=============================================================================
