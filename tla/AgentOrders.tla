----------------------------- MODULE AgentOrders -----------------------------
(***************************************************************************)
(* How the agent turns trade_commands into exchange orders.                *)
(*                                                                         *)
(* Three goroutines share the idempotency store, the delta buffer and the  *)
(* connection: the read loop (handleTradeCommand, one command at a time),  *)
(* the exchange's user data stream (onOrderEvent) and, per session, the    *)
(* delta_report ticker. The exchange and the SaaS at the other end of the  *)
(* socket are external. Times are in one unit and on one clock, so the     *)
(* later of the agent's and the SaaS's clock is `now`.                     *)
(***************************************************************************)
EXTENDS Integers, Sequences

CONSTANTS
    Orders,     \* client_order_ids
    Trimmed,    \* orders whose quantity the lot-size grid rounds down
    Qty,        \* fills that complete an order
    Conns,      \* identities of dialled sockets, reused once nothing of them is left
    NoConn,     \* Client.conn == nil
    TTL,        \* valid_until_ms minus the time the intent was built
    Retention,  \* idempotency.retention_days
    Window,     \* frames the socket takes before a write blocks
    StoreFails, \* whether calls of the sqlite store may return an error
    MaxNow,     \* bound: the clock
    MaxSends,   \* bound: trade_commands sent
    MaxCrashes  \* bound: restarts of the agent

ASSUME QtyAssumption == Qty \in Nat \ {0}
ASSUME TrimmedAssumption == Trimmed \subseteq Orders
ASSUME NoConnAssumption == NoConn \notin Conns
ASSUME TTLAssumption == TTL \in Nat /\ Retention \in Nat /\ TTL <= Retention
ASSUME WindowAssumption == Window \in Nat \ {0}
ASSUME StoreAssumption == StoreFails \in BOOLEAN
ASSUME LimitAssumption == MaxNow \in Nat /\ MaxSends \in Nat /\ MaxCrashes \in Nat

VARIABLES
    now,
    until,    \* until[o]: valid_until_ms of the intent, 0 before it is built
    cmds,     \* trade_commands in flight
    sends,
    session,  \* Client.conn
    ready,    \* the handshake of the session is over
    open,     \* open[c]: writes to c still succeed
    up,       \* up[c]: frames written to c that the SaaS has not handled
    frozen,   \* Client.frozen
    idem,     \* idem[o]: status of the idempotency row, "none" without a row
    at,       \* at[o]: last_updated_ms of the row
    hpc, hord, hclk, hfilled, \* handleTradeCommand: position, order, clk, inline fills
    epc, erec,                \* onOrderEvent: position, status it read; its event is Head(events)
    delta,    \* deltaBuffer.fills; multiplicity is left to the SaaS's dedup
    dpc, drained,             \* dpc[c], drained[c]: the delta_report ticker of session c
    book, traded,             \* book[o], traded[o]: the order on the exchange
    events,   \* executionReports the stream has not finished delivering
    submits,  \* history: orders placed on the exchange, by client_order_id
    seen,     \* history: fills this process has learnt of
    written,  \* history: fills in delta_reports whose write succeeded
    accepted, \* history: orders acked accepted whose row has not been purged
    refused,  \* history: orders acked rejected or expired
    crashes

commandVars == <<until, cmds, sends>>
sessionVars == <<session, ready, open>>
storeVars == <<idem, at>>
handlerVars == <<hpc, hord, hclk, hfilled>>
eventVars == <<epc, erec>>
reportVars == <<dpc, drained>>
exchangeVars == <<book, traded, events, submits>>
fillVars == <<delta, seen, written>>
ackVars == <<accepted, refused>>
vars == <<now, commandVars, sessionVars, up, frozen, storeVars, handlerVars, eventVars,
          reportVars, exchangeVars, fillVars, ackVars, crashes>>

Terminal == {"filled", "cancelled", "rejected"}

IdemStatus == {"none", "pending", "accepted"} \cup Terminal

Fill == Orders \X (1..Qty)

FillsOf(o, k) == {o} \X (1..k)

Ack(o, s) == [type |-> "ack", order |-> o, status |-> s]
OrderUpdate(o, s, fs) == [type |-> "order_update", order |-> o, status |-> s, fills |-> fs]
DeltaReport(fs) == [type |-> "delta_report", fills |-> fs]

Event(o, s, fs) == [order |-> o, status |-> s, fills |-> fs]

Init ==
    /\ now = 1
    /\ until = [o \in Orders |-> 0]
    /\ cmds = <<>>
    /\ sends = 0
    /\ session = NoConn
    /\ ready = FALSE
    /\ open = [c \in Conns |-> FALSE]
    /\ up = [c \in Conns |-> <<>>]
    /\ frozen = FALSE
    /\ idem = [o \in Orders |-> "none"]
    /\ at = [o \in Orders |-> 0]
    /\ hpc = "idle" /\ hord \in Orders /\ hclk = 0 /\ hfilled = 0
    /\ epc = "idle" /\ erec = "none"
    /\ delta = {}
    /\ dpc = [c \in Conns |-> "none"]
    /\ drained = [c \in Conns |-> {}]
    /\ book = [o \in Orders |-> "none"]
    /\ traded = [o \in Orders |-> 0]
    /\ events = <<>>
    /\ submits = [o \in Orders |-> 0]
    /\ seen = {} /\ written = {}
    /\ accepted = {} /\ refused = {}
    /\ crashes = 0

\* sendTyped: a write waits for room, or fails because the connection is closed,
\* which every caller but the delta_report ticker ignores.
Emit(c, f) ==
    \/ /\ open[c]
       /\ Len(up[c]) < Window
       /\ up' = [up EXCEPT ![c] = Append(@, f)]
    \/ /\ ~open[c]
       /\ UNCHANGED up

\* What is left of the frames on c when the SaaS receives at most n of them.
Received(c, n) == SubSeq(up[c], 1, IF n < Len(up[c]) THEN n ELSE Len(up[c]))

-----------------------------------------------------------------------------
(***************************************************************************)
(* Time, the socket and the SaaS.                                          *)
(***************************************************************************)

Tick ==
    /\ now < MaxNow
    /\ now' = now + 1
    /\ UNCHANGED <<commandVars, sessionVars, up, frozen, storeVars, handlerVars, eventVars,
                   reportVars, exchangeVars, fillVars, ackVars, crashes>>

\* The protocol lets the SaaS send a command again; every copy carries the
\* valid_until_ms of the intent.
SendCommand(o) ==
    /\ sends < MaxSends
    /\ ready /\ open[session]
    /\ sends' = sends + 1
    /\ until' = IF until[o] = 0 THEN [until EXCEPT ![o] = now + TTL] ELSE until
    /\ cmds' = Append(cmds, o)
    /\ UNCHANGED <<now, sessionVars, up, frozen, storeVars, handlerVars, eventVars,
                   reportVars, exchangeVars, fillVars, ackVars, crashes>>

SaaSReads(c) ==
    /\ up[c] # <<>>
    /\ up' = [up EXCEPT ![c] = Tail(@)]
    /\ UNCHANGED <<now, commandVars, sessionVars, frozen, storeVars, handlerVars, eventVars,
                   reportVars, exchangeVars, fillVars, ackVars, crashes>>

\* Client.conn is set by the dial, before the handshake.
Dial(c) ==
    /\ session = NoConn
    /\ dpc[c] = "none" /\ ~open[c] /\ up[c] = <<>>
    /\ session' = c
    /\ open' = [open EXCEPT ![c] = TRUE]
    /\ UNCHANGED <<now, commandVars, ready, up, frozen, storeVars, handlerVars, eventVars,
                   reportVars, exchangeVars, fillVars, ackVars, crashes>>

\* The end of doHandshake: auth_ok has set the latch, and the delta_report ticker starts.
Ready ==
    /\ session # NoConn /\ open[session] /\ ~ready
    /\ ready' = TRUE
    /\ \E f \in BOOLEAN : frozen' = f
    /\ dpc' = [dpc EXCEPT ![session] = "idle"]
    /\ UNCHANGED <<now, commandVars, session, open, up, storeVars, handlerVars, eventVars,
                   drained, exchangeVars, fillVars, ackVars, crashes>>

\* The connection dies: frames the SaaS did not receive are lost from the tail,
\* commands the read loop did not reach are lost.
Break ==
    /\ session # NoConn /\ open[session]
    /\ open' = [open EXCEPT ![session] = FALSE]
    /\ \E n \in 0..Window : up' = [up EXCEPT ![session] = Received(session, n)]
    /\ cmds' = <<>>
    /\ UNCHANGED <<now, until, sends, session, ready, frozen, storeVars, handlerVars, eventVars,
                   reportVars, exchangeVars, fillVars, ackVars, crashes>>

\* The read loop notices between two commands; the ticker is cancelled unless it
\* is past its drain.
EndSession ==
    /\ session # NoConn /\ ~open[session]
    /\ hpc = "idle"
    /\ session' = NoConn
    /\ ready' = FALSE
    /\ dpc' = [dpc EXCEPT ![session] = IF @ = "idle" THEN "none" ELSE @]
    /\ UNCHANGED <<now, commandVars, open, up, frozen, storeVars, handlerVars, eventVars,
                   drained, exchangeVars, fillVars, ackVars, crashes>>

-----------------------------------------------------------------------------
(***************************************************************************)
(* handleTradeCommand, on the read loop.                                   *)
(***************************************************************************)

Reading(o) ==
    /\ ready /\ hpc = "idle"
    /\ cmds # <<>> /\ o = Head(cmds)
    /\ cmds' = Tail(cmds)
    /\ UNCHANGED <<now, until, sends, sessionVars, frozen, storeVars, eventVars, reportVars,
                   exchangeVars, fillVars, crashes>>

\* A failed lookup refuses the command with an error frame, which the SaaS only logs.
LookupFails(o) ==
    /\ StoreFails
    /\ Reading(o)
    /\ UNCHANGED <<up, handlerVars, accepted, refused>>

MutExpired(o) == FALSE

Expired(o) == until[o] > 0 /\ now > until[o]

MutKnown(o) == idem[o] # "none" /\ ~frozen

\* The idempotency lookup, which comes before every other check.
Known(o) == idem[o] # "none"

duplicateAck(o) ==
    Ack(o, IF idem[o] \in Terminal THEN "duplicate_terminal" ELSE "duplicate_pending")

Duplicate(o) ==
    /\ Reading(o)
    /\ Known(o)
    /\ Emit(session, duplicateAck(o))
    /\ UNCHANGED <<handlerVars, accepted, refused>>

MutFresh(o) == ~Known(o) /\ ~Expired(o)

\* No row, not frozen, not past its deadline.
Fresh(o) == ~Known(o) /\ ~frozen /\ ~Expired(o)

\* Refusals leave no row. An unparsable or zero quantity, or a bad limit price, is
\* refused like a frozen agent.
Refuse(o) ==
    /\ Reading(o)
    /\ ~Known(o)
    /\ \E s \in {"rejected", "expired"} :
          /\ s = "expired" => ~frozen /\ Expired(o)
          /\ s = "rejected" => frozen \/ ~Expired(o)
          /\ Emit(session, Ack(o, s))
    /\ refused' = refused \cup {o}
    /\ UNCHANGED <<handlerVars, accepted>>

Admit(o) ==
    /\ Reading(o)
    /\ Fresh(o)
    /\ hpc' = "record"
    /\ hord' = o
    /\ hclk' = now
    /\ UNCHANGED <<hfilled, up, accepted, refused>>

Return == hpc' = "idle" /\ hclk' = 0 /\ hfilled' = 0 /\ UNCHANGED hord

MutPutPending ==
    /\ hpc = "record"
    /\ hpc' = "submit"
    /\ UNCHANGED <<now, commandVars, sessionVars, up, frozen, storeVars, hord, hclk, hfilled,
                   eventVars, reportVars, exchangeVars, fillVars, ackVars, crashes>>

\* Put of the pending row. Without it the command is refused with an error frame.
PutPending ==
    /\ hpc = "record"
    /\ \/ /\ idem' = [idem EXCEPT ![hord] = "pending"]
          /\ at' = [at EXCEPT ![hord] = hclk]
          /\ hpc' = "submit"
          /\ UNCHANGED <<hord, hclk, hfilled>>
       \/ /\ StoreFails
          /\ Return
          /\ UNCHANGED storeVars
    /\ UNCHANGED <<now, commandVars, sessionVars, up, frozen, eventVars, reportVars,
                   exchangeVars, fillVars, ackVars, crashes>>

\* Submit fails before the exchange has the order: a local check, an API error, or
\* a request that never arrived.
SubmitRefused ==
    /\ hpc = "submit"
    /\ hpc' = "failed"
    /\ UNCHANGED <<now, commandVars, sessionVars, up, frozen, storeVars, hord, hclk, hfilled,
                   eventVars, reportVars, exchangeVars, fillVars, ackVars, crashes>>

\* The exchange takes the order; it starts trading before the response is read.
SubmitTaken ==
    /\ hpc = "submit"
    /\ hpc' = "response"
    /\ book' = [book EXCEPT ![hord] = "open"]
    /\ submits' = [submits EXCEPT ![hord] = @ + 1]
    /\ UNCHANGED <<now, commandVars, sessionVars, up, frozen, storeVars, hord, hclk, hfilled,
                   eventVars, reportVars, traded, events, fillVars, ackVars, crashes>>

\* The response lists the fills matched so far, or it is lost or unreadable: Submit
\* then returns an error although the order is live.
Response ==
    /\ hpc = "response"
    /\ \/ /\ hpc' = "accepted"
          /\ hfilled' \in 0..traded[hord]
       \/ /\ hpc' = "failed"
          /\ UNCHANGED hfilled
    /\ UNCHANGED <<now, commandVars, sessionVars, up, frozen, storeVars, hord, hclk,
                   eventVars, reportVars, exchangeVars, fillVars, ackVars, crashes>>

\* UpdateStatus of the row, in the store: a missing row and a failing store are no-ops.
UpdateStatus(o, s) ==
    \/ /\ idem[o] # "none"
       /\ idem' = [idem EXCEPT ![o] = s]
       /\ at' = [at EXCEPT ![o] = now]
    \/ /\ idem[o] = "none" \/ StoreFails
       /\ UNCHANGED storeVars

\* Every error of Submit is answered with a rejection.
SubmitFailed ==
    /\ hpc = "failed"
    /\ UpdateStatus(hord, "rejected")
    /\ Emit(session, Ack(hord, "rejected"))
    /\ refused' = refused \cup {hord}
    /\ Return
    /\ UNCHANGED <<now, commandVars, sessionVars, frozen, eventVars, reportVars,
                   exchangeVars, fillVars, accepted, crashes>>

AckAccepted ==
    /\ hpc = "accepted"
    /\ Emit(session, Ack(hord, "accepted"))
    /\ accepted' = accepted \cup {hord}
    /\ hpc' = IF hfilled > 0 THEN "fills" ELSE "put"
    /\ UNCHANGED <<now, commandVars, sessionVars, frozen, storeVars, hord, hclk, hfilled,
                   eventVars, reportVars, exchangeVars, fillVars, refused, crashes>>

\* A trimmed order never reaches the quantity the command asked for.
Complete == hfilled = Qty /\ hord \notin Trimmed

InlineFills ==
    /\ hpc = "fills"
    /\ delta' = delta \cup FillsOf(hord, hfilled)
    /\ seen' = seen \cup FillsOf(hord, hfilled)
    /\ Emit(session, OrderUpdate(hord, IF Complete THEN "filled" ELSE "partial_filled",
                                 FillsOf(hord, hfilled)))
    /\ hpc' = "put"
    /\ UNCHANGED <<now, commandVars, sessionVars, frozen, storeVars, hord, hclk, hfilled,
                   eventVars, reportVars, exchangeVars, written, ackVars, crashes>>

\* The last Put replaces the row, whatever it holds by now.
PutFinal ==
    /\ hpc = "put"
    /\ \/ /\ idem' = [idem EXCEPT ![hord] = IF Complete THEN "filled" ELSE "accepted"]
          /\ at' = [at EXCEPT ![hord] = now]
       \/ /\ StoreFails
          /\ UNCHANGED storeVars
    /\ Return
    /\ UNCHANGED <<now, commandVars, sessionVars, up, frozen, eventVars, reportVars,
                   exchangeVars, fillVars, ackVars, crashes>>

\* kill_switch and resume are read by the same loop, so never amid a command. Its
\* `accepted` ack names no order, and the SaaS drops accepted acks.
handleKillSwitch ==
    /\ ready /\ hpc = "idle"
    /\ frozen' = ~frozen
    /\ UNCHANGED <<now, commandVars, sessionVars, up, storeVars, handlerVars, eventVars,
                   reportVars, exchangeVars, fillVars, ackVars, crashes>>

-----------------------------------------------------------------------------
(***************************************************************************)
(* The exchange (external) and its event stream.                           *)
(***************************************************************************)

Trade(o) ==
    /\ book[o] = "open"
    /\ traded' = [traded EXCEPT ![o] = @ + 1]
    /\ book' = [book EXCEPT ![o] = IF traded'[o] = Qty THEN "filled" ELSE "open"]
    /\ events' = Append(events, Event(o, IF traded'[o] = Qty THEN "filled" ELSE "partial_filled",
                                      {<<o, traded'[o]>>}))
    /\ UNCHANGED <<now, commandVars, sessionVars, up, frozen, storeVars, handlerVars, eventVars,
                   reportVars, submits, fillVars, ackVars, crashes>>

\* Cancelled, or the remainder of an IOC order expires.
Cancel(o) ==
    /\ book[o] = "open"
    /\ book' = [book EXCEPT ![o] = "cancelled"]
    /\ events' = Append(events, Event(o, "cancelled", {}))
    /\ UNCHANGED <<now, commandVars, sessionVars, up, frozen, storeVars, handlerVars, eventVars,
                   reportVars, traded, submits, fillVars, ackVars, crashes>>

\* The stream reconnects between two events; what it missed is not replayed.
StreamReconnects ==
    /\ epc = "idle" /\ events # <<>>
    /\ events' = <<>>
    /\ UNCHANGED <<now, commandVars, sessionVars, up, frozen, storeVars, handlerVars, eventVars,
                   reportVars, book, traded, submits, fillVars, ackVars, crashes>>

-----------------------------------------------------------------------------
(***************************************************************************)
(* onOrderEvent, on the stream's goroutine.                                *)
(***************************************************************************)

EventOrder == Head(events).order

\* An event of an order without a row is dropped. A failed lookup keeps the fill
\* and skips the status.
TakeEvent ==
    /\ epc = "idle" /\ events # <<>>
    /\ \/ /\ idem[EventOrder] = "none"
          /\ events' = Tail(events)
          /\ UNCHANGED <<eventVars, delta, seen>>
       \/ /\ \/ idem[EventOrder] # "none" /\ erec' = idem[EventOrder]
             \/ StoreFails /\ erec' = "error"
          /\ epc' = "status"
          /\ delta' = delta \cup Head(events).fills
          /\ seen' = seen \cup Head(events).fills
          /\ UNCHANGED events
    /\ UNCHANGED <<now, commandVars, sessionVars, up, frozen, storeVars, handlerVars,
                   reportVars, book, traded, submits, written, ackVars, crashes>>

mapEventStatusToIdem(s, current) == IF s \in Terminal THEN s ELSE current

WriteStatus ==
    /\ epc = "status"
    /\ LET s == mapEventStatusToIdem(Head(events).status, erec)
       IN  IF erec = "error" \/ s = erec
           THEN UNCHANGED storeVars
           ELSE UpdateStatus(EventOrder, s)
    /\ epc' = "send"
    /\ erec' = "none"
    /\ UNCHANGED <<now, commandVars, sessionVars, up, frozen, handlerVars, reportVars,
                   exchangeVars, fillVars, ackVars, crashes>>

\* Without a session the update is dropped. One that reaches the SaaS during the
\* handshake is an unexpected frame there, and the SaaS closes the connection.
SendUpdate ==
    /\ epc = "send"
    /\ epc' = "idle"
    /\ events' = Tail(events)
    /\ LET e == Head(events)
       IN  \/ /\ session = NoConn
              /\ UNCHANGED <<up, open>>
           \/ /\ session # NoConn
              /\ Emit(session, OrderUpdate(e.order, e.status, e.fills))
              /\ UNCHANGED open
           \/ /\ session # NoConn /\ ~ready
              /\ open' = [open EXCEPT ![session] = FALSE]
              /\ UNCHANGED up
    /\ UNCHANGED <<now, commandVars, session, ready, frozen, storeVars, handlerVars, erec,
                   reportVars, book, traded, submits, fillVars, ackVars, crashes>>

-----------------------------------------------------------------------------
(***************************************************************************)
(* sendDeltaReport, on the ticker of a session. A report without fills     *)
(* changes nothing here.                                                   *)
(***************************************************************************)

Drain(c) ==
    /\ dpc[c] = "idle" /\ delta # {}
    /\ drained' = [drained EXCEPT ![c] = delta]
    /\ delta' = {}
    /\ dpc' = [dpc EXCEPT ![c] = "send"]
    /\ UNCHANGED <<now, commandVars, sessionVars, up, frozen, storeVars, handlerVars, eventVars,
                   exchangeVars, seen, written, ackVars, crashes>>

MutRequeue(c) == delta

requeue(c) == delta \cup drained[c]

SendReport(c) ==
    /\ dpc[c] = "send"
    /\ Emit(c, DeltaReport(drained[c]))
    /\ IF open[c]
       THEN written' = written \cup drained[c] /\ UNCHANGED delta
       ELSE delta' = requeue(c) /\ UNCHANGED written
    /\ drained' = [drained EXCEPT ![c] = {}]
    /\ dpc' = [dpc EXCEPT ![c] = IF session = c THEN "idle" ELSE "none"]
    /\ UNCHANGED <<now, commandVars, sessionVars, frozen, storeVars, handlerVars, eventVars,
                   exchangeVars, seen, ackVars, crashes>>

-----------------------------------------------------------------------------
(***************************************************************************)
(* The process dies and starts again: only the sqlite rows survive, and    *)
(* the start purges the old ones.                                          *)
(***************************************************************************)

Stale == {o \in Orders : idem[o] # "none" /\ at[o] < now - Retention}

Purge(rows) ==
    /\ idem' = [o \in Orders |-> IF o \in rows THEN "none" ELSE idem[o]]
    /\ at' = [o \in Orders |-> IF o \in rows THEN 0 ELSE at[o]]
    /\ accepted' = accepted \ rows

Crash ==
    /\ crashes < MaxCrashes
    /\ crashes' = crashes + 1
    /\ Purge(Stale) \/ (StoreFails /\ Purge({}))
    /\ session' = NoConn
    /\ ready' = FALSE
    /\ open' = [c \in Conns |-> FALSE]
    /\ \E n \in [Conns -> 0..Window] : up' = [c \in Conns |-> Received(c, n[c])]
    /\ cmds' = <<>>
    /\ frozen' = FALSE
    /\ Return
    /\ epc' = "idle" /\ erec' = "none" /\ events' = <<>>
    /\ delta' = {} /\ seen' = {}
    /\ dpc' = [c \in Conns |-> "none"]
    /\ drained' = [c \in Conns |-> {}]
    /\ UNCHANGED <<now, until, sends, book, traded, submits, written, refused>>

-----------------------------------------------------------------------------
Session == Ready \/ Break \/ EndSession \/ \E c \in Conns : Dial(c)

handleTradeCommand ==
    \/ \E o \in Orders : LookupFails(o) \/ Duplicate(o) \/ Refuse(o) \/ Admit(o)
    \/ PutPending \/ SubmitRefused \/ SubmitTaken \/ Response \/ SubmitFailed
    \/ AckAccepted \/ InlineFills \/ PutFinal

Exchange == StreamReconnects \/ \E o \in Orders : Trade(o) \/ Cancel(o)

onOrderEvent == TakeEvent \/ WriteStatus \/ SendUpdate

sendDeltaReport == \E c \in Conns : Drain(c) \/ SendReport(c)

AgentNext ==
    \/ Session \/ handleTradeCommand \/ handleKillSwitch
    \/ Exchange \/ onOrderEvent \/ sendDeltaReport \/ Crash

Next ==
    \/ AgentNext
    \/ Tick
    \/ \E o \in Orders : SendCommand(o)
    \/ \E c \in Conns : SaaSReads(c)

Spec == Init /\ [][Next]_vars

-----------------------------------------------------------------------------
(***************************************************************************)
(* Properties.                                                             *)
(***************************************************************************)

FrameType ==
    [type : {"ack"}, order : Orders,
     status : {"accepted", "rejected", "expired", "duplicate_terminal", "duplicate_pending"}]
    \cup [type : {"order_update"}, order : Orders,
          status : {"filled", "partial_filled", "cancelled"}, fills : SUBSET Fill]
    \cup [type : {"delta_report"}, fills : SUBSET Fill]

EventType ==
    [order : Orders, status : {"filled", "partial_filled", "cancelled"}, fills : SUBSET Fill]

CommandType ==
    /\ now \in Nat
    /\ until \in [Orders -> Nat]
    /\ cmds \in Seq(Orders)
    /\ sends \in 0..MaxSends

SessionType ==
    /\ session \in Conns \cup {NoConn}
    /\ open \in [Conns -> BOOLEAN]
    /\ dpc \in [Conns -> {"none", "idle", "send"}]
    /\ ready \in BOOLEAN
    /\ frozen \in BOOLEAN

StoreType ==
    /\ idem \in [Orders -> IdemStatus]
    /\ at \in [Orders -> Nat]

HandlerType ==
    /\ hpc \in {"idle", "record", "submit", "response", "failed", "accepted", "fills", "put"}
    /\ hord \in Orders
    /\ hclk \in Nat
    /\ hfilled \in 0..Qty
    /\ epc \in {"idle", "status", "send"}
    /\ erec \in IdemStatus \cup {"error"}

FillType ==
    /\ delta \in SUBSET Fill
    /\ seen \in SUBSET Fill
    /\ written \in SUBSET Fill
    /\ drained \in [Conns -> SUBSET Fill]

ExchangeType ==
    /\ book \in [Orders -> {"none", "open", "filled", "cancelled"}]
    /\ traded \in [Orders -> 0..Qty]
    /\ events \in Seq(EventType)
    /\ submits \in [Orders -> Nat]

AckType ==
    /\ accepted \in SUBSET Orders
    /\ refused \in SUBSET Orders
    /\ crashes \in 0..MaxCrashes

\* The types of the agent's, the store's and the exchange's state; in particular the
\* exchange never trades more of an order than its quantity.
TypeOK ==
    /\ CommandType
    /\ SessionType
    /\ StoreType
    /\ HandlerType
    /\ FillType
    /\ ExchangeType
    /\ AckType
    /\ up \in [Conns -> Seq(FrameType)]

\* handleTradeCommand places a client_order_id on the exchange at most once, however
\* often the command is repeated, wherever the agent restarts, and although the
\* start-up purge forgets old rows.
AtMostOnce == \A o \in Orders : submits[o] <= 1

\* No order is placed while the kill switch holds the agent, although the latch is
\* read well before Submit is called.
FrozenNeverSubmits == [][frozen => submits' = submits]_vars

\* A repeated command for an order the agent accepted is never answered with a
\* rejection or an expiry, which the SaaS would take as the end of the order.
AcceptedNeverRefused == [][\A o \in accepted : o \in refused' => o \in refused]_vars

\* A fill the running agent has learnt of, from a submit response or the event
\* stream, is in the delta buffer, in a report being sent, or in one that was
\* written: a failed write loses none.
FillsRetained ==
    seen \subseteq delta \cup written \cup UNION {drained[c] : c \in Conns}

-----------------------------------------------------------------------------
(***************************************************************************)
(* The inductive invariant behind the properties above.                    *)
(***************************************************************************)

\* Between the checks and the Put the order has not been placed; after the Put and
\* until the handler returns, its row exists.
HandlerOwnsOrder ==
    /\ hpc # "idle" => ready
    /\ ready => session # NoConn
    /\ hpc \in {"record", "submit"} => ~frozen /\ submits[hord] = 0
    /\ hpc \notin {"idle", "record"} => idem[hord] # "none"
    /\ hpc = "record" => until[hord] > 0 /\ until[hord] <= hclk + TTL
    /\ hpc \in {"record", "submit", "response", "failed"} => hord \notin accepted

\* A row was touched no earlier than the intent was built.
RowsFresh ==
    /\ now > 0
    /\ \A i \in 1..Len(cmds) : until[cmds[i]] > 0
    /\ \A o \in Orders : until[o] <= now + TTL
    /\ \A o \in Orders : idem[o] # "none" => until[o] > 0 /\ until[o] <= at[o] + TTL

\* A placed order has its row, or it is past its deadline.
PlacedIsKnown ==
    \A o \in Orders : submits[o] > 0 =>
        /\ submits[o] = 1
        /\ idem[o] # "none" \/ (until[o] > 0 /\ now > until[o])

AcceptedIsKnown == \A o \in accepted : idem[o] # "none"

\* What the exchange trades was placed.
BookFollowsSubmit ==
    \A o \in Orders :
        /\ submits[o] = 0 => book[o] = "none" /\ traded[o] = 0
        /\ book[o] = "open" => traded[o] < Qty

\* The event being handled is still at the head of the stream.
EventAtHand == epc # "idle" => events # <<>>

\* Only a ticker past its drain holds fills, and a session starts without one.
OnlySendersHoldFills ==
    \A c \in Conns :
        /\ dpc[c] # "send" => drained[c] = {}
        /\ c = session /\ ~ready => dpc[c] = "none"

IInv ==
    /\ HandlerOwnsOrder
    /\ RowsFresh
    /\ PlacedIsKnown
    /\ AcceptedIsKnown
    /\ BookFollowsSubmit
    /\ EventAtHand
    /\ OnlySendersHoldFills

-----------------------------------------------------------------------------
(***************************************************************************)
(* A statement of the repository that does not hold.                       *)
(***************************************************************************)

\* When each command is sent once, an order acked as rejected or expired is not on
\* the exchange: Submit's transport errors, whose outcome is unknown, are not
\* reported as rejections.
RefusedWasNotPlaced == \A o \in refused : submits[o] = 0

=============================================================================
