-------------------------- MODULE AgentOrdersProofs --------------------------
(***************************************************************************)
(* Proofs about AgentOrders, for every set of orders and connections and   *)
(* every bound.                                                            *)
(***************************************************************************)
EXTENDS AgentOrders, SequenceTheorems, TLAPS

USE QtyAssumption, TrimmedAssumption, NoConnAssumption, TTLAssumption, WindowAssumption,
    StoreAssumption, LimitAssumption

\* A written frame leaves every channel well typed.
LEMMA EmitType ==
    ASSUME TypeOK, NEW c \in Conns, NEW f \in FrameType, Emit(c, f)
    PROVE  up' \in [Conns -> Seq(FrameType)]
  <1>1. up \in [Conns -> Seq(FrameType)]
    BY DEF TypeOK
  <1>2. Append(up[c], f) \in Seq(FrameType)
    BY <1>1
  <1> QED
    BY <1>1, <1>2 DEF Emit

\* Truncation keeps a channel well typed.
LEMMA ReceivedType ==
    ASSUME TypeOK, NEW c \in Conns, NEW n \in 0..Window
    PROVE  Received(c, n) \in Seq(FrameType)
  <1>1. up[c] \in Seq(FrameType)
    BY DEF TypeOK
  <1> DEFINE m == IF n < Len(up[c]) THEN n ELSE Len(up[c])
  <1>2. m \in 0..Len(up[c])
    BY <1>1, LenProperties
  <1>3. \A i \in 1..m : up[c][i] \in FrameType
    BY <1>1, <1>2, ElementOfSeq
  <1> HIDE DEF m
  <1>4. SubSeq(up[c], 1, m) \in Seq(FrameType)
    BY <1>2, <1>3, SubSeqProperties
  <1> QED
    BY <1>4 DEF Received, m

\* The initial state is well typed.
LEMMA InitType == Init => TypeOK
  <1> SUFFICES ASSUME Init PROVE TypeOK
    OBVIOUS
  <1>1. CommandType /\ HandlerType
    BY DEF Init, CommandType, HandlerType, IdemStatus
  <1>2. SessionType
    BY DEF Init, SessionType
  <1>3. StoreType /\ ExchangeType
    BY DEF Init, StoreType, ExchangeType, IdemStatus
  <1>4. FillType /\ AckType
    BY DEF Init, FillType, AckType
  <1>5. up \in [Conns -> Seq(FrameType)]
    BY DEF Init
  <1> QED
    BY <1>1, <1>2, <1>3, <1>4, <1>5 DEF TypeOK

\* Reading a command: there is a session, and the rest of the queue is well typed.
LEMMA ReadingType ==
    ASSUME TypeOK, IInv, NEW o \in Orders, Reading(o)
    PROVE  session \in Conns /\ cmds' \in Seq(Orders)
  BY DEF TypeOK, CommandType, SessionType, IInv, HandlerOwnsOrder, Reading

\* UpdateStatus keeps the rows well typed.
LEMMA UpdateStatusType ==
    ASSUME TypeOK, NEW o \in Orders, NEW s \in Terminal, UpdateStatus(o, s)
    PROVE  StoreType'
  BY ZenonT(30) DEF TypeOK, CommandType, StoreType, UpdateStatus, storeVars, IdemStatus

\* The fills of an order are fills.
LEMMA FillsOfType ==
    ASSUME NEW o \in Orders, NEW k \in 0..Qty
    PROVE  FillsOf(o, k) \subseteq Fill
  BY DEF FillsOf, Fill

\* The event at the head of the stream.
LEMMA HeadEventType ==
    ASSUME TypeOK, events # <<>>
    PROVE  /\ Head(events) \in EventType
           /\ Tail(events) \in Seq(EventType)
           /\ EventOrder \in Orders
           /\ Head(events).fills \subseteq Fill
           /\ Head(events).status \in {"filled", "partial_filled", "cancelled"}
  <1>1. Head(events) \in EventType /\ Tail(events) \in Seq(EventType)
    BY HeadTailProperties DEF TypeOK, ExchangeType
  <1> QED
    BY <1>1 DEF EventType, EventOrder

\* The frames of the protocol.
LEMMA FramesType ==
    ASSUME NEW o \in Orders, NEW fs \in SUBSET Fill
    PROVE  /\ \A s \in {"accepted", "rejected", "expired", "duplicate_terminal",
                        "duplicate_pending"} : Ack(o, s) \in FrameType
           /\ \A s \in {"filled", "partial_filled", "cancelled"} :
                 OrderUpdate(o, s, fs) \in FrameType /\ Event(o, s, fs) \in EventType
           /\ DeltaReport(fs) \in FrameType
  BY DEF Ack, OrderUpdate, DeltaReport, Event, FrameType, EventType

\* A trade or a cancellation adds one event to the stream.
LEMMA NewEvent ==
    ASSUME TypeOK, IInv, NEW o \in Orders, Trade(o) \/ Cancel(o)
    PROVE  events' \in Seq(EventType) /\ events' # <<>>
  <1>1. \E e \in EventType : events' = Append(events, e)
    <2>1. CASE Trade(o)
      <3>1. traded'[o] \in 1..Qty
        BY <2>1 DEF Trade, TypeOK, ExchangeType, IInv, BookFollowsSubmit
      <3>2. {<<o, traded'[o]>>} \in SUBSET Fill
        BY <3>1 DEF Fill
      <3>3. PICK s \in {"filled", "partial_filled"} :
               events' = Append(events, Event(o, s, {<<o, traded'[o]>>}))
        BY <2>1 DEF Trade
      <3>4. Event(o, s, {<<o, traded'[o]>>}) \in EventType
        BY <3>2, FramesType
      <3> QED
        BY <3>3, <3>4
    <2>2. CASE Cancel(o)
      BY <2>2, FramesType DEF Cancel
    <2> QED
      BY <2>1, <2>2
  <1>2. PICK e \in EventType : events' = Append(events, e)
    BY <1>1
  <1>3. events \in Seq(EventType)
    BY DEF TypeOK, ExchangeType
  <1>4. events' \in Seq(EventType) /\ Len(events') = Len(events) + 1 /\ Len(events) \in Nat
    BY <1>2, <1>3, AppendProperties, LenProperties
  <1> QED
    BY <1>4

\* Every step keeps the state well typed.
LEMMA TypeStep == TypeOK /\ IInv /\ [Next]_vars => TypeOK'
  <1> SUFFICES ASSUME TypeOK, IInv, [Next]_vars PROVE TypeOK'
    OBVIOUS
  <1> USE DEF commandVars, sessionVars, storeVars, handlerVars, eventVars, reportVars,
              exchangeVars, fillVars, ackVars
  <1> USE DEF TypeOK, CommandType, SessionType, StoreType, HandlerType, FillType, ExchangeType,
              AckType
  <1>1. ASSUME Tick PROVE TypeOK'
    <2>1. now' \in Nat
      BY <1>1 DEF Tick
    <2> QED
      BY <1>1, <2>1 DEF Tick
  <1>2. ASSUME NEW o \in Orders, SendCommand(o) PROVE TypeOK'
    <2>1. cmds' \in Seq(Orders) /\ until' \in [Orders -> Nat] /\ sends' \in 0..MaxSends
      BY <1>2 DEF SendCommand
    <2> QED
      BY <1>2, <2>1 DEF SendCommand
  <1>3. ASSUME NEW c \in Conns, SaaSReads(c) PROVE TypeOK'
    BY <1>3, SMTT(30) DEF SaaSReads
  <1>4. ASSUME NEW c \in Conns, Dial(c) PROVE TypeOK'
    BY <1>4 DEF Dial
  <1>5. ASSUME Ready PROVE TypeOK'
    BY <1>5 DEF Ready
  <1>6. ASSUME Break PROVE TypeOK'
    <2>1. up' \in [Conns -> Seq(FrameType)]
      <3>1. PICK n \in 0..Window : up' = [up EXCEPT ![session] = Received(session, n)]
        BY <1>6 DEF Break
      <3> QED
        BY <1>6, <3>1, ReceivedType DEF Break
    <2>2. SessionType'
      BY <1>6 DEF Break
    <2>3. CommandType'
      BY <1>6 DEF Break
    <2>4. StoreType' /\ HandlerType' /\ FillType' /\ ExchangeType' /\ AckType'
      BY <1>6 DEF Break
    <2> QED
      BY <2>1, <2>2, <2>3, <2>4
  <1>7. ASSUME EndSession PROVE TypeOK'
    BY <1>7 DEF EndSession
  <1>8. ASSUME NEW o \in Orders, LookupFails(o) PROVE TypeOK'
    <2>1. cmds' \in Seq(Orders)
      BY <1>8, ReadingType DEF LookupFails
    <2> QED
      BY <1>8, <2>1 DEF LookupFails, Reading
  <1>9. ASSUME NEW o \in Orders, Duplicate(o) PROVE TypeOK'
    <2>1. session \in Conns /\ cmds' \in Seq(Orders)
      BY <1>9, ReadingType DEF Duplicate
    <2>2. duplicateAck(o) \in FrameType
      BY FramesType DEF duplicateAck
    <2>3. up' \in [Conns -> Seq(FrameType)]
      BY <1>9, <2>1, <2>2, EmitType DEF Duplicate
    <2> QED
      BY <1>9, <2>1, <2>3 DEF Duplicate, Reading
  <1>10. ASSUME NEW o \in Orders, Refuse(o) PROVE TypeOK'
    <2>1. session \in Conns /\ cmds' \in Seq(Orders)
      BY <1>10, ReadingType DEF Refuse
    <2>2. PICK s \in {"rejected", "expired"} : Emit(session, Ack(o, s))
      BY <1>10 DEF Refuse
    <2>3. up' \in [Conns -> Seq(FrameType)]
      BY <2>1, <2>2, FramesType, EmitType
    <2>4. refused' \in SUBSET Orders
      BY <1>10 DEF Refuse
    <2> QED
      BY <1>10, <2>1, <2>3, <2>4 DEF Refuse, Reading
  <1>11. ASSUME NEW o \in Orders, Admit(o) PROVE TypeOK'
    <2>1. cmds' \in Seq(Orders)
      BY <1>11, ReadingType DEF Admit
    <2> QED
      BY <1>11, <2>1 DEF Admit, Reading
  <1>12. ASSUME PutPending PROVE TypeOK'
    <2>1. at' \in [Orders -> Nat]
      BY <1>12 DEF PutPending
    <2>2. idem' \in [Orders -> IdemStatus]
      BY <1>12 DEF PutPending, IdemStatus
    <2>3. HandlerType'
      BY <1>12 DEF PutPending, Return
    <2> QED
      BY <1>12, <2>1, <2>2, <2>3 DEF PutPending
  <1>13. ASSUME SubmitRefused PROVE TypeOK'
    BY <1>13 DEF SubmitRefused
  <1>14. ASSUME SubmitTaken PROVE TypeOK'
    <2>1. ExchangeType'
      BY <1>14 DEF SubmitTaken
    <2>2. HandlerType'
      BY <1>14 DEF SubmitTaken
    <2> QED
      BY <1>14, <2>1, <2>2 DEF SubmitTaken
  <1>15. ASSUME Response PROVE TypeOK'
    BY <1>15, SMTT(30) DEF Response
  <1>16. ASSUME SubmitFailed PROVE TypeOK'
    <2>1. session \in Conns
      BY <1>16 DEF SubmitFailed, IInv, HandlerOwnsOrder
    <2>2. up' \in [Conns -> Seq(FrameType)]
      BY <1>16, <2>1, FramesType, EmitType DEF SubmitFailed
    <2>3. StoreType'
      BY <1>16, UpdateStatusType DEF SubmitFailed, Terminal
    <2>4. HandlerType' /\ AckType'
      BY <1>16 DEF SubmitFailed, Return
    <2> QED
      BY <1>16, <2>2, <2>3, <2>4 DEF SubmitFailed
  <1>17. ASSUME AckAccepted PROVE TypeOK'
    <2>1. session \in Conns
      BY <1>17 DEF AckAccepted, IInv, HandlerOwnsOrder
    <2>2. up' \in [Conns -> Seq(FrameType)]
      BY <1>17, <2>1, FramesType, EmitType DEF AckAccepted
    <2>3. HandlerType' /\ AckType'
      BY <1>17 DEF AckAccepted
    <2> QED
      BY <1>17, <2>2, <2>3 DEF AckAccepted
  <1>18. ASSUME InlineFills PROVE TypeOK'
    <2>1. session \in Conns
      BY <1>18 DEF InlineFills, IInv, HandlerOwnsOrder
    <2>2. FillsOf(hord, hfilled) \subseteq Fill
      BY FillsOfType
    <2>3. up' \in [Conns -> Seq(FrameType)]
      BY <1>18, <2>1, <2>2, FramesType, EmitType DEF InlineFills
    <2>4. HandlerType' /\ FillType'
      BY <1>18, <2>2 DEF InlineFills
    <2> QED
      BY <1>18, <2>3, <2>4 DEF InlineFills
  <1>19. ASSUME PutFinal PROVE TypeOK'
    <2>1. at' \in [Orders -> Nat]
      BY <1>19 DEF PutFinal
    <2>2. idem' \in [Orders -> IdemStatus]
      BY <1>19 DEF PutFinal, IdemStatus, Terminal
    <2>3. HandlerType'
      BY <1>19 DEF PutFinal, Return
    <2> QED
      BY <1>19, <2>1, <2>2, <2>3 DEF PutFinal
  <1>20. ASSUME handleKillSwitch PROVE TypeOK'
    BY <1>20 DEF handleKillSwitch
  <1>21. ASSUME NEW o \in Orders, Trade(o) PROVE TypeOK'
    <2>1. traded[o] + 1 \in 0..Qty
      BY <1>21, SMTT(30) DEF Trade, IInv, BookFollowsSubmit
    <2>2. traded' \in [Orders -> 0..Qty]
      BY <1>21, <2>1 DEF Trade
    <2>3. book' \in [Orders -> {"none", "open", "filled", "cancelled"}]
      BY <1>21 DEF Trade
    <2>4. events' \in Seq(EventType)
      BY <1>21, NewEvent
    <2> QED
      BY <1>21, <2>2, <2>3, <2>4 DEF Trade
  <1>22. ASSUME NEW o \in Orders, Cancel(o) PROVE TypeOK'
    <2>1. events' \in Seq(EventType)
      BY <1>22, NewEvent
    <2> QED
      BY <1>22, <2>1 DEF Cancel
  <1>23. ASSUME StreamReconnects PROVE TypeOK'
    <2>1. events' \in Seq(EventType)
      BY <1>23 DEF StreamReconnects
    <2>2. ExchangeType'
      BY <1>23, <2>1 DEF StreamReconnects
    <2> QED
      BY <1>23, <2>2 DEF StreamReconnects
  <1>24. ASSUME TakeEvent PROVE TypeOK'
    <2>1. /\ Tail(events) \in Seq(EventType)
          /\ EventOrder \in Orders
          /\ Head(events).fills \subseteq Fill
      BY <1>24, HeadEventType DEF TakeEvent
    <2>2. HandlerType'
      BY <1>24, <2>1 DEF TakeEvent
    <2>3. FillType'
      BY <1>24, <2>1 DEF TakeEvent
    <2>4. ExchangeType'
      BY <1>24, <2>1 DEF TakeEvent
    <2> QED
      BY <1>24, <2>2, <2>3, <2>4 DEF TakeEvent
  <1>25. ASSUME WriteStatus PROVE TypeOK'
    <2>1. /\ EventOrder \in Orders
          /\ Head(events).status \in {"filled", "partial_filled", "cancelled"}
      BY <1>25, HeadEventType DEF WriteStatus, IInv, EventAtHand
    <2>2. StoreType'
      <3>1. CASE UNCHANGED storeVars
        BY <3>1
      <3>2. CASE /\ erec # mapEventStatusToIdem(Head(events).status, erec)
                 /\ UpdateStatus(EventOrder, mapEventStatusToIdem(Head(events).status, erec))
        <4>1. mapEventStatusToIdem(Head(events).status, erec) \in Terminal
          BY <3>2 DEF mapEventStatusToIdem
        <4> QED
          BY <2>1, <3>2, <4>1, UpdateStatusType
      <3> QED
        BY <1>25, <3>1, <3>2 DEF WriteStatus
    <2>3. HandlerType'
      BY <1>25 DEF WriteStatus, IdemStatus
    <2> QED
      BY <1>25, <2>2, <2>3 DEF WriteStatus
  <1>26. ASSUME SendUpdate PROVE TypeOK'
    <2>1. /\ Tail(events) \in Seq(EventType)
          /\ Head(events) \in EventType
      BY <1>26, HeadEventType DEF SendUpdate, IInv, EventAtHand
    <2>2. OrderUpdate(Head(events).order, Head(events).status, Head(events).fills) \in FrameType
      BY <2>1, FramesType DEF EventType
    <2>3. up' \in [Conns -> Seq(FrameType)]
      BY <1>26, <2>2, EmitType DEF SendUpdate
    <2>4. open' \in [Conns -> BOOLEAN]
      BY <1>26 DEF SendUpdate
    <2> QED
      BY <1>26, <2>1, <2>3, <2>4 DEF SendUpdate
  <1>27. ASSUME NEW c \in Conns, Drain(c) PROVE TypeOK'
    BY <1>27 DEF Drain
  <1>28. ASSUME NEW c \in Conns, SendReport(c) PROVE TypeOK'
    <2>1. DeltaReport(drained[c]) \in FrameType
      BY FramesType DEF DeltaReport, FrameType
    <2>2. up' \in [Conns -> Seq(FrameType)]
      BY <1>28, <2>1, EmitType DEF SendReport
    <2>3. FillType'
      BY <1>28 DEF SendReport, requeue
    <2>4. dpc' \in [Conns -> {"none", "idle", "send"}]
      BY <1>28 DEF SendReport
    <2> QED
      BY <1>28, <2>2, <2>3, <2>4 DEF SendReport
  <1>29. ASSUME Crash PROVE TypeOK'
    <2>1. up' \in [Conns -> Seq(FrameType)]
      <3>1. PICK n \in [Conns -> 0..Window] : up' = [c \in Conns |-> Received(c, n[c])]
        BY <1>29 DEF Crash
      <3> QED
        BY <3>1, ReceivedType
    <2>2. StoreType' /\ accepted' \in SUBSET Orders
      <3>1. PICK rows : Purge(rows)
        BY <1>29 DEF Crash
      <3>2. idem' \in [Orders -> IdemStatus] /\ at' \in [Orders -> Nat]
        BY <3>1 DEF Purge, IdemStatus
      <3> QED
        BY <3>1, <3>2 DEF Purge
    <2>3. HandlerType'
      BY <1>29 DEF Crash, Return, IdemStatus
    <2>4. SessionType' /\ FillType'
      BY <1>29 DEF Crash
    <2>5. ExchangeType' /\ CommandType'
      BY <1>29 DEF Crash
    <2>6. AckType'
      BY <1>29, <2>2 DEF Crash
    <2> QED
      BY <2>1, <2>2, <2>3, <2>4, <2>5, <2>6
  <1>30. CASE UNCHANGED vars
    BY <1>30 DEF vars
  <1> QED
    BY <1>1, <1>2, <1>3, <1>4, <1>5, <1>6, <1>7, <1>8, <1>9, <1>10, <1>11, <1>12, <1>13, <1>14,
       <1>15, <1>16, <1>17, <1>18, <1>19, <1>20, <1>21, <1>22, <1>23, <1>24, <1>25, <1>26,
       <1>27, <1>28, <1>29, <1>30
    DEF Next, AgentNext, Session, handleTradeCommand, Exchange, onOrderEvent, sendDeltaReport

\* Updating a status neither adds nor removes a row.
LEMMA WriteStatusKeepsRows ==
    ASSUME TypeOK, IInv, WriteStatus
    PROVE  \A o \in Orders : idem[o] # "none" <=> idem'[o] # "none"
  <1>1. EventOrder \in Orders /\ Head(events).status \in {"filled", "partial_filled", "cancelled"}
    BY HeadEventType DEF WriteStatus, IInv, EventAtHand
  <1>2. CASE UNCHANGED storeVars
    BY <1>2 DEF storeVars
  <1>3. ASSUME NEW s \in Terminal, UpdateStatus(EventOrder, s)
        PROVE  \A o \in Orders : idem[o] # "none" <=> idem'[o] # "none"
    BY <1>1, <1>3 DEF UpdateStatus, storeVars, Terminal, TypeOK, StoreType
  <1>4. \/ UNCHANGED storeVars
        \/ /\ erec # mapEventStatusToIdem(Head(events).status, erec)
           /\ UpdateStatus(EventOrder, mapEventStatusToIdem(Head(events).status, erec))
    BY DEF WriteStatus, storeVars
  <1> QED
    BY <1>2, <1>3, <1>4 DEF mapEventStatusToIdem

\* A command that is read belongs to an intent, as do those behind it.
LEMMA ReadingKeepsIntents ==
    ASSUME TypeOK, IInv, NEW o \in Orders, Reading(o)
    PROVE  /\ until[o] > 0
           /\ \A i \in 1..Len(cmds') : until'[cmds'[i]] > 0
  <1>1. cmds \in Seq(Orders) /\ cmds # <<>> /\ cmds' = Tail(cmds) /\ o = cmds[1] /\ until' = until
    BY DEF Reading, TypeOK, CommandType
  <1>2. Len(cmds) \in Nat /\ Len(cmds) >= 1
    BY <1>1, EmptySeq, LenProperties
  <1>3. \A i \in 1..Len(cmds) : until[cmds[i]] > 0
    BY DEF IInv, RowsFresh
  <1>4. Len(Tail(cmds)) = Len(cmds) - 1 /\ \A i \in 1..Len(Tail(cmds)) : Tail(cmds)[i] = cmds[i+1]
    BY <1>1, HeadTailProperties
  <1> QED
    BY <1>1, <1>2, <1>3, <1>4

\* The handler owns the order it is working on.
LEMMA HandlerStep == TypeOK /\ IInv /\ [Next]_vars => HandlerOwnsOrder'
  <1> SUFFICES ASSUME TypeOK, IInv, [Next]_vars PROVE HandlerOwnsOrder'
    OBVIOUS
  <1> USE DEF commandVars, sessionVars, storeVars, handlerVars, eventVars, reportVars,
              exchangeVars, fillVars, ackVars
  <1> USE DEF TypeOK, CommandType, SessionType, StoreType, HandlerType, ExchangeType,
              AckType, IInv, HandlerOwnsOrder
  <1>1. ASSUME Tick PROVE HandlerOwnsOrder'
    BY <1>1 DEF Tick
  <1>2. ASSUME NEW o \in Orders, SendCommand(o) PROVE HandlerOwnsOrder'
    BY <1>2, SMTT(30) DEF SendCommand, RowsFresh
  <1>3. ASSUME NEW c \in Conns, SaaSReads(c) PROVE HandlerOwnsOrder'
    BY <1>3 DEF SaaSReads
  <1>4. ASSUME NEW c \in Conns, Dial(c) PROVE HandlerOwnsOrder'
    BY <1>4 DEF Dial
  <1>5. ASSUME Ready PROVE HandlerOwnsOrder'
    BY <1>5 DEF Ready
  <1>6. ASSUME Break PROVE HandlerOwnsOrder'
    BY <1>6 DEF Break
  <1>7. ASSUME EndSession PROVE HandlerOwnsOrder'
    BY <1>7 DEF EndSession
  <1>8. ASSUME NEW o \in Orders, LookupFails(o) PROVE HandlerOwnsOrder'
    BY <1>8 DEF LookupFails, Reading
  <1>9. ASSUME NEW o \in Orders, Duplicate(o) PROVE HandlerOwnsOrder'
    BY <1>9 DEF Duplicate, Reading
  <1>10. ASSUME NEW o \in Orders, Refuse(o) PROVE HandlerOwnsOrder'
    BY <1>10 DEF Refuse, Reading
  <1>11. ASSUME NEW o \in Orders, Admit(o) PROVE HandlerOwnsOrder'
    <2>1. until[o] > 0
      BY <1>11, ReadingKeepsIntents DEF Admit
    <2>2. until[o] >= now /\ idem[o] = "none" /\ ~frozen
      BY <1>11, <2>1 DEF Admit, Fresh, Known, Expired
    <2>3. submits[o] = 0
      <3>1. submits[o] \in Nat /\ until[o] \in Nat /\ now \in Nat
        OBVIOUS
      <3>2. submits[o] > 0 => idem[o] # "none" \/ now > until[o]
        BY DEF PlacedIsKnown
      <3> QED
        BY <2>2, <3>1, <3>2
    <2>5. o \notin accepted
      BY <2>2 DEF AcceptedIsKnown
    <2>4. until[o] <= now + TTL
      BY DEF RowsFresh
    <2> QED
      BY <1>11, <2>1, <2>2, <2>3, <2>4, <2>5 DEF Admit, Reading
  <1>12. ASSUME PutPending PROVE HandlerOwnsOrder'
    BY <1>12 DEF PutPending, Return
  <1>13. ASSUME SubmitRefused PROVE HandlerOwnsOrder'
    BY <1>13 DEF SubmitRefused
  <1>14. ASSUME SubmitTaken PROVE HandlerOwnsOrder'
    BY <1>14 DEF SubmitTaken
  <1>15. ASSUME Response PROVE HandlerOwnsOrder'
    BY <1>15 DEF Response
  <1>16. ASSUME SubmitFailed PROVE HandlerOwnsOrder'
    BY <1>16 DEF SubmitFailed, Return, UpdateStatus
  <1>17. ASSUME AckAccepted PROVE HandlerOwnsOrder'
    BY <1>17 DEF AckAccepted
  <1>18. ASSUME InlineFills PROVE HandlerOwnsOrder'
    BY <1>18 DEF InlineFills
  <1>19. ASSUME PutFinal PROVE HandlerOwnsOrder'
    BY <1>19 DEF PutFinal, Return
  <1>20. ASSUME handleKillSwitch PROVE HandlerOwnsOrder'
    BY <1>20 DEF handleKillSwitch
  <1>21. ASSUME NEW o \in Orders, Trade(o) PROVE HandlerOwnsOrder'
    BY <1>21 DEF Trade
  <1>22. ASSUME NEW o \in Orders, Cancel(o) PROVE HandlerOwnsOrder'
    BY <1>22 DEF Cancel
  <1>23. ASSUME StreamReconnects PROVE HandlerOwnsOrder'
    BY <1>23 DEF StreamReconnects
  <1>24. ASSUME TakeEvent PROVE HandlerOwnsOrder'
    BY <1>24 DEF TakeEvent
  <1>25. ASSUME WriteStatus PROVE HandlerOwnsOrder'
    BY <1>25, WriteStatusKeepsRows DEF WriteStatus
  <1>26. ASSUME SendUpdate PROVE HandlerOwnsOrder'
    BY <1>26 DEF SendUpdate
  <1>27. ASSUME NEW c \in Conns, Drain(c) PROVE HandlerOwnsOrder'
    BY <1>27 DEF Drain
  <1>28. ASSUME NEW c \in Conns, SendReport(c) PROVE HandlerOwnsOrder'
    BY <1>28 DEF SendReport
  <1>29. ASSUME Crash PROVE HandlerOwnsOrder'
    BY <1>29 DEF Crash, Return, Purge
  <1>30. CASE UNCHANGED vars
    BY <1>30 DEF vars
  <1> QED
    BY <1>1, <1>2, <1>3, <1>4, <1>5, <1>6, <1>7, <1>8, <1>9, <1>10, <1>11, <1>12, <1>13, <1>14,
       <1>15, <1>16, <1>17, <1>18, <1>19, <1>20, <1>21, <1>22, <1>23, <1>24, <1>25, <1>26,
       <1>27, <1>28, <1>29, <1>30
    DEF Next, AgentNext, Session, handleTradeCommand, Exchange, onOrderEvent, sendDeltaReport

\* A row is never older than the intent it is about.
LEMMA RowsStep == TypeOK /\ IInv /\ [Next]_vars => RowsFresh'
  <1> SUFFICES ASSUME TypeOK, IInv, [Next]_vars PROVE RowsFresh'
    OBVIOUS
  <1> USE DEF commandVars, sessionVars, storeVars, handlerVars, eventVars, reportVars,
              exchangeVars, fillVars, ackVars
  <1> USE DEF TypeOK, CommandType, SessionType, StoreType, HandlerType, ExchangeType,
              AckType, IInv, RowsFresh
  <1>1. ASSUME Tick PROVE RowsFresh'
    BY <1>1 DEF Tick
  <1>2. ASSUME NEW o \in Orders, SendCommand(o) PROVE RowsFresh'
    <2>1. \A p \in Orders : until'[p] >= until[p] /\ until'[p] <= now + TTL
      BY <1>2, SMTT(30) DEF SendCommand
    <2>2. until'[o] > 0
      BY <1>2 DEF SendCommand
    <2>3. \A i \in 1..Len(cmds') : cmds'[i] = o \/ (i \in 1..Len(cmds) /\ cmds'[i] = cmds[i])
      BY <1>2, SMTT(30) DEF SendCommand
    <2>4. \A i \in 1..Len(cmds') : until'[cmds'[i]] > 0
      <3>1. \A p \in Orders : until[p] > 0 => until'[p] > 0
        BY <1>2 DEF SendCommand
      <3>2. \A i \in 1..Len(cmds) : cmds[i] \in Orders /\ until[cmds[i]] > 0
        BY ElementOfSeq
      <3> HIDE DEF TypeOK, RowsFresh, IInv
      <3> QED
        BY <2>2, <2>3, <3>1, <3>2
    <2>5. \A p \in Orders : idem[p] # "none" => until'[p] = until[p]
      BY <1>2 DEF SendCommand
    <2> QED
      BY <1>2, <2>1, <2>4, <2>5 DEF SendCommand
  <1>3. ASSUME NEW c \in Conns, SaaSReads(c) PROVE RowsFresh'
    BY <1>3 DEF SaaSReads
  <1>4. ASSUME NEW c \in Conns, Dial(c) PROVE RowsFresh'
    BY <1>4 DEF Dial
  <1>5. ASSUME Ready PROVE RowsFresh'
    BY <1>5 DEF Ready
  <1>6. ASSUME Break PROVE RowsFresh'
    BY <1>6 DEF Break
  <1>7. ASSUME EndSession PROVE RowsFresh'
    BY <1>7 DEF EndSession
  <1>8. ASSUME NEW o \in Orders, LookupFails(o) PROVE RowsFresh'
    <2>1. \A i \in 1..Len(cmds') : until'[cmds'[i]] > 0
      BY <1>8, ReadingKeepsIntents DEF LookupFails
    <2> QED
      BY <1>8, <2>1 DEF LookupFails, Reading
  <1>9. ASSUME NEW o \in Orders, Duplicate(o) PROVE RowsFresh'
    <2>1. \A i \in 1..Len(cmds') : until'[cmds'[i]] > 0
      BY <1>9, ReadingKeepsIntents DEF Duplicate
    <2> QED
      BY <1>9, <2>1 DEF Duplicate, Reading
  <1>10. ASSUME NEW o \in Orders, Refuse(o) PROVE RowsFresh'
    <2>1. \A i \in 1..Len(cmds') : until'[cmds'[i]] > 0
      BY <1>10, ReadingKeepsIntents DEF Refuse
    <2> QED
      BY <1>10, <2>1 DEF Refuse, Reading
  <1>11. ASSUME NEW o \in Orders, Admit(o) PROVE RowsFresh'
    <2>1. \A i \in 1..Len(cmds') : until'[cmds'[i]] > 0
      BY <1>11, ReadingKeepsIntents DEF Admit
    <2> QED
      BY <1>11, <2>1 DEF Admit, Reading
  <1>12. ASSUME PutPending PROVE RowsFresh'
    BY <1>12 DEF PutPending, Return, HandlerOwnsOrder
  <1>13. ASSUME SubmitRefused PROVE RowsFresh'
    BY <1>13 DEF SubmitRefused
  <1>14. ASSUME SubmitTaken PROVE RowsFresh'
    BY <1>14 DEF SubmitTaken
  <1>15. ASSUME Response PROVE RowsFresh'
    BY <1>15 DEF Response
  <1>16. ASSUME SubmitFailed PROVE RowsFresh'
    BY <1>16 DEF SubmitFailed, Return, UpdateStatus, HandlerOwnsOrder
  <1>17. ASSUME AckAccepted PROVE RowsFresh'
    BY <1>17 DEF AckAccepted
  <1>18. ASSUME InlineFills PROVE RowsFresh'
    BY <1>18 DEF InlineFills
  <1>19. ASSUME PutFinal PROVE RowsFresh'
    BY <1>19 DEF PutFinal, Return, HandlerOwnsOrder
  <1>20. ASSUME handleKillSwitch PROVE RowsFresh'
    BY <1>20 DEF handleKillSwitch
  <1>21. ASSUME NEW o \in Orders, Trade(o) PROVE RowsFresh'
    BY <1>21 DEF Trade
  <1>22. ASSUME NEW o \in Orders, Cancel(o) PROVE RowsFresh'
    BY <1>22 DEF Cancel
  <1>23. ASSUME StreamReconnects PROVE RowsFresh'
    BY <1>23 DEF StreamReconnects
  <1>24. ASSUME TakeEvent PROVE RowsFresh'
    BY <1>24 DEF TakeEvent
  <1>25. ASSUME WriteStatus PROVE RowsFresh'
    BY <1>25 DEF WriteStatus, UpdateStatus, mapEventStatusToIdem
  <1>26. ASSUME SendUpdate PROVE RowsFresh'
    BY <1>26 DEF SendUpdate
  <1>27. ASSUME NEW c \in Conns, Drain(c) PROVE RowsFresh'
    BY <1>27 DEF Drain
  <1>28. ASSUME NEW c \in Conns, SendReport(c) PROVE RowsFresh'
    BY <1>28 DEF SendReport
  <1>29. ASSUME Crash PROVE RowsFresh'
    BY <1>29 DEF Crash, Return, Purge
  <1>30. CASE UNCHANGED vars
    BY <1>30 DEF vars
  <1> QED
    BY <1>1, <1>2, <1>3, <1>4, <1>5, <1>6, <1>7, <1>8, <1>9, <1>10, <1>11, <1>12, <1>13, <1>14,
       <1>15, <1>16, <1>17, <1>18, <1>19, <1>20, <1>21, <1>22, <1>23, <1>24, <1>25, <1>26,
       <1>27, <1>28, <1>29, <1>30
    DEF Next, AgentNext, Session, handleTradeCommand, Exchange, onOrderEvent, sendDeltaReport

\* A placed order stays known until it is past its deadline.
LEMMA PlacedStep == TypeOK /\ IInv /\ [Next]_vars => PlacedIsKnown'
  <1> SUFFICES ASSUME TypeOK, IInv, [Next]_vars PROVE PlacedIsKnown'
    OBVIOUS
  <1> USE DEF commandVars, sessionVars, storeVars, handlerVars, eventVars, reportVars,
              exchangeVars, fillVars, ackVars
  <1> USE DEF TypeOK, CommandType, SessionType, StoreType, HandlerType, ExchangeType,
              AckType, IInv, PlacedIsKnown
  <1>1. ASSUME Tick PROVE PlacedIsKnown'
    BY <1>1 DEF Tick
  <1>2. ASSUME NEW o \in Orders, SendCommand(o) PROVE PlacedIsKnown'
    BY <1>2 DEF SendCommand, RowsFresh
  <1>3. ASSUME NEW c \in Conns, SaaSReads(c) PROVE PlacedIsKnown'
    BY <1>3 DEF SaaSReads
  <1>4. ASSUME NEW c \in Conns, Dial(c) PROVE PlacedIsKnown'
    BY <1>4 DEF Dial
  <1>5. ASSUME Ready PROVE PlacedIsKnown'
    BY <1>5 DEF Ready
  <1>6. ASSUME Break PROVE PlacedIsKnown'
    BY <1>6 DEF Break
  <1>7. ASSUME EndSession PROVE PlacedIsKnown'
    BY <1>7 DEF EndSession
  <1>8. ASSUME NEW o \in Orders, LookupFails(o) PROVE PlacedIsKnown'
    BY <1>8 DEF LookupFails, Reading
  <1>9. ASSUME NEW o \in Orders, Duplicate(o) PROVE PlacedIsKnown'
    BY <1>9 DEF Duplicate, Reading
  <1>10. ASSUME NEW o \in Orders, Refuse(o) PROVE PlacedIsKnown'
    BY <1>10 DEF Refuse, Reading
  <1>11. ASSUME NEW o \in Orders, Admit(o) PROVE PlacedIsKnown'
    BY <1>11 DEF Admit, Reading
  <1>12. ASSUME PutPending PROVE PlacedIsKnown'
    BY <1>12 DEF PutPending, Return
  <1>13. ASSUME SubmitRefused PROVE PlacedIsKnown'
    BY <1>13 DEF SubmitRefused
  <1>14. ASSUME SubmitTaken PROVE PlacedIsKnown'
    BY <1>14 DEF SubmitTaken, HandlerOwnsOrder
  <1>15. ASSUME Response PROVE PlacedIsKnown'
    BY <1>15 DEF Response
  <1>16. ASSUME SubmitFailed PROVE PlacedIsKnown'
    BY <1>16 DEF SubmitFailed, Return, UpdateStatus
  <1>17. ASSUME AckAccepted PROVE PlacedIsKnown'
    BY <1>17 DEF AckAccepted
  <1>18. ASSUME InlineFills PROVE PlacedIsKnown'
    BY <1>18 DEF InlineFills
  <1>19. ASSUME PutFinal PROVE PlacedIsKnown'
    BY <1>19 DEF PutFinal, Return
  <1>20. ASSUME handleKillSwitch PROVE PlacedIsKnown'
    BY <1>20 DEF handleKillSwitch
  <1>21. ASSUME NEW o \in Orders, Trade(o) PROVE PlacedIsKnown'
    BY <1>21 DEF Trade
  <1>22. ASSUME NEW o \in Orders, Cancel(o) PROVE PlacedIsKnown'
    BY <1>22 DEF Cancel
  <1>23. ASSUME StreamReconnects PROVE PlacedIsKnown'
    BY <1>23 DEF StreamReconnects
  <1>24. ASSUME TakeEvent PROVE PlacedIsKnown'
    BY <1>24 DEF TakeEvent
  <1>25. ASSUME WriteStatus PROVE PlacedIsKnown'
    BY <1>25, WriteStatusKeepsRows DEF WriteStatus
  <1>26. ASSUME SendUpdate PROVE PlacedIsKnown'
    BY <1>26 DEF SendUpdate
  <1>27. ASSUME NEW c \in Conns, Drain(c) PROVE PlacedIsKnown'
    BY <1>27 DEF Drain
  <1>28. ASSUME NEW c \in Conns, SendReport(c) PROVE PlacedIsKnown'
    BY <1>28 DEF SendReport
  <1>29. ASSUME Crash PROVE PlacedIsKnown'
    BY <1>29, SMTT(30) DEF Crash, Return, Purge, Stale, RowsFresh
  <1>30. CASE UNCHANGED vars
    BY <1>30 DEF vars
  <1> QED
    BY <1>1, <1>2, <1>3, <1>4, <1>5, <1>6, <1>7, <1>8, <1>9, <1>10, <1>11, <1>12, <1>13, <1>14,
       <1>15, <1>16, <1>17, <1>18, <1>19, <1>20, <1>21, <1>22, <1>23, <1>24, <1>25, <1>26,
       <1>27, <1>28, <1>29, <1>30
    DEF Next, AgentNext, Session, handleTradeCommand, Exchange, onOrderEvent, sendDeltaReport

\* An accepted order stays known until it is purged.
LEMMA AcceptedStep == TypeOK /\ IInv /\ [Next]_vars => AcceptedIsKnown'
  <1> SUFFICES ASSUME TypeOK, IInv, [Next]_vars PROVE AcceptedIsKnown'
    OBVIOUS
  <1> USE DEF commandVars, sessionVars, storeVars, handlerVars, eventVars, reportVars,
              exchangeVars, fillVars, ackVars
  <1> USE DEF TypeOK, CommandType, SessionType, StoreType, HandlerType, ExchangeType,
              AckType, IInv, AcceptedIsKnown
  <1>1. ASSUME Tick PROVE AcceptedIsKnown'
    BY <1>1 DEF Tick
  <1>2. ASSUME NEW o \in Orders, SendCommand(o) PROVE AcceptedIsKnown'
    BY <1>2 DEF SendCommand
  <1>3. ASSUME NEW c \in Conns, SaaSReads(c) PROVE AcceptedIsKnown'
    BY <1>3 DEF SaaSReads
  <1>4. ASSUME NEW c \in Conns, Dial(c) PROVE AcceptedIsKnown'
    BY <1>4 DEF Dial
  <1>5. ASSUME Ready PROVE AcceptedIsKnown'
    BY <1>5 DEF Ready
  <1>6. ASSUME Break PROVE AcceptedIsKnown'
    BY <1>6 DEF Break
  <1>7. ASSUME EndSession PROVE AcceptedIsKnown'
    BY <1>7 DEF EndSession
  <1>8. ASSUME NEW o \in Orders, LookupFails(o) PROVE AcceptedIsKnown'
    BY <1>8 DEF LookupFails, Reading
  <1>9. ASSUME NEW o \in Orders, Duplicate(o) PROVE AcceptedIsKnown'
    BY <1>9 DEF Duplicate, Reading
  <1>10. ASSUME NEW o \in Orders, Refuse(o) PROVE AcceptedIsKnown'
    BY <1>10 DEF Refuse, Reading
  <1>11. ASSUME NEW o \in Orders, Admit(o) PROVE AcceptedIsKnown'
    BY <1>11 DEF Admit, Reading
  <1>12. ASSUME PutPending PROVE AcceptedIsKnown'
    BY <1>12 DEF PutPending, Return
  <1>13. ASSUME SubmitRefused PROVE AcceptedIsKnown'
    BY <1>13 DEF SubmitRefused
  <1>14. ASSUME SubmitTaken PROVE AcceptedIsKnown'
    BY <1>14 DEF SubmitTaken
  <1>15. ASSUME Response PROVE AcceptedIsKnown'
    BY <1>15 DEF Response
  <1>16. ASSUME SubmitFailed PROVE AcceptedIsKnown'
    BY <1>16 DEF SubmitFailed, Return, UpdateStatus
  <1>17. ASSUME AckAccepted PROVE AcceptedIsKnown'
    BY <1>17 DEF AckAccepted, HandlerOwnsOrder
  <1>18. ASSUME InlineFills PROVE AcceptedIsKnown'
    BY <1>18 DEF InlineFills
  <1>19. ASSUME PutFinal PROVE AcceptedIsKnown'
    BY <1>19 DEF PutFinal, Return
  <1>20. ASSUME handleKillSwitch PROVE AcceptedIsKnown'
    BY <1>20 DEF handleKillSwitch
  <1>21. ASSUME NEW o \in Orders, Trade(o) PROVE AcceptedIsKnown'
    BY <1>21 DEF Trade
  <1>22. ASSUME NEW o \in Orders, Cancel(o) PROVE AcceptedIsKnown'
    BY <1>22 DEF Cancel
  <1>23. ASSUME StreamReconnects PROVE AcceptedIsKnown'
    BY <1>23 DEF StreamReconnects
  <1>24. ASSUME TakeEvent PROVE AcceptedIsKnown'
    BY <1>24 DEF TakeEvent
  <1>25. ASSUME WriteStatus PROVE AcceptedIsKnown'
    BY <1>25, WriteStatusKeepsRows DEF WriteStatus
  <1>26. ASSUME SendUpdate PROVE AcceptedIsKnown'
    BY <1>26 DEF SendUpdate
  <1>27. ASSUME NEW c \in Conns, Drain(c) PROVE AcceptedIsKnown'
    BY <1>27 DEF Drain
  <1>28. ASSUME NEW c \in Conns, SendReport(c) PROVE AcceptedIsKnown'
    BY <1>28 DEF SendReport
  <1>29. ASSUME Crash PROVE AcceptedIsKnown'
    BY <1>29 DEF Crash, Return, Purge
  <1>30. CASE UNCHANGED vars
    BY <1>30 DEF vars
  <1> QED
    BY <1>1, <1>2, <1>3, <1>4, <1>5, <1>6, <1>7, <1>8, <1>9, <1>10, <1>11, <1>12, <1>13, <1>14,
       <1>15, <1>16, <1>17, <1>18, <1>19, <1>20, <1>21, <1>22, <1>23, <1>24, <1>25, <1>26,
       <1>27, <1>28, <1>29, <1>30
    DEF Next, AgentNext, Session, handleTradeCommand, Exchange, onOrderEvent, sendDeltaReport

\* The exchange trades what was placed, and no more than its quantity.
LEMMA BookStep == TypeOK /\ IInv /\ [Next]_vars => BookFollowsSubmit'
  <1> SUFFICES ASSUME TypeOK, IInv, [Next]_vars PROVE BookFollowsSubmit'
    OBVIOUS
  <1> USE DEF commandVars, sessionVars, storeVars, handlerVars, eventVars, reportVars,
              exchangeVars, fillVars, ackVars
  <1> USE DEF TypeOK, CommandType, SessionType, StoreType, HandlerType, ExchangeType,
              AckType, IInv, BookFollowsSubmit
  <1>1. ASSUME Tick PROVE BookFollowsSubmit'
    BY <1>1 DEF Tick
  <1>2. ASSUME NEW o \in Orders, SendCommand(o) PROVE BookFollowsSubmit'
    BY <1>2 DEF SendCommand
  <1>3. ASSUME NEW c \in Conns, SaaSReads(c) PROVE BookFollowsSubmit'
    BY <1>3 DEF SaaSReads
  <1>4. ASSUME NEW c \in Conns, Dial(c) PROVE BookFollowsSubmit'
    BY <1>4 DEF Dial
  <1>5. ASSUME Ready PROVE BookFollowsSubmit'
    BY <1>5 DEF Ready
  <1>6. ASSUME Break PROVE BookFollowsSubmit'
    BY <1>6 DEF Break
  <1>7. ASSUME EndSession PROVE BookFollowsSubmit'
    BY <1>7 DEF EndSession
  <1>8. ASSUME NEW o \in Orders, LookupFails(o) PROVE BookFollowsSubmit'
    BY <1>8 DEF LookupFails, Reading
  <1>9. ASSUME NEW o \in Orders, Duplicate(o) PROVE BookFollowsSubmit'
    BY <1>9 DEF Duplicate, Reading
  <1>10. ASSUME NEW o \in Orders, Refuse(o) PROVE BookFollowsSubmit'
    BY <1>10 DEF Refuse, Reading
  <1>11. ASSUME NEW o \in Orders, Admit(o) PROVE BookFollowsSubmit'
    BY <1>11 DEF Admit, Reading
  <1>12. ASSUME PutPending PROVE BookFollowsSubmit'
    BY <1>12 DEF PutPending, Return
  <1>13. ASSUME SubmitRefused PROVE BookFollowsSubmit'
    BY <1>13 DEF SubmitRefused
  <1>14. ASSUME SubmitTaken PROVE BookFollowsSubmit'
    BY <1>14 DEF SubmitTaken, HandlerOwnsOrder
  <1>15. ASSUME Response PROVE BookFollowsSubmit'
    BY <1>15 DEF Response
  <1>16. ASSUME SubmitFailed PROVE BookFollowsSubmit'
    BY <1>16 DEF SubmitFailed, Return, UpdateStatus
  <1>17. ASSUME AckAccepted PROVE BookFollowsSubmit'
    BY <1>17 DEF AckAccepted
  <1>18. ASSUME InlineFills PROVE BookFollowsSubmit'
    BY <1>18 DEF InlineFills
  <1>19. ASSUME PutFinal PROVE BookFollowsSubmit'
    BY <1>19 DEF PutFinal, Return
  <1>20. ASSUME handleKillSwitch PROVE BookFollowsSubmit'
    BY <1>20 DEF handleKillSwitch
  <1>21. ASSUME NEW o \in Orders, Trade(o) PROVE BookFollowsSubmit'
    <2>1. submits[o] # 0 /\ traded[o] \in Nat /\ traded[o] < Qty /\ Qty \in Nat
      BY <1>21 DEF Trade
    <2>2. traded'[o] = traded[o] + 1 /\ book'[o] \in {"filled", "open"}
      BY <1>21 DEF Trade
    <2>3. book'[o] = "open" => traded'[o] < Qty
      BY <1>21, <2>1, <2>2 DEF Trade
    <2> QED
      BY <1>21, <2>1, <2>3 DEF Trade
  <1>22. ASSUME NEW o \in Orders, Cancel(o) PROVE BookFollowsSubmit'
    BY <1>22 DEF Cancel
  <1>23. ASSUME StreamReconnects PROVE BookFollowsSubmit'
    BY <1>23 DEF StreamReconnects
  <1>24. ASSUME TakeEvent PROVE BookFollowsSubmit'
    BY <1>24 DEF TakeEvent
  <1>25. ASSUME WriteStatus PROVE BookFollowsSubmit'
    BY <1>25 DEF WriteStatus, UpdateStatus
  <1>26. ASSUME SendUpdate PROVE BookFollowsSubmit'
    BY <1>26 DEF SendUpdate
  <1>27. ASSUME NEW c \in Conns, Drain(c) PROVE BookFollowsSubmit'
    BY <1>27 DEF Drain
  <1>28. ASSUME NEW c \in Conns, SendReport(c) PROVE BookFollowsSubmit'
    BY <1>28 DEF SendReport
  <1>29. ASSUME Crash PROVE BookFollowsSubmit'
    BY <1>29 DEF Crash, Return
  <1>30. CASE UNCHANGED vars
    BY <1>30 DEF vars
  <1> QED
    BY <1>1, <1>2, <1>3, <1>4, <1>5, <1>6, <1>7, <1>8, <1>9, <1>10, <1>11, <1>12, <1>13, <1>14,
       <1>15, <1>16, <1>17, <1>18, <1>19, <1>20, <1>21, <1>22, <1>23, <1>24, <1>25, <1>26,
       <1>27, <1>28, <1>29, <1>30
    DEF Next, AgentNext, Session, handleTradeCommand, Exchange, onOrderEvent, sendDeltaReport

\* The event at hand stays at the head of the stream.
LEMMA EventStep == TypeOK /\ IInv /\ [Next]_vars => EventAtHand'
  <1> SUFFICES ASSUME TypeOK, IInv, [Next]_vars PROVE EventAtHand'
    OBVIOUS
  <1> USE DEF commandVars, sessionVars, storeVars, handlerVars, eventVars, reportVars,
              exchangeVars, fillVars, ackVars
  <1> USE DEF TypeOK, HandlerType, ExchangeType, IInv, EventAtHand
  <1>1. ASSUME Tick PROVE EventAtHand'
    BY <1>1 DEF Tick
  <1>2. ASSUME NEW o \in Orders, SendCommand(o) PROVE EventAtHand'
    BY <1>2 DEF SendCommand
  <1>3. ASSUME NEW c \in Conns, SaaSReads(c) PROVE EventAtHand'
    BY <1>3 DEF SaaSReads
  <1>4. ASSUME NEW c \in Conns, Dial(c) PROVE EventAtHand'
    BY <1>4 DEF Dial
  <1>5. ASSUME Ready PROVE EventAtHand'
    BY <1>5 DEF Ready
  <1>6. ASSUME Break PROVE EventAtHand'
    BY <1>6 DEF Break
  <1>7. ASSUME EndSession PROVE EventAtHand'
    BY <1>7 DEF EndSession
  <1>8. ASSUME NEW o \in Orders, LookupFails(o) PROVE EventAtHand'
    BY <1>8 DEF LookupFails, Reading
  <1>9. ASSUME NEW o \in Orders, Duplicate(o) PROVE EventAtHand'
    BY <1>9 DEF Duplicate, Reading
  <1>10. ASSUME NEW o \in Orders, Refuse(o) PROVE EventAtHand'
    BY <1>10 DEF Refuse, Reading
  <1>11. ASSUME NEW o \in Orders, Admit(o) PROVE EventAtHand'
    BY <1>11 DEF Admit, Reading
  <1>12. ASSUME PutPending PROVE EventAtHand'
    BY <1>12 DEF PutPending, Return
  <1>13. ASSUME SubmitRefused PROVE EventAtHand'
    BY <1>13 DEF SubmitRefused
  <1>14. ASSUME SubmitTaken PROVE EventAtHand'
    BY <1>14 DEF SubmitTaken
  <1>15. ASSUME Response PROVE EventAtHand'
    BY <1>15 DEF Response
  <1>16. ASSUME SubmitFailed PROVE EventAtHand'
    BY <1>16 DEF SubmitFailed, Return, UpdateStatus
  <1>17. ASSUME AckAccepted PROVE EventAtHand'
    BY <1>17 DEF AckAccepted
  <1>18. ASSUME InlineFills PROVE EventAtHand'
    BY <1>18 DEF InlineFills
  <1>19. ASSUME PutFinal PROVE EventAtHand'
    BY <1>19 DEF PutFinal, Return
  <1>20. ASSUME handleKillSwitch PROVE EventAtHand'
    BY <1>20 DEF handleKillSwitch
  <1>21. ASSUME NEW o \in Orders, Trade(o) PROVE EventAtHand'
    BY <1>21, NewEvent
  <1>22. ASSUME NEW o \in Orders, Cancel(o) PROVE EventAtHand'
    BY <1>22, NewEvent
  <1>23. ASSUME StreamReconnects PROVE EventAtHand'
    BY <1>23 DEF StreamReconnects
  <1>24. ASSUME TakeEvent PROVE EventAtHand'
    BY <1>24 DEF TakeEvent
  <1>25. ASSUME WriteStatus PROVE EventAtHand'
    BY <1>25 DEF WriteStatus, UpdateStatus
  <1>26. ASSUME SendUpdate PROVE EventAtHand'
    BY <1>26 DEF SendUpdate
  <1>27. ASSUME NEW c \in Conns, Drain(c) PROVE EventAtHand'
    BY <1>27 DEF Drain
  <1>28. ASSUME NEW c \in Conns, SendReport(c) PROVE EventAtHand'
    BY <1>28 DEF SendReport
  <1>29. ASSUME Crash PROVE EventAtHand'
    BY <1>29 DEF Crash, Return
  <1>30. CASE UNCHANGED vars
    BY <1>30 DEF vars
  <1> QED
    BY <1>1, <1>2, <1>3, <1>4, <1>5, <1>6, <1>7, <1>8, <1>9, <1>10, <1>11, <1>12, <1>13, <1>14,
       <1>15, <1>16, <1>17, <1>18, <1>19, <1>20, <1>21, <1>22, <1>23, <1>24, <1>25, <1>26,
       <1>27, <1>28, <1>29, <1>30
    DEF Next, AgentNext, Session, handleTradeCommand, Exchange, onOrderEvent, sendDeltaReport

\* A ticker that is not sending holds no fills.
LEMMA DrainStep == TypeOK /\ IInv /\ [Next]_vars => OnlySendersHoldFills'
  <1> SUFFICES ASSUME TypeOK, IInv, [Next]_vars PROVE OnlySendersHoldFills'
    OBVIOUS
  <1> USE DEF commandVars, sessionVars, storeVars, handlerVars, eventVars, reportVars,
              exchangeVars, fillVars, ackVars
  <1> USE DEF TypeOK, SessionType, FillType, IInv, OnlySendersHoldFills
  <1>1. ASSUME Tick PROVE OnlySendersHoldFills'
    BY <1>1 DEF Tick
  <1>2. ASSUME NEW o \in Orders, SendCommand(o) PROVE OnlySendersHoldFills'
    BY <1>2 DEF SendCommand
  <1>3. ASSUME NEW c \in Conns, SaaSReads(c) PROVE OnlySendersHoldFills'
    BY <1>3 DEF SaaSReads
  <1>4. ASSUME NEW c \in Conns, Dial(c) PROVE OnlySendersHoldFills'
    BY <1>4 DEF Dial
  <1>5. ASSUME Ready PROVE OnlySendersHoldFills'
    BY <1>5 DEF Ready
  <1>6. ASSUME Break PROVE OnlySendersHoldFills'
    BY <1>6 DEF Break
  <1>7. ASSUME EndSession PROVE OnlySendersHoldFills'
    BY <1>7 DEF EndSession, HandlerOwnsOrder
  <1>8. ASSUME NEW o \in Orders, LookupFails(o) PROVE OnlySendersHoldFills'
    BY <1>8 DEF LookupFails, Reading
  <1>9. ASSUME NEW o \in Orders, Duplicate(o) PROVE OnlySendersHoldFills'
    BY <1>9 DEF Duplicate, Reading
  <1>10. ASSUME NEW o \in Orders, Refuse(o) PROVE OnlySendersHoldFills'
    BY <1>10 DEF Refuse, Reading
  <1>11. ASSUME NEW o \in Orders, Admit(o) PROVE OnlySendersHoldFills'
    BY <1>11 DEF Admit, Reading
  <1>12. ASSUME PutPending PROVE OnlySendersHoldFills'
    BY <1>12 DEF PutPending, Return
  <1>13. ASSUME SubmitRefused PROVE OnlySendersHoldFills'
    BY <1>13 DEF SubmitRefused
  <1>14. ASSUME SubmitTaken PROVE OnlySendersHoldFills'
    BY <1>14 DEF SubmitTaken
  <1>15. ASSUME Response PROVE OnlySendersHoldFills'
    BY <1>15 DEF Response
  <1>16. ASSUME SubmitFailed PROVE OnlySendersHoldFills'
    BY <1>16 DEF SubmitFailed, Return, UpdateStatus
  <1>17. ASSUME AckAccepted PROVE OnlySendersHoldFills'
    BY <1>17 DEF AckAccepted
  <1>18. ASSUME InlineFills PROVE OnlySendersHoldFills'
    BY <1>18 DEF InlineFills
  <1>19. ASSUME PutFinal PROVE OnlySendersHoldFills'
    BY <1>19 DEF PutFinal, Return
  <1>20. ASSUME handleKillSwitch PROVE OnlySendersHoldFills'
    BY <1>20 DEF handleKillSwitch
  <1>21. ASSUME NEW o \in Orders, Trade(o) PROVE OnlySendersHoldFills'
    BY <1>21 DEF Trade
  <1>22. ASSUME NEW o \in Orders, Cancel(o) PROVE OnlySendersHoldFills'
    BY <1>22 DEF Cancel
  <1>23. ASSUME StreamReconnects PROVE OnlySendersHoldFills'
    BY <1>23 DEF StreamReconnects
  <1>24. ASSUME TakeEvent PROVE OnlySendersHoldFills'
    BY <1>24 DEF TakeEvent
  <1>25. ASSUME WriteStatus PROVE OnlySendersHoldFills'
    BY <1>25 DEF WriteStatus, UpdateStatus
  <1>26. ASSUME SendUpdate PROVE OnlySendersHoldFills'
    BY <1>26 DEF SendUpdate
  <1>27. ASSUME NEW c \in Conns, Drain(c) PROVE OnlySendersHoldFills'
    BY <1>27 DEF Drain
  <1>28. ASSUME NEW c \in Conns, SendReport(c) PROVE OnlySendersHoldFills'
    BY <1>28 DEF SendReport, HandlerOwnsOrder
  <1>29. ASSUME Crash PROVE OnlySendersHoldFills'
    BY <1>29 DEF Crash, Return
  <1>30. CASE UNCHANGED vars
    BY <1>30 DEF vars
  <1> QED
    BY <1>1, <1>2, <1>3, <1>4, <1>5, <1>6, <1>7, <1>8, <1>9, <1>10, <1>11, <1>12, <1>13, <1>14,
       <1>15, <1>16, <1>17, <1>18, <1>19, <1>20, <1>21, <1>22, <1>23, <1>24, <1>25, <1>26,
       <1>27, <1>28, <1>29, <1>30
    DEF Next, AgentNext, Session, handleTradeCommand, Exchange, onOrderEvent, sendDeltaReport

-----------------------------------------------------------------------------
\* The initial state satisfies the invariant.
LEMMA InitInv == Init => IInv
  <1> SUFFICES ASSUME Init PROVE IInv
    OBVIOUS
  <1>1. HandlerOwnsOrder /\ EventAtHand /\ AcceptedIsKnown
    BY DEF Init, HandlerOwnsOrder, EventAtHand, AcceptedIsKnown
  <1>2. RowsFresh
    BY DEF Init, RowsFresh
  <1>3. PlacedIsKnown /\ BookFollowsSubmit
    BY DEF Init, PlacedIsKnown, BookFollowsSubmit
  <1>4. OnlySendersHoldFills
    BY DEF Init, OnlySendersHoldFills
  <1> QED
    BY <1>1, <1>2, <1>3, <1>4 DEF IInv

\* Typing and the inductive invariant hold in every reachable state; neither is
\* inductive alone.
THEOREM Inductive == Spec => [](TypeOK /\ IInv)
  <1>1. Init => TypeOK /\ IInv
    BY InitType, InitInv
  <1>2. TypeOK /\ IInv /\ [Next]_vars => (TypeOK /\ IInv)'
    BY TypeStep, HandlerStep, RowsStep, PlacedStep, AcceptedStep, BookStep, EventStep,
       DrainStep DEF IInv
  <1> QED
    BY <1>1, <1>2, PTL DEF Spec

\* The state of the agent stays well typed.
THEOREM TypeCorrect == Spec => []TypeOK
  BY Inductive, PTL

\* handleTradeCommand places every client_order_id at most once: the row is written
\* before Submit, and it is only purged when the expiry check refuses the command.
THEOREM SubmittedAtMostOnce == Spec => []AtMostOnce
  <1>1. TypeOK /\ IInv => AtMostOnce
    <2> SUFFICES ASSUME TypeOK, IInv, NEW o \in Orders PROVE submits[o] <= 1
      BY DEF AtMostOnce
    <2>1. submits[o] \in Nat
      BY DEF TypeOK, ExchangeType
    <2> QED
      BY <2>1 DEF IInv, PlacedIsKnown
  <1> QED
    BY <1>1, Inductive, PTL

\* No order is placed while the kill switch holds the agent.
THEOREM KillSwitchStopsSubmits == Spec => FrozenNeverSubmits
  <1>1. TypeOK /\ IInv /\ [Next]_vars => [frozen => submits' = submits]_vars
    <2> SUFFICES ASSUME IInv, Next, frozen PROVE submits' = submits
      BY DEF vars
    <2> USE DEF exchangeVars
    <2>1. ~SubmitTaken
      BY DEF SubmitTaken, IInv, HandlerOwnsOrder
    <2>2. CASE Session \/ onOrderEvent \/ Crash \/ handleKillSwitch
      BY <2>2 DEF Session, Ready, Break, EndSession, Dial, onOrderEvent, TakeEvent, WriteStatus,
                  SendUpdate, Crash, handleKillSwitch
    <2>3. CASE handleTradeCommand
      BY <2>1, <2>3 DEF handleTradeCommand, LookupFails, Duplicate, Refuse, Admit, Reading,
                  PutPending, SubmitRefused, Response, SubmitFailed, AckAccepted, InlineFills,
                  PutFinal
    <2>4. CASE Exchange \/ sendDeltaReport
      BY <2>4 DEF Exchange, StreamReconnects, Trade, Cancel, sendDeltaReport, Drain, SendReport
    <2>5. CASE Tick \/ (\E o \in Orders : SendCommand(o)) \/ (\E c \in Conns : SaaSReads(c))
      BY <2>5 DEF Tick, SendCommand, SaaSReads
    <2> QED
      BY <2>2, <2>3, <2>4, <2>5 DEF Next, AgentNext
  <1> QED
    BY <1>1, Inductive, PTL DEF Spec, FrozenNeverSubmits

\* A repeated command for an accepted order is never refused.
THEOREM AcceptedStaysAccepted == Spec => AcceptedNeverRefused
  <1>1. TypeOK /\ IInv /\ [Next]_vars =>
            [\A o \in accepted : o \in refused' => o \in refused]_vars
    <2> SUFFICES ASSUME IInv, Next, NEW o \in accepted, o \in refused' PROVE o \in refused
      BY DEF vars
    <2> USE DEF ackVars
    <2>1. ASSUME NEW p \in Orders, Refuse(p) PROVE o \in refused
      BY <2>1 DEF Refuse, Known, IInv, AcceptedIsKnown
    <2>2. CASE SubmitFailed
      BY <2>2 DEF SubmitFailed, IInv, HandlerOwnsOrder
    <2>3. CASE Session \/ onOrderEvent \/ Crash \/ handleKillSwitch
      BY <2>3 DEF Session, Ready, Break, EndSession, Dial, onOrderEvent, TakeEvent, WriteStatus,
                  SendUpdate, Crash, handleKillSwitch
    <2>4. CASE handleTradeCommand
      BY <2>1, <2>2, <2>4 DEF handleTradeCommand, LookupFails, Duplicate, Admit,
                  PutPending, SubmitRefused, SubmitTaken, Response, AckAccepted, InlineFills,
                  PutFinal
    <2>5. CASE Exchange \/ sendDeltaReport
      BY <2>5 DEF Exchange, StreamReconnects, Trade, Cancel, sendDeltaReport, Drain, SendReport
    <2>6. CASE Tick \/ (\E p \in Orders : SendCommand(p)) \/ (\E c \in Conns : SaaSReads(c))
      BY <2>6 DEF Tick, SendCommand, SaaSReads
    <2> QED
      BY <2>3, <2>4, <2>5, <2>6 DEF Next, AgentNext
  <1> QED
    BY <1>1, Inductive, PTL DEF Spec, AcceptedNeverRefused

\* The delta buffer, the reports being sent and the written ones hold every fill
\* the process has learnt of.
THEOREM NoFillDropped == Spec => []FillsRetained
  <1>1. Init => FillsRetained
    BY DEF Init, FillsRetained
  <1>2. TypeOK /\ IInv /\ FillsRetained /\ [Next]_vars => FillsRetained'
    <2> SUFFICES ASSUME TypeOK, IInv, FillsRetained, [Next]_vars PROVE FillsRetained'
      OBVIOUS
    <2> USE DEF FillsRetained, fillVars, reportVars
    <2>1. CASE UNCHANGED <<fillVars, drained>>
      BY <2>1
    <2>2. CASE InlineFills
      BY <2>2 DEF InlineFills
    <2>3. CASE TakeEvent
      BY <2>3 DEF TakeEvent
    <2>4. ASSUME NEW c \in Conns, Drain(c) PROVE FillsRetained'
      <3>1. drained' = [drained EXCEPT ![c] = delta] /\ drained \in [Conns -> SUBSET Fill]
        BY <2>4 DEF Drain, TypeOK, FillType
      <3>2. ASSUME NEW f \in seen
                    PROVE  f \in delta' \cup written' \cup UNION {drained'[d] : d \in Conns}
        <4>1. CASE f \in delta
          BY <2>4, <3>1, <4>1
        <4>2. CASE f \in written
          BY <2>4, <4>2 DEF Drain
        <4>3. ASSUME NEW d \in Conns, f \in drained[d], d # c
              PROVE  f \in UNION {drained'[e] : e \in Conns}
          BY <3>1, <4>3
        <4>4. CASE f \in drained[c]
          BY <2>4, <4>4 DEF Drain, IInv, OnlySendersHoldFills
        <4> QED
          BY <4>1, <4>2, <4>3, <4>4
      <3> QED
        BY <2>4, <3>2 DEF Drain
    <2>5. ASSUME NEW c \in Conns, SendReport(c) PROVE FillsRetained'
      <3>1. drained' = [drained EXCEPT ![c] = {}] /\ drained \in [Conns -> SUBSET Fill]
        BY <2>5 DEF SendReport, TypeOK, FillType
      <3>2. delta \cup drained[c] \cup written \subseteq delta' \cup written'
        BY <2>5 DEF SendReport, requeue
      <3>3. ASSUME NEW d \in Conns, d # c PROVE drained'[d] = drained[d]
        BY <3>1, <3>3
      <3> QED
        BY <2>5, <3>2, <3>3 DEF SendReport
    <2>6. CASE Crash
      BY <2>6 DEF Crash
    <2>7. CASE Session \/ WriteStatus \/ SendUpdate \/ handleKillSwitch
      <3>1. UNCHANGED <<fillVars, drained>>
        BY <2>7 DEF Session, Ready, Break, EndSession, Dial, WriteStatus, SendUpdate,
                    handleKillSwitch
      <3> QED
        BY <3>1
    <2>8. CASE handleTradeCommand /\ ~InlineFills
      <3>1. UNCHANGED <<fillVars, drained>>
        BY <2>8 DEF handleTradeCommand, LookupFails, Duplicate, Refuse, Admit, Reading, PutPending,
                    SubmitRefused, SubmitTaken, Response, SubmitFailed, AckAccepted, PutFinal
      <3> QED
        BY <3>1
    <2>9. CASE Exchange \/ Tick \/ (\E o \in Orders : SendCommand(o))
               \/ (\E c \in Conns : SaaSReads(c))
      <3>1. UNCHANGED <<fillVars, drained>>
        BY <2>9 DEF Exchange, StreamReconnects, Trade, Cancel, Tick, SendCommand, SaaSReads
      <3> QED
        BY <3>1
    <2>10. CASE UNCHANGED vars
      BY <2>10 DEF vars
    <2> QED
      BY <2>2, <2>3, <2>4, <2>5, <2>6, <2>7, <2>8, <2>9, <2>10
      DEF Next, AgentNext, onOrderEvent, sendDeltaReport
  <1> QED
    BY <1>1, <1>2, Inductive, PTL DEF Spec

=============================================================================
