-------------------------- MODULE KillSwitchProofs --------------------------
(***************************************************************************)
(* TLAPS proofs about KillSwitch: typing, the registry, the suppression    *)
(* sentinel, and the reach of the latch, for any number of connections and *)
(* operators, any debounce and any outbox capacity.                        *)
(***************************************************************************)
EXTENDS KillSwitch, TLAPS

\* The channel operations keep the queues well typed and within capacity.
LEMMA QueueType ==
    ASSUME TypeOK, NEW c \in Conns, NEW f \in Frames, Queue(c, f)
    PROVE  /\ down' \in [Conns -> Seq(Frames)]
           /\ \A d \in Conns : Len(down'[d]) <= OutboxCap
           /\ closed' \in [Conns -> BOOLEAN]
  BY CapAssumption DEF TypeOK, Queue, Accepts

\* A refused frame closes the connection and leaves every queue as it is.
LEMMA RefuseType ==
    ASSUME TypeOK, NEW c \in Conns, Refuse(c)
    PROVE  /\ down' \in [Conns -> Seq(Frames)]
           /\ \A d \in Conns : Len(down'[d]) <= OutboxCap
           /\ closed' \in [Conns -> BOOLEAN]
  BY DEF TypeOK, Refuse

\* Reading a frame leaves the queues well typed and within capacity.
LEMMA ReadsType ==
    ASSUME TypeOK, NEW t, Reads(t)
    PROVE  /\ down' \in [Conns -> Seq(Frames)]
           /\ \A d \in Conns : Len(down'[d]) <= OutboxCap
           /\ session \in Conns
           /\ Head(down[session]) \in Frames
           /\ Head(down[session]).frozen \in BOOLEAN
  <1>1. session \in Conns
    BY DEF TypeOK, Reads
  <1>2. down[session] \in Seq(Frames) /\ down[session] # <<>>
    BY <1>1 DEF TypeOK, Reads
  <1>3. Head(down[session]) \in Frames /\ Tail(down[session]) \in Seq(Frames)
        /\ Len(Tail(down[session])) <= Len(down[session])
    BY <1>2
  <1>4. Len(Tail(down[session])) <= OutboxCap
    BY <1>1, <1>2, <1>3, CapAssumption DEF TypeOK
  <1> QED
    BY <1>1, <1>3, <1>4 DEF TypeOK, Reads, Frames

\* Connections and operators are the processes that push.
LEMMA ProcsUnion == Conns \subseteq Procs /\ Operators \subseteq Procs
  BY DEF Procs

\* Moving one process to a state other than "send" keeps pc and target typed.
LEMMA PcType ==
    ASSUME TypeOK, NEW p \in Procs, NEW s \in PcStates \ {"send"},
           pc' = [pc EXCEPT ![p] = s], UNCHANGED target
    PROVE  /\ pc' \in [Procs -> PcStates]
           /\ \A q \in Procs : pc'[q] = "send" => target'[q] # NoConn
  BY DEF TypeOK

\* Writing an audit row keeps the latch and its history well typed.
LEMMA WriteRowType ==
    ASSUME TypeOK, NEW p \in Procs, NEW v \in BOOLEAN, WriteRow(p, v)
    PROVE  /\ latched' \in BOOLEAN /\ overlapped' \in BOOLEAN /\ late' \subseteq Conns
           /\ want' \in [Procs -> BOOLEAN] /\ rows' \in Nat
  <1>1. overlapped' \in BOOLEAN
    BY DEF WriteRow
  <1>2. late' \subseteq Conns
    BY DEF WriteRow
  <1>3. latched' \in BOOLEAN /\ want' \in [Procs -> BOOLEAN] /\ rows' \in Nat
    BY DEF TypeOK, WriteRow
  <1> QED
    BY <1>1, <1>2, <1>3

\* A report's reconciliation keeps the streak at or above the sentinel.
LEMMA ReconcileType ==
    ASSUME TypeOK, NEW c \in Conns, Reconcile(c), UNCHANGED target
    PROVE  /\ streak' \in Int /\ streak' >= killedSentinel
           /\ pc' \in [Procs -> PcStates]
           /\ \A q \in Procs : pc'[q] = "send" => target'[q] # NoConn
  <1>1. CASE UNCHANGED <<streak, pc>>
    BY <1>1 DEF TypeOK
  <1>2. ASSUME NEW above \in BOOLEAN, NEW next, next = nextDriftStreak(above, streak),
               streak' = next,
               pc' = [pc EXCEPT ![c] = IF next >= Debounce THEN "latch" ELSE "idle"]
        PROVE  /\ streak' \in Int /\ streak' >= killedSentinel
               /\ pc' \in [Procs -> PcStates]
               /\ \A q \in Procs : pc'[q] = "send" => target'[q] # NoConn
    <2>1. streak' \in Int /\ streak' >= killedSentinel
      BY <1>2 DEF TypeOK, nextDriftStreak, killedSentinel
    <2> DEFINE s == IF next >= Debounce THEN "latch" ELSE "idle"
    <2>2. s \in PcStates \ {"send"}
      BY DEF PcStates
    <2> QED
      BY <1>2, <2>1, <2>2, PcType, ProcsUnion
  <1> QED
    BY <1>1, <1>2 DEF Reconcile

\* Every step of the kill switch keeps its state well typed.
LEMMA TypeStep == TypeOK /\ [Next]_vars => TypeOK'
  <1> SUFFICES ASSUME TypeOK, [Next]_vars PROVE TypeOK'
    OBVIOUS
  <1> USE DEF latchVars, hubVars, procVars, agentVars
  <1>0. Conns \subseteq Procs /\ Operators \subseteq Procs
    BY ProcsUnion
  <1>1. ASSUME NEW c \in Conns, Authenticate(c) PROVE TypeOK'
    BY <1>1 DEF TypeOK, Authenticate, RunStates
  <1>2. ASSUME NEW c \in Conns, FrozenLookup(c) PROVE TypeOK'
    BY <1>2 DEF TypeOK, FrozenLookup, RunStates
  <1>3. ASSUME NEW c \in Conns, SendAuthOK(c) PROVE TypeOK'
    <2>1. AuthOK(found[c]) \in Frames
      BY <1>3 DEF TypeOK, AuthOK, Frames
    <2>2. /\ down' \in [Conns -> Seq(Frames)]
          /\ \A d \in Conns : Len(down'[d]) <= OutboxCap
          /\ closed' \in [Conns -> BOOLEAN]
      BY <1>3, <2>1, QueueType, RefuseType DEF SendAuthOK
    <2> QED
      BY <1>3, <2>2 DEF TypeOK, SendAuthOK, RunStates
  <1>4. ASSUME NEW c \in Conns, Register(c) PROVE TypeOK'
    BY <1>4 DEF TypeOK, Register, RunStates
  <1>5. ASSUME NEW c \in Conns, SendSyncRequest(c) PROVE TypeOK'
    <2>1. SyncRequest \in Frames
      BY DEF SyncRequest, Frames
    <2>2. /\ down' \in [Conns -> Seq(Frames)]
          /\ \A d \in Conns : Len(down'[d]) <= OutboxCap
          /\ closed' \in [Conns -> BOOLEAN]
      BY <1>5, <2>1, QueueType, RefuseType DEF SendSyncRequest
    <2> QED
      BY <1>5, <2>2 DEF TypeOK, SendSyncRequest, RunStates
  <1>6. ASSUME NEW c \in Conns, ReceiveStateSync(c) PROVE TypeOK'
    <2>1. up' \in [Conns -> Seq(Replies)]
      BY <1>6 DEF TypeOK, ReceiveStateSync
    <2> QED
      BY <1>6, <2>1, ReconcileType DEF TypeOK, ReceiveStateSync, RunStates
  <1>7. ASSUME NEW c \in Conns, MarkReady(c) PROVE TypeOK'
    BY <1>7 DEF TypeOK, MarkReady, RunStates
  <1>8. ASSUME NEW c \in Conns, ConnFails(c) PROVE TypeOK'
    BY <1>8 DEF TypeOK, ConnFails, RunStates
  <1>9. ASSUME NEW c \in Conns, HeartbeatStale(c) PROVE TypeOK'
    BY <1>9 DEF TypeOK, HeartbeatStale
  <1>10. ASSUME NEW c \in Conns, Unregister(c) PROVE TypeOK'
    BY <1>10 DEF TypeOK, Unregister, RunStates
  <1>11. ASSUME NEW c \in Conns, AgentDial(c) PROVE TypeOK'
    BY <1>11, ConnAssumption DEF TypeOK, AgentDial, RunStates
  <1>12. ASSUME NEW c \in Conns, ReceiveDeltaReport(c) PROVE TypeOK'
    <2>1. up' \in [Conns -> Seq(Replies)]
      BY <1>12 DEF TypeOK, ReceiveDeltaReport
    <2> QED
      BY <1>12, <2>1, ReconcileType DEF TypeOK, ReceiveDeltaReport
  <1>13. ASSUME NEW c \in Conns, AutoLatch(c) PROVE TypeOK'
    <2>1. CASE WriteRow(c, TRUE) /\ pc' = [pc EXCEPT ![c] = "sentinel"] /\ UNCHANGED streak
      BY <1>0, <1>13, <2>1, WriteRowType, PcType DEF TypeOK, AutoLatch, PcStates
    <2>2. CASE pc' = [pc EXCEPT ![c] = "idle"] /\ UNCHANGED <<latchVars, want>>
      BY <1>0, <1>13, <2>2, PcType DEF TypeOK, AutoLatch, PcStates
    <2> QED
      BY <1>13, <2>1, <2>2 DEF AutoLatch
  <1>14. ASSUME NEW c \in Conns, SetSentinel(c) PROVE TypeOK'
    BY <1>0, <1>14, PcType DEF TypeOK, SetSentinel, PcStates, killedSentinel
  <1>15. ASSUME NEW o \in Operators, KillLatch(o) PROVE TypeOK'
    BY <1>0, <1>15, WriteRowType, PcType DEF TypeOK, KillLatch, PcStates
  <1>16. ASSUME NEW o \in Operators, ResumeLatch(o) PROVE TypeOK'
    BY <1>0, <1>16, WriteRowType, PcType DEF TypeOK, ResumeLatch, PcStates
  <1>17. ASSUME NEW o \in Operators, ClearDriftStreak(o) PROVE TypeOK'
    BY <1>0, <1>17, PcType DEF TypeOK, ClearDriftStreak, PcStates, killedSentinel
  <1>18. ASSUME NEW p \in Procs, GetTarget(p) PROVE TypeOK'
    <2>1. CASE Reachable /\ target' = [target EXCEPT ![p] = registry]
               /\ pc' = [pc EXCEPT ![p] = "send"] /\ UNCHANGED want
      BY <1>18, <2>1 DEF TypeOK, GetTarget, Reachable, PcStates
    <2>2. CASE Returns(p) /\ UNCHANGED target
      BY <1>18, <2>2, PcType DEF TypeOK, GetTarget, Returns, PcStates
    <2> QED
      BY <1>18, <2>1, <2>2 DEF GetTarget
  <1>19. ASSUME NEW p \in Procs, Push(p) PROVE TypeOK'
    <2>0. target[p] \in Conns
      BY <1>19 DEF TypeOK, Push
    <2>1. KillFrame(want[p]) \in Frames
      BY <1>19 DEF TypeOK, KillFrame, Frames
    <2>2. /\ down' \in [Conns -> Seq(Frames)]
          /\ \A d \in Conns : Len(down'[d]) <= OutboxCap
          /\ closed' \in [Conns -> BOOLEAN]
      BY <1>19, <2>0, <2>1, QueueType, RefuseType DEF Push
    <2> QED
      BY <1>19, <2>2 DEF TypeOK, Push, Returns, PcStates
  <1>20. CASE AgentAuthOK
    BY <1>20, ReadsType DEF TypeOK, AgentAuthOK
  <1>21. CASE AgentStateSync
    BY <1>21, ReadsType DEF TypeOK, AgentStateSync, Replies
  <1>22. CASE handleKillSwitch
    BY <1>22, ReadsType DEF TypeOK, handleKillSwitch
  <1>23. CASE AgentDeltaReport
    <2>1. session \in Conns
      BY <1>23 DEF TypeOK, AgentDeltaReport
    <2>2. up' \in [Conns -> Seq(Replies)]
      BY <1>23, <2>1 DEF TypeOK, AgentDeltaReport, Replies
    <2> QED
      BY <1>23, <2>2 DEF TypeOK, AgentDeltaReport
  <1>24. ASSUME EndSession
         PROVE  /\ session' = NoConn /\ apc' = "backoff"
                /\ down' \in [Conns -> Seq(Frames)]
                /\ \A d \in Conns : Len(down'[d]) <= OutboxCap
    BY <1>24, CapAssumption DEF TypeOK, EndSession
  <1>25. CASE AgentDisconnect
    BY <1>24, <1>25 DEF TypeOK, AgentDisconnect
  <1>26. CASE AgentCrash
    <2>1. faults \in Nat /\ faults' = faults + 1
      BY <1>26 DEF TypeOK, AgentCrash
    <2>2. faults' \in Nat
      BY <2>1
    <2>3. frozen' \in BOOLEAN
      BY <1>26 DEF AgentCrash
    <2>4. /\ session' = NoConn /\ apc' = "backoff"
          /\ down' \in [Conns -> Seq(Frames)]
          /\ \A d \in Conns : Len(down'[d]) <= OutboxCap
      BY <1>24, <1>26 DEF AgentCrash
    <2>5. UNCHANGED <<latched, streak, overlapped, late, rows, run, closed, found, registry,
                      pc, want, target, up, reports>>
      BY <1>26 DEF AgentCrash
    <2> QED
      BY <2>2, <2>3, <2>4, <2>5 DEF TypeOK
  <1>27. CASE SaaSCrash
    BY <1>27 DEF TypeOK, SaaSCrash, RunStates, PcStates, killedSentinel
  <1>28. CASE UNCHANGED vars
    BY <1>28 DEF TypeOK, vars
  <1> QED
    BY <1>1, <1>2, <1>3, <1>4, <1>5, <1>6, <1>7, <1>8, <1>9, <1>10, <1>11, <1>12, <1>13,
       <1>14, <1>15, <1>16, <1>17, <1>18, <1>19, <1>20, <1>21, <1>22, <1>23, <1>25, <1>26,
       <1>27, <1>28
    DEF Next, Handshake, Lifetime, AutoFreeze, Operator, Agent

\* The initial state is well typed.
LEMMA InitType == Init => TypeOK
  <1> SUFFICES ASSUME Init PROVE TypeOK
    OBVIOUS
  <1>1. down \in [Conns -> Seq(Frames)] /\ \A c \in Conns : Len(down[c]) <= OutboxCap
    BY CapAssumption DEF Init
  <1>2. up \in [Conns -> Seq(Replies)]
    BY DEF Init
  <1>3. /\ run \in [Conns -> RunStates]
        /\ closed \in [Conns -> BOOLEAN] /\ found \in [Conns -> BOOLEAN]
        /\ pc \in [Procs -> PcStates] /\ want \in [Procs -> BOOLEAN]
        /\ target \in [Procs -> Conns \cup {NoConn}]
        /\ \A p \in Procs : pc[p] # "send"
    BY DEF Init, RunStates, PcStates
  <1>4. streak \in Int /\ streak >= killedSentinel
    BY DEF Init, killedSentinel
  <1>5. latched \in BOOLEAN /\ overlapped \in BOOLEAN /\ frozen \in BOOLEAN
    BY DEF Init
  <1>6. apc = "backoff" /\ session = NoConn /\ registry = NoConn /\ late = {}
        /\ rows = 0 /\ reports = 0 /\ faults = 0
    BY DEF Init
  <1> QED
    BY <1>1, <1>2, <1>3, <1>4, <1>5, <1>6 DEF TypeOK

\* The state of the kill switch stays well typed, and no outbox exceeds its capacity.
THEOREM TypeCorrect == Spec => []TypeOK
  BY InitType, TypeStep, PTL DEF Spec

-----------------------------------------------------------------------------
\* The registry always returns the open connection that registered last.
LEMMA RegistryStep ==
    TypeOK /\ LiveConnRegistered /\ [Next]_vars => LiveConnRegistered'
  <1> SUFFICES ASSUME TypeOK, LiveConnRegistered, [Next]_vars PROVE LiveConnRegistered'
    OBVIOUS
  <1> USE DEF latchVars, hubVars, procVars, agentVars, LiveConnRegistered, Registered
  <1>1. CASE UNCHANGED <<run, closed, registry>>
    BY <1>1
  <1>2. ASSUME NEW c \in Conns, Handshake(c) PROVE LiveConnRegistered'
    <2>1. CASE Authenticate(c)
      BY <2>1 DEF TypeOK, Authenticate
    <2>2. CASE FrozenLookup(c)
      BY <2>2 DEF TypeOK, FrozenLookup
    <2>3. CASE SendAuthOK(c)
      BY <2>3 DEF TypeOK, SendAuthOK, Queue, Refuse
    <2>4. CASE Register(c)
      BY <2>4 DEF TypeOK, Register
    <2>5. CASE SendSyncRequest(c)
      BY <2>5 DEF TypeOK, SendSyncRequest, Queue, Refuse
    <2>6. CASE ReceiveStateSync(c)
      BY <2>6 DEF TypeOK, ReceiveStateSync
    <2>7. CASE MarkReady(c)
      BY <2>7 DEF TypeOK, MarkReady
    <2> QED
      BY <1>2, <2>1, <2>2, <2>3, <2>4, <2>5, <2>6, <2>7 DEF Handshake
  <1>3. ASSUME NEW c \in Conns, Lifetime(c) PROVE LiveConnRegistered'
    BY <1>3 DEF TypeOK, Lifetime, ConnFails, HeartbeatStale, Unregister, AgentDial
  <1>4. ASSUME NEW c \in Conns, AutoFreeze(c) PROVE UNCHANGED <<run, closed, registry>>
    BY <1>4 DEF AutoFreeze, ReceiveDeltaReport, AutoLatch, SetSentinel
  <1>5. ASSUME NEW o \in Operators, Operator(o) PROVE UNCHANGED <<run, closed, registry>>
    BY <1>5 DEF Operator, KillLatch, ResumeLatch, ClearDriftStreak
  <1>6. ASSUME NEW p \in Procs, GetTarget(p) PROVE UNCHANGED <<run, closed, registry>>
    BY <1>6 DEF GetTarget
  <1>7. ASSUME NEW p \in Procs, Push(p) PROVE LiveConnRegistered'
    <2>1. target[p] \in Conns
      BY <1>7 DEF TypeOK, Push
    <2> QED
      BY <1>7, <2>1 DEF TypeOK, Push, Queue, Refuse
  <1>8. ASSUME Agent PROVE UNCHANGED <<run, closed, registry>>
    BY <1>8 DEF Agent, AgentAuthOK, AgentStateSync, handleKillSwitch, AgentDeltaReport,
                AgentDisconnect, AgentCrash
  <1>9. CASE SaaSCrash
    BY <1>9 DEF TypeOK, SaaSCrash
  <1>10. CASE UNCHANGED vars
    BY <1>1, <1>10 DEF vars
  <1> QED
    BY <1>1, <1>2, <1>3, <1>4, <1>5, <1>6, <1>7, <1>8, <1>9, <1>10 DEF Next

-----------------------------------------------------------------------------
\* Without an overlap, every pending push carries the value of the latch; the
\* suppression sentinel is only ever set behind a kill.
PushInv == PushesAgree /\ SentinelAfterKill

\* After a row is written, whoever still has to push agrees with it, or it overlapped.
LEMMA WriteRowAgrees ==
    ASSUME TypeOK, PushInv, NEW p \in Procs, NEW v \in BOOLEAN, NEW s \in PcStates,
           WriteRow(p, v), pc' = [pc EXCEPT ![p] = s], s = "sentinel" => v
    PROVE  PushInv'
  <1>1. want' = [want EXCEPT ![p] = v] /\ latched' = v
    BY DEF WriteRow
  <1>2. ASSUME ~overlapped', NEW q \in Procs, pc'[q] \in InFlight PROVE want'[q] = latched'
    <2>1. CASE q = p
      BY <1>1, <2>1 DEF TypeOK
    <2>2. CASE q # p
      BY <1>1, <1>2, <2>2 DEF TypeOK, WriteRow
    <2> QED
      BY <2>1, <2>2
  <1>3. ASSUME NEW q \in Procs, pc'[q] = "sentinel" PROVE want'[q]
    BY <1>1, <1>3 DEF TypeOK, PushInv, SentinelAfterKill
  <1> QED
    BY <1>2, <1>3 DEF PushInv, PushesAgree, SentinelAfterKill

\* Every step keeps the pending pushes in agreement with the latch.
LEMMA PushInvStep == TypeOK /\ PushInv /\ [Next]_vars => PushInv'
  <1> SUFFICES ASSUME TypeOK, PushInv, [Next]_vars PROVE PushInv'
    OBVIOUS
  <1> USE DEF latchVars, hubVars, procVars, agentVars
  <1>0. Conns \subseteq Procs /\ Operators \subseteq Procs
    BY ProcsUnion
  <1>1. CASE UNCHANGED <<pc, want, latched, overlapped>>
    BY <1>1 DEF PushInv, PushesAgree, SentinelAfterKill
  <1>2. ASSUME NEW p \in Procs, NEW s \in PcStates, s \notin InFlight \/ pc[p] \in InFlight,
               s # "sentinel", pc' = [pc EXCEPT ![p] = s],
               UNCHANGED <<want, latched, overlapped>>
        PROVE  PushInv'
    BY <1>2 DEF TypeOK, PushInv, PushesAgree, SentinelAfterKill
  <1>3. ASSUME NEW p \in Procs, Returns(p), UNCHANGED <<latched, overlapped>>
        PROVE  PushInv'
    BY <1>3 DEF TypeOK, PushInv, PushesAgree, SentinelAfterKill, Returns, InFlight
  <1>4. ASSUME NEW c \in Conns, Reconcile(c), UNCHANGED <<want, latched, overlapped>>
        PROVE  PushInv'
    <2>1. CASE UNCHANGED <<streak, pc>>
      BY <1>1, <1>4, <2>1
    <2>2. ASSUME NEW b \in BOOLEAN,
                 pc' = [pc EXCEPT ![c] = IF b THEN "latch" ELSE "idle"]
          PROVE  PushInv'
      <3>1. (IF b THEN "latch" ELSE "idle") \in PcStates \ (InFlight \cup {"sentinel"})
        BY DEF PcStates, InFlight
      <3> QED
        BY <1>0, <1>2, <1>4, <2>2, <3>1
    <2> QED
      BY <1>4, <2>1, <2>2 DEF Reconcile
  <1>5. ASSUME NEW c \in Conns, Handshake(c) PROVE PushInv'
    <2>1. CASE ReceiveStateSync(c)
      BY <1>4, <2>1 DEF ReceiveStateSync
    <2>2. CASE ~ReceiveStateSync(c)
      BY <1>1, <1>5, <2>2 DEF Handshake, Authenticate, FrozenLookup, SendAuthOK, Register,
                              SendSyncRequest, MarkReady
    <2> QED
      BY <2>1, <2>2
  <1>6. ASSUME NEW c \in Conns, Lifetime(c) PROVE PushInv'
    BY <1>1, <1>6 DEF Lifetime, ConnFails, HeartbeatStale, Unregister, AgentDial
  <1>7. ASSUME NEW c \in Conns, AutoFreeze(c) PROVE PushInv'
    <2>1. CASE ReceiveDeltaReport(c)
      BY <1>4, <2>1 DEF ReceiveDeltaReport
    <2>2. CASE AutoLatch(c)
      <3>1. CASE WriteRow(c, TRUE) /\ pc' = [pc EXCEPT ![c] = "sentinel"]
        BY <1>0, <3>1, WriteRowAgrees DEF PcStates
      <3>2. CASE pc' = [pc EXCEPT ![c] = "idle"] /\ UNCHANGED <<latchVars, want>>
        BY <1>0, <1>2, <3>2 DEF PcStates, InFlight
      <3> QED
        BY <2>2, <3>1, <3>2 DEF AutoLatch
    <2>3. CASE SetSentinel(c)
      BY <1>0, <1>2, <2>3 DEF SetSentinel, PcStates, InFlight
    <2> QED
      BY <1>7, <2>1, <2>2, <2>3 DEF AutoFreeze
  <1>8. ASSUME NEW o \in Operators, Operator(o) PROVE PushInv'
    <2>1. CASE KillLatch(o)
      BY <1>0, <2>1, WriteRowAgrees DEF KillLatch, PcStates
    <2>2. CASE ResumeLatch(o)
      BY <1>0, <2>2, WriteRowAgrees DEF ResumeLatch, PcStates
    <2>3. CASE ClearDriftStreak(o)
      BY <1>0, <1>2, <2>3 DEF ClearDriftStreak, PcStates, InFlight
    <2> QED
      BY <1>8, <2>1, <2>2, <2>3 DEF Operator
  <1>9. ASSUME NEW p \in Procs, GetTarget(p) PROVE PushInv'
    <2>1. CASE pc' = [pc EXCEPT ![p] = "send"] /\ UNCHANGED want
      BY <1>2, <1>9, <2>1 DEF GetTarget, PcStates, InFlight
    <2> QED
      BY <1>3, <1>9, <2>1 DEF GetTarget
  <1>10. ASSUME NEW p \in Procs, Push(p) PROVE PushInv'
    BY <1>3, <1>10 DEF Push
  <1>11. CASE Agent
    BY <1>1, <1>11 DEF Agent, AgentAuthOK, AgentStateSync, handleKillSwitch, AgentDeltaReport,
                       AgentDisconnect, AgentCrash
  <1>12. CASE SaaSCrash
    BY <1>12 DEF SaaSCrash, PushInv, PushesAgree, SentinelAfterKill, InFlight
  <1>13. CASE UNCHANGED vars
    BY <1>1, <1>13 DEF vars
  <1> QED
    BY <1>5, <1>6, <1>7, <1>8, <1>9, <1>10, <1>11, <1>12, <1>13 DEF Next

-----------------------------------------------------------------------------
\* What reading one frame does to the latch the agent will end with.
LEMMA ReadKeepsHalt ==
    ASSUME TypeOK, NEW t, NEW c \in Conns, c = session, Reads(t), WillHalt(c),
           UNCHANGED <<run, found>>, apc' \in {"sync", "running"},
           IF t = "state_sync_request" THEN frozen' = frozen /\ apc = "sync"
           ELSE frozen' = Head(down[c]).frozen
    PROVE  WillHalt(c)'
  <1> DEFINE q == down[c]
  <1>1. q \in Seq(Frames) /\ q # <<>> /\ down'[c] = Tail(q) /\ Head(q).type = t
    BY DEF TypeOK, Reads
  <1>2. Len(q) \in Nat /\ Len(q) >= 1 /\ Head(q) = q[1] /\ DOMAIN q = 1..Len(q)
        /\ DOMAIN Tail(q) = 1..(Len(q) - 1)
        /\ \A i \in 1..(Len(q) - 1) : Tail(q)[i] = q[i + 1]
    BY <1>1
  <1>3. CASE run[c] = "authok"
    BY <1>3 DEF WillHalt
  <1>4. ASSUME run[c] # "authok", NEW n \in Nat, ThawFree(c, n), n >= 1 PROVE ThawFree(c, n - 1)'
    BY <1>1, <1>2, <1>4 DEF ThawFree
  <1>5. ASSUME ThawFree(c, 0) PROVE ThawFree(c, 0)'
    BY <1>1, <1>2, <1>5 DEF ThawFree
  <1>6. ASSUME run[c] # "authok", apc \in {"sync", "running"}, frozen, ThawFree(c, 0)
        PROVE  WillHalt(c)'
    <2>1. CASE t = "state_sync_request"
      BY <1>5, <1>6, <2>1 DEF WillHalt
    <2>2. CASE t # "state_sync_request"
      <3>1. 1 \in DOMAIN q /\ 1 > 0 /\ Carries(q[1])
        BY <1>1, <1>2, <2>2 DEF Carries
      <3>2. q[1].frozen
        BY <1>6, <3>1 DEF ThawFree
      <3>3. frozen'
        BY <1>2, <2>2, <3>2
      <3> QED
        BY <1>5, <1>6, <3>3 DEF WillHalt
    <2> QED
      BY <2>1, <2>2
  <1>7. ASSUME run[c] # "authok", NEW n \in DOMAIN q,
               Carries(q[n]), q[n].frozen, ThawFree(c, n)
        PROVE  WillHalt(c)'
    <2>0. n \in Nat /\ n >= 1
      BY <1>2
    <2>1. CASE n = 1
      <3>1. frozen'
        BY <1>1, <1>2, <1>7, <2>1 DEF Carries
      <3>2. ThawFree(c, 0)'
        BY <1>4, <1>7, <2>0, <2>1
      <3> QED
        BY <1>7, <3>1, <3>2 DEF WillHalt
    <2>2. CASE n # 1
      <3>1. ThawFree(c, n - 1)'
        BY <1>4, <1>7, <2>0
      <3>2. n - 1 \in DOMAIN Tail(q) /\ Tail(q)[n - 1] = q[n]
        BY <1>2, <2>0, <2>2
      <3> QED
        BY <1>1, <1>7, <3>1, <3>2 DEF WillHalt
    <2> QED
      BY <2>1, <2>2
  <1> QED
    BY <1>3, <1>6, <1>7 DEF WillHalt

\* A frame queued behind the others leaves the agent halted unless it thaws it.
LEMMA QueueKeepsHalt ==
    ASSUME TypeOK, NEW c \in Conns, NEW f \in Frames, Queue(c, f),
           run'[c] # "authok", UNCHANGED <<apc, frozen>>,
           \/ Carries(f) /\ f.frozen
           \/ run[c] # "authok" /\ WillHalt(c) /\ ~Carries(f)
    PROVE  WillHalt(c)'
  <1> DEFINE q == down[c]
  <1>1. q \in Seq(Frames) /\ down'[c] = Append(q, f)
    BY DEF TypeOK, Queue
  <1>2. Len(q) \in Nat /\ DOMAIN q = 1..Len(q) /\ DOMAIN Append(q, f) = 1..(Len(q) + 1)
        /\ Append(q, f)[Len(q) + 1] = f
        /\ \A i \in 1..Len(q) : Append(q, f)[i] = q[i]
    BY <1>1
  <1>3. CASE Carries(f) /\ f.frozen
    <2>1. PICK n : n = Len(q) + 1
      OBVIOUS
    <2>2. ThawFree(c, n)'
      BY <1>1, <1>2, <2>1 DEF ThawFree
    <2>3. n \in DOMAIN down'[c] /\ Carries(down'[c][n]) /\ down'[c][n].frozen
      BY <1>1, <1>2, <1>3, <2>1
    <2> QED
      BY <2>2, <2>3 DEF WillHalt, Carries
  <1>4. CASE run[c] # "authok" /\ WillHalt(c) /\ ~Carries(f)
    <2>1. ASSUME NEW n \in Nat, ThawFree(c, n) PROVE ThawFree(c, n)'
      BY <1>1, <1>2, <1>4, <2>1 DEF ThawFree
    <2>2. CASE apc \in {"sync", "running"} /\ frozen /\ ThawFree(c, 0)
      BY <2>1, <2>2 DEF WillHalt
    <2>3. ASSUME NEW n \in DOMAIN q, Carries(q[n]), q[n].frozen, ThawFree(c, n)
          PROVE  WillHalt(c)'
      BY <1>1, <1>2, <2>1, <2>3 DEF WillHalt
    <2> QED
      BY <1>4, <2>2, <2>3 DEF WillHalt
  <1> QED
    BY <1>3, <1>4

\* A step that does not touch the session's connection or its pending pushes.
LEMMA Untouched ==
    ASSUME TypeOK, NEW c \in Conns, Covered(c), UNCHANGED <<late, apc, frozen>>,
           run'[c] = run[c], found'[c] = found[c], down'[c] = down[c],
           closed[c] => closed'[c],
           \A p \in Procs : Pushing(p, c) => \E q \in Procs : Pushing(q, c)'
    PROVE  Covered(c)'
  <1>1. WillHalt(c) => WillHalt(c)'
    BY DEF WillHalt, ThawFree
  <1>2. Handshaking(c)' <=> Handshaking(c)
    BY DEF Handshaking
  <1> QED
    BY <1>1, <1>2 DEF Covered

\* Moving a process inside its call, short of the end, keeps its push pending.
LEMMA PcKeepsPushing ==
    ASSUME TypeOK, NEW c \in Conns, NEW p \in Procs, NEW s \in PcStates,
           pc[p] \in InFlight => s \in InFlight \ {"send"},
           pc' = [pc EXCEPT ![p] = s], UNCHANGED target
    PROVE  \A q \in Procs : Pushing(q, c) => Pushing(q, c)'
  BY DEF TypeOK, Pushing

\* Every step keeps the latch on its way to the agent's session.
LEMMA LatchStep ==
    TypeOK /\ IInv /\ [Next]_vars => LatchOnItsWay'
  <1> SUFFICES ASSUME TypeOK, IInv, [Next]_vars, latched', ~overlapped',
                      NEW c \in Conns, c = session'
               PROVE  Covered(c)'
    BY DEF LatchOnItsWay
  <1> USE DEF latchVars, hubVars, procVars, agentVars
  <1>0. Conns \subseteq Procs /\ Operators \subseteq Procs
    BY ProcsUnion
  <1>a. ASSUME UNCHANGED <<latched, overlapped, session>> PROVE Covered(c)
    BY <1>a DEF IInv, LatchOnItsWay
  <1>b. ASSUME UNCHANGED <<latched, overlapped, session, late, apc, frozen, run, found,
                           down, closed, pc, target>>
        PROVE  Covered(c)'
    BY <1>a, <1>b, Untouched DEF Pushing
  <1>c. ASSUME ~Handshaking(c)', run'[c] # "pump" PROVE Covered(c)'
    BY <1>c DEF Covered
  <1>d. ASSUME closed'[c] PROVE Covered(c)'
    BY <1>d DEF Covered
  <1>e. ASSUME NEW d \in Conns, d # c,
               UNCHANGED <<latched, overlapped, session, late, apc, frozen, pc, target>>,
               run'[c] = run[c], found'[c] = found[c], down'[c] = down[c],
               closed[c] => closed'[c]
        PROVE  Covered(c)'
    BY <1>a, <1>e, Untouched DEF Pushing
  <1>f. ASSUME NEW p \in Procs, NEW s \in PcStates,
               pc[p] \in InFlight => s \in InFlight \ {"send"},
               pc' = [pc EXCEPT ![p] = s],
               UNCHANGED <<latched, overlapped, session, late, apc, frozen, run, found,
                           down, closed, target>>
        PROVE  Covered(c)'
    <2>1. \A q \in Procs : Pushing(q, c) => Pushing(q, c)'
      BY <1>f, PcKeepsPushing
    <2> QED
      BY <1>a, <1>f, <2>1, Untouched
  <1>1. ASSUME NEW d \in Conns, Authenticate(d) PROVE Covered(c)'
    <2>1. CASE d = c
      BY <1>1, <1>c, <2>1 DEF TypeOK, Authenticate, Handshaking
    <2>2. CASE d # c
      BY <1>1, <1>e, <2>2 DEF TypeOK, Authenticate
    <2> QED
      BY <2>1, <2>2
  <1>2. ASSUME NEW d \in Conns, FrozenLookup(d) PROVE Covered(c)'
    <2>1. CASE d = c
      <3>1. latched
        BY <1>2 DEF FrozenLookup
      <3>2. found'[c] /\ run'[c] = "authok"
        BY <1>2, <2>1, <3>1 DEF TypeOK, FrozenLookup
      <3> QED
        BY <3>2 DEF Covered, WillHalt
    <2>2. CASE d # c
      BY <1>2, <1>e, <2>2 DEF TypeOK, FrozenLookup
    <2> QED
      BY <2>1, <2>2
  <1>3. ASSUME NEW d \in Conns, SendAuthOK(d) PROVE Covered(c)'
    <2>1. CASE d = c /\ Queue(c, AuthOK(found[c])) /\ run' = [run EXCEPT ![c] = "register"]
      <3>1. Covered(c)
        BY <1>3, <1>a DEF SendAuthOK
      <3>2. CASE closed[c] \/ c \in late
        BY <1>3, <2>1, <3>2 DEF Queue, Covered, SendAuthOK
      <3>3. CASE ~(closed[c] \/ c \in late)
        <4>1. found[c]
          BY <1>3, <2>1, <3>1, <3>3 DEF Covered, SendAuthOK, Handshaking, WillHalt
        <4>2. AuthOK(found[c]) \in Frames
          BY DEF TypeOK, AuthOK, Frames
        <4>3. Carries(AuthOK(found[c])) /\ AuthOK(found[c]).frozen
          BY <4>1 DEF Carries, AuthOK
        <4>4. run'[c] # "authok" /\ UNCHANGED <<apc, frozen>>
          BY <1>3, <2>1 DEF TypeOK, SendAuthOK
        <4>5. WillHalt(c)'
          BY <2>1, <4>2, <4>3, <4>4, QueueKeepsHalt
        <4> QED
          BY <4>5 DEF Covered
      <3> QED
        BY <3>2, <3>3
    <2>2. CASE d = c /\ Refuse(c)
      BY <1>d, <2>2 DEF TypeOK, Refuse
    <2>3. CASE d # c
      BY <1>3, <1>e, <2>3 DEF TypeOK, SendAuthOK, Queue, Refuse
    <2> QED
      BY <1>3, <2>1, <2>2, <2>3 DEF SendAuthOK
  <1>4. ASSUME NEW d \in Conns, Register(d) PROVE Covered(c)'
    <2>1. CASE d = c
      <3>1. Covered(c)
        BY <1>4, <1>a DEF Register
      <3>2. run[c] = "register" /\ run'[c] = "syncreq" /\ (closed[c] => closed'[c])
        BY <1>4, <2>1 DEF TypeOK, Register
      <3>3. UNCHANGED <<late, apc, frozen, down>>
        BY <1>4 DEF Register
      <3>4. WillHalt(c) => WillHalt(c)'
        BY <3>2, <3>3 DEF WillHalt, ThawFree
      <3> QED
        BY <3>1, <3>2, <3>3, <3>4 DEF Covered, Handshaking
    <2>2. CASE d # c
      BY <1>4, <1>e, <2>2 DEF TypeOK, Register
    <2> QED
      BY <2>1, <2>2
  <1>5. ASSUME NEW d \in Conns, SendSyncRequest(d) PROVE Covered(c)'
    <2>1. CASE d = c /\ Queue(c, SyncRequest) /\ run' = [run EXCEPT ![c] = "sync"]
      <3>1. Covered(c)
        BY <1>5, <1>a DEF SendSyncRequest
      <3>2. run[c] = "syncreq" /\ run'[c] = "sync" /\ UNCHANGED <<apc, frozen, late, closed>>
        BY <1>5, <2>1 DEF TypeOK, SendSyncRequest, Queue
      <3>3. SyncRequest \in Frames /\ ~Carries(SyncRequest)
        BY DEF SyncRequest, Frames, Carries
      <3>4. WillHalt(c) => WillHalt(c)'
        BY <2>1, <3>2, <3>3, QueueKeepsHalt
      <3> QED
        BY <3>1, <3>2, <3>4 DEF Covered, Handshaking
    <2>2. CASE d = c /\ Refuse(c)
      BY <1>d, <2>2 DEF TypeOK, Refuse
    <2>3. CASE d # c
      BY <1>5, <1>e, <2>3 DEF TypeOK, SendSyncRequest, Queue, Refuse
    <2> QED
      BY <1>5, <2>1, <2>2, <2>3 DEF SendSyncRequest
  <1>g. ASSUME NEW d \in Conns, pc[d] = "idle", Reconcile(d), UNCHANGED target
        PROVE  \A p \in Procs : Pushing(p, c) => Pushing(p, c)'
    <2>1. CASE UNCHANGED <<streak, pc>>
      BY <1>g, <2>1 DEF Pushing
    <2>2. ASSUME NEW s, pc' = [pc EXCEPT ![d] = s]
          PROVE  \A p \in Procs : Pushing(p, c) => Pushing(p, c)'
      BY <1>0, <1>g, <2>2 DEF TypeOK, Pushing, InFlight
    <2> QED
      BY <1>g, <2>1, <2>2 DEF Reconcile
  <1>6. ASSUME NEW d \in Conns, ReceiveStateSync(d) PROVE Covered(c)'
    <2>1. \A p \in Procs : Pushing(p, c) => Pushing(p, c)'
      BY <1>6, <1>g DEF ReceiveStateSync
    <2>2. Covered(c)
      BY <1>6, <1>a DEF ReceiveStateSync
    <2>3. UNCHANGED <<late, apc, frozen, found, down, closed>>
      BY <1>6 DEF ReceiveStateSync
    <2>4. CASE d = c
      <3>1. run[c] = "sync" /\ run'[c] = "markready"
        BY <1>6, <2>4 DEF TypeOK, ReceiveStateSync
      <3>2. WillHalt(c) => WillHalt(c)'
        BY <2>3, <3>1 DEF WillHalt, ThawFree
      <3> QED
        BY <2>2, <2>3, <3>1, <3>2 DEF Covered, Handshaking
    <2>5. CASE d # c
      <3>1. run'[c] = run[c]
        BY <1>6, <2>5 DEF TypeOK, ReceiveStateSync
      <3> QED
        BY <2>1, <2>2, <2>3, <3>1, Untouched
    <2> QED
      BY <2>4, <2>5
  <1>7. ASSUME NEW d \in Conns, MarkReady(d) PROVE Covered(c)'
    <2>1. CASE d = c
      <3>1. Covered(c) /\ UNCHANGED <<late, apc, frozen, found, down, closed>>
        BY <1>7, <1>a DEF MarkReady
      <3>2. run[c] = "markready" /\ run'[c] = "pump"
        BY <1>7, <2>1 DEF TypeOK, MarkReady
      <3>3. WillHalt(c) => WillHalt(c)'
        BY <3>1, <3>2 DEF WillHalt, ThawFree
      <3> QED
        BY <3>1, <3>2, <3>3 DEF Covered, Handshaking
    <2>2. CASE d # c
      BY <1>7, <1>e, <2>2 DEF TypeOK, MarkReady
    <2> QED
      BY <2>1, <2>2
  <1>8. ASSUME NEW d \in Conns, ConnFails(d) PROVE Covered(c)'
    <2>1. CASE d = c
      BY <1>8, <1>d, <2>1 DEF TypeOK, ConnFails
    <2>2. CASE d # c
      BY <1>8, <1>e, <2>2 DEF TypeOK, ConnFails
    <2> QED
      BY <2>1, <2>2
  <1>9. ASSUME NEW d \in Conns, HeartbeatStale(d) PROVE Covered(c)'
    <2>1. CASE d = c
      BY <1>9, <1>d, <2>1 DEF TypeOK, HeartbeatStale
    <2>2. CASE d # c
      BY <1>9, <1>e, <2>2 DEF TypeOK, HeartbeatStale
    <2> QED
      BY <2>1, <2>2
  <1>10. ASSUME NEW d \in Conns, Unregister(d) PROVE Covered(c)'
    <2>1. CASE d = c
      BY <1>10, <1>c, <2>1 DEF TypeOK, Unregister, Handshaking
    <2>2. CASE d # c
      BY <1>10, <1>e, <2>2 DEF TypeOK, Unregister
    <2> QED
      BY <2>1, <2>2
  <1>11. ASSUME NEW d \in Conns, AgentDial(d) PROVE Covered(c)'
    BY <1>11, <1>c DEF TypeOK, AgentDial, Handshaking
  <1>12. ASSUME NEW d \in Conns, ReceiveDeltaReport(d) PROVE Covered(c)'
    <2>1. \A p \in Procs : Pushing(p, c) => Pushing(p, c)'
      BY <1>12, <1>g DEF ReceiveDeltaReport
    <2>2. Covered(c)
      BY <1>12, <1>a DEF ReceiveDeltaReport
    <2> QED
      BY <1>12, <2>1, <2>2, Untouched DEF ReceiveDeltaReport
  \* A kill row: connections in mid-handshake become late, the others have a push coming.
  <1>h. ASSUME NEW p \in Procs, NEW s \in InFlight \ {"send"}, WriteRow(p, TRUE),
               pc' = [pc EXCEPT ![p] = s], UNCHANGED run
        PROVE  Covered(c)'
    <2>1. Pushing(p, c)'
      BY <1>h DEF TypeOK, Pushing
    <2>2. Handshaking(c)' => c \in late'
      BY <1>h DEF WriteRow, Handshaking
    <2> QED
      BY <2>1, <2>2 DEF Covered
  <1>13. ASSUME NEW d \in Conns, AutoLatch(d) PROVE Covered(c)'
    <2>1. CASE WriteRow(d, TRUE) /\ pc' = [pc EXCEPT ![d] = "sentinel"]
      BY <1>0, <1>13, <1>h, <2>1 DEF AutoLatch, InFlight
    <2>2. CASE pc' = [pc EXCEPT ![d] = "idle"] /\ UNCHANGED <<latchVars, want>>
      BY <1>0, <1>13, <1>f, <2>2 DEF AutoLatch, InFlight, PcStates
    <2> QED
      BY <1>13, <2>1, <2>2 DEF AutoLatch
  <1>14. ASSUME NEW d \in Conns, SetSentinel(d) PROVE Covered(c)'
    BY <1>0, <1>14, <1>f DEF SetSentinel, InFlight, PcStates
  <1>15. ASSUME NEW o \in Operators, KillLatch(o) PROVE Covered(c)'
    BY <1>0, <1>15, <1>h DEF KillLatch, InFlight
  <1>16. ASSUME NEW o \in Operators, ResumeLatch(o) PROVE Covered(c)'
    BY <1>16 DEF ResumeLatch, WriteRow
  <1>17. ASSUME NEW o \in Operators, ClearDriftStreak(o) PROVE Covered(c)'
    BY <1>0, <1>17, <1>f DEF ClearDriftStreak, InFlight, PcStates
  \* An open Ready session is the registered one: the lookup finds it.
  <1>18. ASSUME NEW p \in Procs, GetTarget(p) PROVE Covered(c)'
    <2>1. Covered(c)
      BY <1>18, <1>a DEF GetTarget
    <2>2. UNCHANGED <<late, apc, frozen, run, found, down, closed>>
      BY <1>18 DEF GetTarget
    <2>3. CASE run[c] # "pump" \/ closed[c]
      <3>1. WillHalt(c) => WillHalt(c)'
        BY <2>2 DEF WillHalt, ThawFree
      <3> QED
        BY <2>1, <2>2, <2>3, <3>1 DEF Covered, Handshaking
    <2>4. CASE run[c] = "pump" /\ ~closed[c]
      <3>1. registry = c
        BY <2>4 DEF IInv, LiveConnRegistered, Registered
      <3>2. Reachable
        BY <2>4, <3>1, ConnAssumption DEF Reachable, IsReady
      <3>3. pc' = [pc EXCEPT ![p] = "send"] /\ target' = [target EXCEPT ![p] = c]
        BY <1>18, <3>1, <3>2 DEF GetTarget
      <3>4. \A q \in Procs : Pushing(q, c) => Pushing(q, c)'
        BY <3>3 DEF TypeOK, Pushing, InFlight
      <3> QED
        BY <2>1, <2>2, <3>4, Untouched
    <2> QED
      BY <2>3, <2>4
  <1>19. ASSUME NEW p \in Procs, Push(p) PROVE Covered(c)'
    <2>1. Covered(c)
      BY <1>19, <1>a DEF Push
    <2>2. /\ UNCHANGED <<late, apc, frozen, run, found, latched, overlapped>>
          /\ pc[p] = "send" /\ pc' = [pc EXCEPT ![p] = "idle"]
          /\ target' = [target EXCEPT ![p] = NoConn]
      BY <1>19 DEF Push, Returns
    <2>3. want[p]
      <3>1. pc[p] \in InFlight /\ latched /\ ~overlapped
        BY <2>2 DEF InFlight
      <3> QED
        BY <3>1 DEF IInv, PushesAgree
    <2>4. target[p] \in Conns
      BY <2>2 DEF TypeOK
    <2>5. CASE target[p] = c /\ Refuse(c)
      BY <1>d, <2>5 DEF TypeOK, Refuse
    <2>6. CASE target[p] = c /\ Queue(c, KillFrame(want[p]))
      <3>1. KillFrame(want[p]) \in Frames
        BY DEF TypeOK, KillFrame, Frames
      <3>2. Carries(KillFrame(want[p])) /\ KillFrame(want[p]).frozen
        BY <2>3 DEF Carries, KillFrame
      <3>3. CASE run[c] = "authok"
        BY <2>1, <2>2, <2>6, <3>3 DEF Covered, Handshaking, WillHalt, Queue
      <3>4. CASE run[c] # "authok"
        <4>1. WillHalt(c)'
          BY <2>2, <2>6, <3>1, <3>2, <3>4, QueueKeepsHalt
        <4> QED
          BY <4>1 DEF Covered
      <3> QED
        BY <3>3, <3>4
    <2>7. CASE target[p] # c
      <3>1. down'[c] = down[c] /\ (closed[c] => closed'[c])
        BY <1>19, <2>4, <2>7 DEF TypeOK, Push, Queue, Refuse
      <3>2. ASSUME NEW q \in Procs, Pushing(q, c) PROVE Pushing(q, c)'
        <4>1. q # p
          BY <2>2, <2>7, <3>2 DEF Pushing
        <4> QED
          BY <2>2, <3>2, <4>1 DEF TypeOK, Pushing
      <3> QED
        BY <2>1, <2>2, <3>1, <3>2, Untouched
    <2> QED
      BY <1>19, <2>5, <2>6, <2>7 DEF Push
  <1>i. ASSUME NEW t, Reads(t), c = session, Covered(c),
               UNCHANGED <<run, found, late, closed, pc, target>>,
               apc' \in {"sync", "running"},
               IF t = "state_sync_request" THEN frozen' = frozen /\ apc = "sync"
               ELSE frozen' = Head(down[c]).frozen
        PROVE  Covered(c)'
    <2>1. WillHalt(c) => WillHalt(c)'
      BY <1>i, ReadKeepsHalt
    <2>2. \A q \in Procs : Pushing(q, c) => Pushing(q, c)'
      BY <1>i DEF Pushing
    <2> QED
      BY <1>i, <2>1, <2>2 DEF Covered, Handshaking
  <1>20. CASE AgentAuthOK
    <2>1. Covered(c) /\ c = session
      BY <1>20, <1>a DEF AgentAuthOK
    <2> QED
      BY <1>20, <1>i, <2>1 DEF AgentAuthOK
  <1>21. CASE AgentStateSync
    <2>1. Covered(c) /\ c = session
      BY <1>21, <1>a DEF AgentStateSync
    <2> QED
      BY <1>21, <1>i, <2>1 DEF AgentStateSync
  <1>22. CASE handleKillSwitch
    <2>1. Covered(c) /\ c = session
      BY <1>22, <1>a DEF handleKillSwitch
    <2> QED
      BY <1>22, <1>i, <2>1 DEF handleKillSwitch
  <1>23. CASE AgentDeltaReport
    BY <1>23, <1>b DEF AgentDeltaReport
  <1>24. CASE AgentDisconnect
    BY <1>24, ConnAssumption DEF AgentDisconnect, EndSession
  <1>25. CASE AgentCrash
    BY <1>25, ConnAssumption DEF AgentCrash, EndSession
  <1>26. CASE SaaSCrash
    <2>1. run'[c] \in {"none", "gone"}
      BY <1>26 DEF SaaSCrash
    <2> QED
      BY <1>c, <2>1 DEF Handshaking
  <1>27. CASE UNCHANGED vars
    BY <1>27, <1>b DEF vars
  <1> QED
    BY <1>1, <1>2, <1>3, <1>4, <1>5, <1>6, <1>7, <1>8, <1>9, <1>10, <1>11, <1>12, <1>13,
       <1>14, <1>15, <1>16, <1>17, <1>18, <1>19, <1>20, <1>21, <1>22, <1>23, <1>24, <1>25,
       <1>26, <1>27
    DEF Next, Handshake, Lifetime, AutoFreeze, Operator, Agent

-----------------------------------------------------------------------------
\* The inductive invariant holds in every reachable state.
THEOREM Inductive == Spec => [](TypeOK /\ IInv)
  <1>1. Init => TypeOK /\ IInv
    <2> SUFFICES ASSUME Init PROVE IInv
      BY InitType
    <2>1. LiveConnRegistered
      BY DEF Init, LiveConnRegistered, Registered
    <2>2. PushesAgree /\ SentinelAfterKill
      BY DEF Init, PushesAgree, SentinelAfterKill, InFlight
    <2>3. LatchOnItsWay
      BY DEF Init, LatchOnItsWay
    <2> QED
      BY <2>1, <2>2, <2>3 DEF IInv
  <1>2. TypeOK /\ IInv /\ [Next]_vars => (TypeOK /\ IInv)'
    <2> SUFFICES ASSUME TypeOK, IInv, [Next]_vars PROVE (TypeOK /\ IInv)'
      OBVIOUS
    <2>1. TypeOK' /\ LatchOnItsWay'
      BY TypeStep, LatchStep
    <2>2. LiveConnRegistered'
      BY RegistryStep DEF IInv
    <2>3. PushesAgree' /\ SentinelAfterKill'
      BY PushInvStep DEF IInv, PushInv
    <2> QED
      BY <2>1, <2>2, <2>3 DEF IInv
  <1> QED
    BY <1>1, <1>2, PTL DEF Spec

\* A displaced connection that tears down late never unregisters its successor.
THEOREM RegistrySafe == Spec => []LiveConnRegistered
  <1>1. IInv => LiveConnRegistered
    BY DEF IInv
  <1> QED
    BY <1>1, Inductive, PTL

\* The latch reaches the agent: the only gaps are a pending push, a row written
\* during this connection's own handshake, and overlapping opposite pushes.
THEOREM LatchReachesAgent == Spec => []LatchedMeansHalted
  <1>1. TypeOK /\ IInv => LatchedMeansHalted
    <2> SUFFICES ASSUME TypeOK, IInv, latched, Trading, ~overlapped, session \notin late,
                        \A p \in Procs : pc[p] \notin InFlight
                 PROVE  \E i \in DOMAIN down[session] : down[session][i].frozen
      BY DEF LatchedMeansHalted, PushPending
    <2>1. session \in Conns
      BY DEF TypeOK, Trading
    <2>2. Covered(session)
      BY <2>1 DEF IInv, LatchOnItsWay
    <2>3. WillHalt(session)
      BY <2>2 DEF Covered, Trading, IsReady, Pushing
    <2> QED
      BY <2>3 DEF WillHalt, Trading, IsReady
  <1> QED
    BY <1>1, Inductive, PTL

\* Repeats of the auto-freeze are suppressed only while the account is latched,
\* or after a resume that overlapped the freeze.
THEOREM SuppressionSafe == Spec => []SuppressedOnlyWhileLatched
  <1>1. Init => SuppressedOnlyWhileLatched
    BY DEF Init, SuppressedOnlyWhileLatched, killedSentinel
  <1>2. TypeOK /\ IInv /\ SuppressedOnlyWhileLatched /\ [Next]_vars
            => SuppressedOnlyWhileLatched'
    <2> SUFFICES ASSUME TypeOK, IInv, SuppressedOnlyWhileLatched, [Next]_vars,
                        streak' = killedSentinel, ~latched', ~overlapped'
                 PROVE  \E o \in Operators : pc'[o] = "clear"
      BY DEF SuppressedOnlyWhileLatched
    <2> USE DEF latchVars, hubVars, procVars, agentVars
    <2>0. Conns \subseteq Procs /\ Operators \subseteq Procs
      BY ProcsUnion
    <2>a. ASSUME UNCHANGED <<latched, overlapped>>, streak = killedSentinel
          PROVE  \E o \in Operators : pc[o] = "clear"
      BY <2>a DEF SuppressedOnlyWhileLatched
    <2>b. ASSUME UNCHANGED <<latched, overlapped, streak, pc>>
          PROVE  \E o \in Operators : pc'[o] = "clear"
      BY <2>a, <2>b
    <2>c. ASSUME NEW p \in Procs, pc[p] # "clear", NEW s, pc' = [pc EXCEPT ![p] = s],
                 UNCHANGED <<latched, overlapped>>, streak = killedSentinel
          PROVE  \E o \in Operators : pc'[o] = "clear"
      BY <2>0, <2>a, <2>c DEF TypeOK
    <2>d. ASSUME NEW d \in Conns, pc[d] = "idle", Reconcile(d), UNCHANGED <<latched, overlapped>>
          PROVE  \E o \in Operators : pc'[o] = "clear"
      <3>1. CASE UNCHANGED <<streak, pc>>
        BY <2>b, <2>d, <3>1
      <3>2. ASSUME NEW above \in BOOLEAN, NEW s, streak' = nextDriftStreak(above, streak),
                   pc' = [pc EXCEPT ![d] = s]
            PROVE  \E o \in Operators : pc'[o] = "clear"
        <4>1. streak = killedSentinel
          BY <3>2 DEF TypeOK, nextDriftStreak, killedSentinel
        <4> QED
          BY <2>0, <2>c, <2>d, <3>2, <4>1
      <3> QED
        BY <2>d, <3>1, <3>2 DEF Reconcile
    <2>1. ASSUME NEW c \in Conns, Handshake(c) PROVE \E o \in Operators : pc'[o] = "clear"
      <3>1. CASE ReceiveStateSync(c)
        BY <2>d, <3>1 DEF ReceiveStateSync
      <3>2. CASE ~ReceiveStateSync(c)
        BY <2>1, <2>b, <3>2 DEF Handshake, Authenticate, FrozenLookup, SendAuthOK, Register,
                                SendSyncRequest, MarkReady
      <3> QED
        BY <3>1, <3>2
    <2>2. ASSUME NEW c \in Conns, Lifetime(c) PROVE \E o \in Operators : pc'[o] = "clear"
      BY <2>2, <2>b DEF Lifetime, ConnFails, HeartbeatStale, Unregister, AgentDial
    <2>3. ASSUME NEW c \in Conns, AutoFreeze(c) PROVE \E o \in Operators : pc'[o] = "clear"
      <3>1. CASE ReceiveDeltaReport(c)
        BY <2>d, <3>1 DEF ReceiveDeltaReport
      <3>2. CASE AutoLatch(c)
        <4>1. pc' = [pc EXCEPT ![c] = "idle"] /\ UNCHANGED latchVars /\ pc[c] = "latch"
          BY <3>2 DEF AutoLatch, WriteRow
        <4> QED
          BY <2>0, <2>c, <4>1
      <3>3. CASE SetSentinel(c)
        <4>1. pc[c] = "sentinel" /\ UNCHANGED <<latched, overlapped>>
          BY <3>3 DEF SetSentinel
        <4>2. want[c] /\ want[c] = latched
          BY <2>0, <4>1 DEF IInv, PushesAgree, SentinelAfterKill, InFlight
        <4> QED
          BY <4>1, <4>2
      <3> QED
        BY <2>3, <3>1, <3>2, <3>3 DEF AutoFreeze
    <2>4. ASSUME NEW o \in Operators, Operator(o) PROVE \E q \in Operators : pc'[q] = "clear"
      <3>1. CASE KillLatch(o)
        BY <3>1 DEF KillLatch, WriteRow
      <3>2. CASE ResumeLatch(o)
        BY <2>0, <3>2 DEF TypeOK, ResumeLatch
      <3>3. CASE ClearDriftStreak(o)
        BY <3>3 DEF ClearDriftStreak, killedSentinel
      <3> QED
        BY <2>4, <3>1, <3>2, <3>3 DEF Operator
    <2>5. ASSUME NEW p \in Procs, GetTarget(p) \/ Push(p)
          PROVE  \E o \in Operators : pc'[o] = "clear"
      <3>1. PICK s : pc' = [pc EXCEPT ![p] = s]
        BY <2>5 DEF GetTarget, Push, Returns
      <3> QED
        BY <2>5, <2>c, <3>1 DEF GetTarget, Push
    <2>6. CASE Agent
      BY <2>6, <2>b DEF Agent, AgentAuthOK, AgentStateSync, handleKillSwitch, AgentDeltaReport,
                        AgentDisconnect, AgentCrash
    <2>7. CASE SaaSCrash
      BY <2>7 DEF SaaSCrash, killedSentinel
    <2>8. CASE UNCHANGED vars
      BY <2>8, <2>b DEF vars
    <2> QED
      BY <2>1, <2>2, <2>3, <2>4, <2>5, <2>6, <2>7, <2>8 DEF Next
  <1> QED
    BY <1>1, <1>2, Inductive, PTL DEF Spec
-----------------------------------------------------------------------------
\* No step reaches a socket before its dial.
LEMMA UnusedStep ==
    TypeOK /\ UnusedClean /\ [Next]_vars => UnusedClean'
  <1> SUFFICES ASSUME TypeOK, UnusedClean, [Next]_vars, NEW c \in Conns, run'[c] = "none"
               PROVE  session' # c /\ down'[c] = <<>> /\ up'[c] = <<>>
                      /\ \A p \in Procs : target'[p] # c
    BY DEF UnusedClean
  <1> USE DEF latchVars, hubVars, procVars, agentVars
  <1>a. ASSUME run[c] = "none"
        PROVE  session # c /\ down[c] = <<>> /\ up[c] = <<>> /\ \A p \in Procs : target[p] # c
    BY <1>a DEF UnusedClean
  <1>1. ASSUME NEW d \in Conns, Handshake(d)
        PROVE  /\ run[c] = "none" /\ down'[c] = down[c] /\ up'[c] = up[c]
               /\ UNCHANGED <<session, target>>
    <2>1. run' = [run EXCEPT ![d] = run'[d]] /\ run[d] # "none" /\ run'[d] # "none"
      BY <1>1 DEF TypeOK, Handshake, Authenticate, FrozenLookup, SendAuthOK, Register,
                  SendSyncRequest, ReceiveStateSync, MarkReady
    <2>2. c # d /\ run[c] = "none"
      BY <2>1 DEF TypeOK
    <2> QED
      BY <1>1, <2>2 DEF TypeOK, Handshake, Authenticate, FrozenLookup, SendAuthOK, Register,
                  SendSyncRequest, ReceiveStateSync, MarkReady, Queue, Refuse
  <1>2. ASSUME NEW d \in Conns, ConnFails(d) \/ HeartbeatStale(d) \/ Unregister(d)
        PROVE  /\ run[c] = "none" /\ down'[c] = down[c] /\ up'[c] = up[c]
               /\ UNCHANGED <<session, target>>
    BY <1>2 DEF TypeOK, ConnFails, HeartbeatStale, Unregister
  <1>3. ASSUME NEW d \in Conns, AgentDial(d)
        PROVE  run[c] = "none" /\ session' # c /\ UNCHANGED <<down, up, target>>
    BY <1>3 DEF TypeOK, AgentDial
  <1>4. ASSUME NEW d \in Conns, AutoFreeze(d)
        PROVE  /\ run[c] = "none" /\ down'[c] = down[c] /\ up'[c] = up[c]
               /\ UNCHANGED <<session, target>>
    BY <1>4 DEF TypeOK, AutoFreeze, ReceiveDeltaReport, AutoLatch, SetSentinel
  <1>5. ASSUME NEW o \in Operators, Operator(o)
        PROVE  UNCHANGED <<run, down, up, session, target>>
    BY <1>5 DEF Operator, KillLatch, ResumeLatch, ClearDriftStreak
  <1>6. ASSUME NEW p \in Procs, GetTarget(p)
        PROVE  /\ UNCHANGED <<run, down, up, session>>
               /\ \A q \in Procs : target'[q] = c => target[q] = c
    BY <1>6 DEF TypeOK, GetTarget, Reachable, IsReady
  <1>7. ASSUME NEW p \in Procs, Push(p)
        PROVE  /\ UNCHANGED <<run, up, session>> /\ down'[c] = down[c]
               /\ \A q \in Procs : target'[q] # c
    <2>1. UNCHANGED <<run, up, session>> /\ target[p] \in Conns
          /\ target' = [target EXCEPT ![p] = NoConn]
      BY <1>7 DEF TypeOK, Push
    <2>2. \A q \in Procs : target[q] # c
      BY <1>a, <2>1
    <2>3. down'[c] = down[c]
      BY <1>7, <2>1, <2>2 DEF TypeOK, Push, Queue, Refuse
    <2> QED
      BY <2>1, <2>2, <2>3, ConnAssumption DEF TypeOK
  <1>8. ASSUME AgentAuthOK \/ AgentStateSync \/ handleKillSwitch \/ AgentDeltaReport
        PROVE  /\ run[c] = "none" /\ down'[c] = down[c] /\ up'[c] = up[c]
               /\ UNCHANGED <<session, target>>
    <2>1. UNCHANGED <<run, session, target>> /\ session \in Conns
      BY <1>8 DEF TypeOK, AgentAuthOK, AgentStateSync, handleKillSwitch, AgentDeltaReport
    <2>2. session # c
      BY <1>a, <2>1
    <2> QED
      BY <1>8, <2>1, <2>2 DEF TypeOK, AgentAuthOK, AgentStateSync, handleKillSwitch,
                              AgentDeltaReport, Reads
  <1>9. ASSUME AgentDisconnect \/ AgentCrash
        PROVE  /\ UNCHANGED <<run, up, target>> /\ session' = NoConn
               /\ down'[c] = down[c] \/ down'[c] = <<>>
    BY <1>9 DEF AgentDisconnect, AgentCrash, EndSession
  <1>10. CASE SaaSCrash
    <2>1. run[c] = "none"
      BY <1>10 DEF SaaSCrash
    <2> QED
      BY <1>10, <1>a, <2>1, ConnAssumption DEF SaaSCrash
  <1>11. CASE UNCHANGED vars
    BY <1>11, <1>a DEF vars
  <1> QED
    BY <1>a, <1>1, <1>2, <1>3, <1>4, <1>5, <1>6, <1>7, <1>8, <1>9, <1>10, <1>11,
       ConnAssumption DEF Next, Lifetime, Agent

\* Every step keeps the frames on their way to the agent in the order its handshake reads.
LEMMA FrameStep ==
    TypeOK /\ FrameInv /\ [Next]_vars => FrameInv'
  <1> SUFFICES ASSUME TypeOK, FrameInv, [Next]_vars PROVE FrameInv'
    OBVIOUS
  <1> SUFFICES ASSUME NEW c \in Conns, c = session' PROVE FramesInOrder'
    <2>1. UnusedClean'
      BY UnusedStep DEF FrameInv
    <2>2. session' \in Conns \/ session' = NoConn
      BY TypeStep DEF TypeOK
    <2>3. session' = NoConn => FramesInOrder'
      BY DEF FramesInOrder
    <2> QED
      BY <2>1, <2>2, <2>3 DEF FrameInv
  <1> USE DEF latchVars, hubVars, procVars, agentVars
  <1>t. session # NoConn => session \in Conns
    BY DEF TypeOK
  <1>n. c # NoConn
    BY ConnAssumption
  \* Nothing of the session's own connection moves.
  <1>a. ASSUME UNCHANGED <<session, apc>>, run'[c] = run[c], down'[c] = down[c],
               up'[c] = up[c] \/ up'[c] = <<>>,
               \A p \in Procs : target'[p] = c => target[p] = c
        PROVE  FramesInOrder'
    BY <1>a, <1>n DEF FrameInv, FramesInOrder
  \* Its goroutine moves on, to where it says nothing of the frames.
  <1>b. ASSUME UNCHANGED <<session, apc, target>>,
               run'[c] \in {"lookup", "authok", "teardown", "gone"},
               run'[c] \in {"lookup", "authok"} => run[c] \in {"hello", "lookup"},
               down'[c] = down[c], up'[c] = up[c] \/ up'[c] = <<>>
        PROVE  FramesInOrder'
    BY <1>b, <1>n DEF FrameInv, FramesInOrder
  <1>1. ASSUME NEW d \in Conns, Authenticate(d) PROVE FramesInOrder'
    BY <1>1, <1>a, <1>b DEF TypeOK, Authenticate
  <1>2. ASSUME NEW d \in Conns, FrozenLookup(d) PROVE FramesInOrder'
    BY <1>2, <1>a, <1>b DEF TypeOK, FrozenLookup
  <1>3. ASSUME NEW d \in Conns, SendAuthOK(d) PROVE FramesInOrder'
    <2>1. CASE d # c
      BY <1>3, <1>a, <2>1 DEF TypeOK, SendAuthOK, Queue, Refuse
    <2>2. CASE d = c /\ Refuse(d) /\ run' = [run EXCEPT ![d] = "teardown"]
      BY <1>3, <1>b, <2>2 DEF TypeOK, SendAuthOK, Refuse
    <2>3. CASE d = c /\ Queue(d, AuthOK(found[d])) /\ run' = [run EXCEPT ![d] = "register"]
      <3>1. UNCHANGED <<session, apc, target, up>> /\ session = c /\ run[c] = "authok"
            /\ run'[c] = "register"
        BY <1>3, <2>3 DEF TypeOK, SendAuthOK
      <3>2. apc = "auth" /\ down[c] = <<>> /\ up[c] = <<>> /\ \A p \in Procs : target[p] # c
        BY <3>1, <1>n DEF FrameInv, FramesInOrder
      <3>3. down'[c] = <<AuthOK(found[c])>>
        BY <2>3, <3>2 DEF TypeOK, Queue
      <3> QED
        BY <3>1, <3>2, <3>3 DEF FramesInOrder, AuthOK
    <2> QED
      BY <1>3, <2>1, <2>2, <2>3 DEF SendAuthOK
  <1>4. ASSUME NEW d \in Conns, Register(d) PROVE FramesInOrder'
    <2>1. CASE d # c
      BY <1>4, <1>a, <2>1 DEF TypeOK, Register
    <2>2. CASE d = c
      <3>1. UNCHANGED <<session, apc, target, up, down>> /\ session = c /\ run[c] = "register"
            /\ run'[c] = "syncreq"
        BY <1>4, <2>2 DEF TypeOK, Register
      <3> QED
        BY <3>1, <1>n DEF FrameInv, FramesInOrder
    <2> QED
      BY <2>1, <2>2
  <1>5. ASSUME NEW d \in Conns, SendSyncRequest(d) PROVE FramesInOrder'
    <2>1. CASE d # c
      BY <1>5, <1>a, <2>1 DEF TypeOK, SendSyncRequest, Queue, Refuse
    <2>2. CASE d = c /\ Refuse(d) /\ run' = [run EXCEPT ![d] = "teardown"]
      BY <1>5, <1>b, <2>2 DEF TypeOK, SendSyncRequest, Refuse
    <2>3. CASE d = c /\ Queue(d, SyncRequest) /\ run' = [run EXCEPT ![d] = "sync"]
      <3>1. UNCHANGED <<session, apc, target, up>> /\ session = c /\ run[c] = "syncreq"
            /\ run'[c] = "sync"
        BY <1>5, <2>3 DEF TypeOK, SendSyncRequest
      <3>2. /\ (apc = "auth" /\ Len(down[c]) = 1 /\ down[c][1].type = "auth_ok")
               \/ (apc = "sync" /\ down[c] = <<>>)
            /\ up[c] = <<>> /\ \A p \in Procs : target[p] # c
        BY <3>1, <1>n DEF FrameInv, FramesInOrder
      <3>3. down'[c] = Append(down[c], SyncRequest) /\ down[c] \in Seq(Frames)
            /\ SyncRequest \in Frames /\ SyncRequest.type = "state_sync_request"
        BY <2>3 DEF TypeOK, Queue, SyncRequest, Frames
      <3>4. CASE apc = "auth" /\ Len(down[c]) = 1 /\ down[c][1].type = "auth_ok"
        <4>1. Len(down'[c]) = 2 /\ down'[c][1] = down[c][1] /\ down'[c][2] = SyncRequest
          BY <3>3, <3>4
        <4> QED
          BY <3>1, <3>2, <3>3, <3>4, <4>1 DEF FramesInOrder
      <3>5. CASE apc = "sync" /\ down[c] = <<>>
        <4>1. Len(down'[c]) = 1 /\ down'[c][1] = SyncRequest
          BY <3>3, <3>5
        <4> QED
          BY <3>1, <3>2, <3>3, <3>5, <4>1 DEF FramesInOrder
      <3> QED
        BY <3>2, <3>4, <3>5
    <2> QED
      BY <1>5, <2>1, <2>2, <2>3 DEF SendSyncRequest
  \* The answer to the request shows that the agent has left its handshake.
  <1>6. ASSUME NEW d \in Conns, ReceiveStateSync(d) PROVE FramesInOrder'
    <2>1. CASE d # c
      BY <1>6, <1>a, <2>1 DEF TypeOK, ReceiveStateSync
    <2>2. CASE d = c
      <3>1. UNCHANGED <<session, apc, target, down>> /\ session = c /\ up[c] # <<>>
            /\ run'[c] = "markready" /\ apc \in {"auth", "sync", "running"}
        BY <1>6, <1>n, <2>2 DEF TypeOK, ReceiveStateSync
      <3>2. apc = "running"
        BY <3>1, <1>n DEF FrameInv, FramesInOrder
      <3> QED
        BY <3>1, <3>2, <1>n DEF FrameInv, FramesInOrder
    <2> QED
      BY <2>1, <2>2
  <1>7. ASSUME NEW d \in Conns, MarkReady(d) PROVE FramesInOrder'
    <2>1. CASE d # c
      BY <1>7, <1>a, <2>1 DEF TypeOK, MarkReady
    <2>2. CASE d = c
      <3>1. UNCHANGED <<session, apc, target, down, up>> /\ session = c
            /\ run[c] = "markready" /\ run'[c] = "pump"
        BY <1>7, <2>2 DEF TypeOK, MarkReady
      <3> QED
        BY <3>1, <1>n DEF FrameInv, FramesInOrder
    <2> QED
      BY <2>1, <2>2
  <1>8. ASSUME NEW d \in Conns, ConnFails(d) \/ HeartbeatStale(d) \/ Unregister(d)
        PROVE  FramesInOrder'
    BY <1>8, <1>a, <1>b DEF TypeOK, ConnFails, HeartbeatStale, Unregister
  <1>9. ASSUME NEW d \in Conns, AgentDial(d) PROVE FramesInOrder'
    <2>1. run[d] = "none" /\ session' = d /\ apc' = "auth" /\ run'[d] = "hello"
          /\ UNCHANGED <<down, up, target>>
      BY <1>9 DEF TypeOK, AgentDial
    <2>2. down[d] = <<>> /\ up[d] = <<>> /\ \A p \in Procs : target[p] # d
      BY <2>1 DEF FrameInv, UnusedClean
    <2> QED
      BY <2>1, <2>2 DEF FramesInOrder
  <1>10. ASSUME NEW d \in Conns, ReceiveDeltaReport(d) PROVE FramesInOrder'
    <2>1. CASE d # c
      BY <1>10, <1>a, <2>1 DEF TypeOK, ReceiveDeltaReport
    <2>2. CASE d = c
      <3>1. UNCHANGED <<session, apc, target, down, run>> /\ session = c
            /\ run[c] = "pump"
        BY <1>10, <2>2 DEF ReceiveDeltaReport
      <3> QED
        BY <3>1, <1>n DEF FrameInv, FramesInOrder
    <2> QED
      BY <2>1, <2>2
  <1>11. ASSUME NEW d \in Conns, AutoLatch(d) \/ SetSentinel(d) PROVE FramesInOrder'
    BY <1>11, <1>a DEF AutoLatch, SetSentinel
  <1>12. ASSUME NEW o \in Operators, Operator(o) PROVE FramesInOrder'
    BY <1>12, <1>a DEF Operator, KillLatch, ResumeLatch, ClearDriftStreak
  \* The Ready test: a push aims at a connection only once its handshake is over.
  <1>13. ASSUME NEW p \in Procs, GetTarget(p) PROVE FramesInOrder'
    <2>1. UNCHANGED <<session, apc, run, down, up>>
      BY <1>13 DEF GetTarget
    <2>2. CASE UNCHANGED target
      BY <1>a, <2>1, <2>2
    <2>3. CASE Reachable /\ target' = [target EXCEPT ![p] = registry]
      <3>1. CASE registry # c
        BY <1>a, <2>1, <2>3, <3>1 DEF TypeOK
      <3>2. CASE registry = c
        <4>1. run[c] = "pump" /\ session = c
          BY <2>1, <2>3, <3>2 DEF Reachable, IsReady
        <4> QED
          BY <2>1, <4>1, <1>n DEF FrameInv, FramesInOrder
      <3> QED
        BY <3>1, <3>2
    <2> QED
      BY <1>13, <2>2, <2>3 DEF GetTarget
  <1>14. ASSUME NEW p \in Procs, Push(p) PROVE FramesInOrder'
    <2>1. UNCHANGED <<session, apc, run, up>> /\ target[p] \in Conns
          /\ target' = [target EXCEPT ![p] = NoConn]
      BY <1>14 DEF TypeOK, Push
    <2>2. \A q \in Procs : target'[q] = c => target[q] = c
      BY <2>1, <1>n DEF TypeOK
    <2>3. CASE down'[c] = down[c]
      BY <1>a, <2>1, <2>2, <2>3
    <2>4. CASE target[p] = c /\ Queue(c, KillFrame(want[p]))
      <3>1. session = c /\ apc \in {"auth", "sync", "running"}
        BY <1>n, <2>1 DEF TypeOK
      <3>2. apc = "running" /\ \A i \in DOMAIN down[c] : down[c][i].type = "kill_switch"
        BY <1>n, <2>4, <3>1 DEF FrameInv, FramesInOrder
      <3>3. down'[c] = Append(down[c], KillFrame(want[p])) /\ down[c] \in Seq(Frames)
            /\ KillFrame(want[p]) \in Frames /\ KillFrame(want[p]).type = "kill_switch"
        BY <2>4 DEF TypeOK, Queue, KillFrame, Frames
      <3>4. \A i \in DOMAIN down'[c] : down'[c][i].type = "kill_switch"
        BY <3>2, <3>3
      <3>5. run[c] \notin {"hello", "lookup", "authok", "register", "syncreq"}
        BY <1>n, <3>1, <3>2 DEF FrameInv, FramesInOrder
      <3> QED
        BY <2>1, <3>1, <3>2, <3>4, <3>5 DEF FramesInOrder
    <2>5. CASE target[p] # c \/ Refuse(target[p])
      <3>1. down'[c] = down[c]
        BY <1>14, <2>1, <2>5 DEF TypeOK, Push, Queue, Refuse
      <3> QED
        BY <2>3, <3>1
    <2> QED
      BY <1>14, <2>4, <2>5 DEF Push
  \* Reading a frame drops the head of the session's queue.
  <1>r. ASSUME NEW t, Reads(t), UNCHANGED session
        PROVE  /\ session = c /\ down[c] \in Seq(Frames) /\ down[c] # <<>> /\ Len(down[c]) >= 1
               /\ down[c][1].type = t /\ down'[c] = Tail(down[c])
               /\ Len(down'[c]) = Len(down[c]) - 1
               /\ \A i \in DOMAIN down'[c] : i + 1 \in DOMAIN down[c]
                                             /\ down'[c][i] = down[c][i + 1]
    <2>1. session = c /\ down[c] \in Seq(Frames) /\ down[c] # <<>>
          /\ Head(down[c]).type = t /\ down'[c] = Tail(down[c])
      BY <1>r DEF TypeOK, Reads
    <2> QED
      BY <2>1
  <1>15. CASE AgentAuthOK
    <2>1. UNCHANGED <<session, run, up, target>> /\ apc = "auth" /\ apc' = "sync"
          /\ Reads("auth_ok")
      BY <1>15 DEF AgentAuthOK
    <2>2. session = c /\ down'[c] = Tail(down[c]) /\ Len(down'[c]) = Len(down[c]) - 1
          /\ \A i \in DOMAIN down'[c] : down'[c][i] = down[c][i + 1]
          /\ down[c] \in Seq(Frames) /\ down[c] # <<>>
      BY <1>r, <2>1
    <2>3. /\ run[c] \notin {"hello", "lookup", "authok", "markready", "pump"}
          /\ run[c] \in {"register", "syncreq"} => Len(down[c]) = 1
          /\ Len(down[c]) <= 2 /\ (Len(down[c]) = 2 => down[c][2].type = "state_sync_request")
          /\ up[c] = <<>> /\ \A p \in Procs : target[p] # c
      BY <1>n, <2>1, <2>2 DEF FrameInv, FramesInOrder
    <2>4. /\ Len(down'[c]) <= 1
          /\ Len(down'[c]) = 1 => down'[c][1].type = "state_sync_request"
          /\ run[c] \in {"register", "syncreq"} => down'[c] = <<>>
      BY <2>2, <2>3
    <2> QED
      BY <2>1, <2>2, <2>3, <2>4 DEF FramesInOrder
  <1>16. CASE AgentStateSync
    <2>1. UNCHANGED <<session, run, target>> /\ apc = "sync" /\ apc' = "running"
          /\ Reads("state_sync_request")
      BY <1>16 DEF AgentStateSync
    <2>2. session = c /\ down'[c] = Tail(down[c]) /\ down[c] \in Seq(Frames) /\ down[c] # <<>>
      BY <1>r, <2>1
    <2>3. run[c] \notin {"hello", "lookup", "authok", "register", "syncreq"} /\ Len(down[c]) <= 1
      BY <1>n, <2>1, <2>2 DEF FrameInv, FramesInOrder
    <2>4. down'[c] = <<>>
      BY <2>2, <2>3
    <2> QED
      BY <2>1, <2>2, <2>3, <2>4 DEF FramesInOrder
  <1>17. CASE handleKillSwitch
    <2>1. UNCHANGED <<session, run, target>> /\ apc = "running" /\ apc' = "running"
          /\ Reads("kill_switch")
      BY <1>17 DEF handleKillSwitch
    <2>2. session = c /\ \A i \in DOMAIN down'[c] : i + 1 \in DOMAIN down[c]
                                                    /\ down'[c][i] = down[c][i + 1]
      BY <1>r, <2>1
    <2>3. /\ run[c] \notin {"hello", "lookup", "authok", "register", "syncreq"}
          /\ \A i \in DOMAIN down[c] : down[c][i].type = "kill_switch"
      BY <1>n, <2>1, <2>2 DEF FrameInv, FramesInOrder
    <2> QED
      BY <2>1, <2>2, <2>3 DEF FramesInOrder
  <1>18. CASE AgentDeltaReport
    <2>1. UNCHANGED <<session, apc, run, down, target>> /\ apc = "running"
      BY <1>18 DEF AgentDeltaReport
    <2> QED
      BY <1>n, <2>1 DEF FrameInv, FramesInOrder
  <1>19. ASSUME AgentDisconnect \/ AgentCrash PROVE FALSE
    BY <1>19, <1>n DEF AgentDisconnect, AgentCrash, EndSession
  <1>20. CASE SaaSCrash
    <2>1. UNCHANGED <<session, apc, down>> /\ up'[c] = <<>> /\ session = c
          /\ \A p \in Procs : target'[p] # c
      BY <1>20, <1>n DEF SaaSCrash
    <2>2. run'[c] = "gone"
      BY <1>20, <2>1 DEF SaaSCrash, FrameInv, UnusedClean
    <2> QED
      BY <1>n, <2>1, <2>2 DEF FrameInv, FramesInOrder
  <1>21. CASE UNCHANGED vars
    BY <1>21, <1>a DEF vars
  <1> QED
    BY <1>1, <1>2, <1>3, <1>4, <1>5, <1>6, <1>7, <1>8, <1>9, <1>10, <1>11, <1>12, <1>13,
       <1>14, <1>15, <1>16, <1>17, <1>18, <1>19, <1>20, <1>21
    DEF Next, Handshake, Lifetime, AutoFreeze, Agent

\* The agent's handshake never meets a frame it does not expect: auth_ok, then the sync
\* request, and a pushed kill_switch only once the agent has left its handshake.
THEOREM FrameOrder == Spec => []HandshakeFrameOrder
  <1>1. Init => FrameInv
    BY ConnAssumption DEF Init, FrameInv, UnusedClean, FramesInOrder
  <1>2. TypeOK /\ FrameInv => HandshakeFrameOrder
    <2> SUFFICES ASSUME TypeOK, FrameInv, session # NoConn, down[session] # <<>>
                 PROVE  /\ apc = "auth" => Head(down[session]).type = "auth_ok"
                        /\ apc = "sync" => Head(down[session]).type = "state_sync_request"
                        /\ apc = "running" => Head(down[session]).type = "kill_switch"
      BY DEF HandshakeFrameOrder
    <2>1. down[session] \in Seq(Frames)
      BY DEF TypeOK
    <2>2. Len(down[session]) >= 1 /\ Head(down[session]) = down[session][1]
          /\ 1 \in DOMAIN down[session]
      BY <2>1
    <2>3. ASSUME apc = "sync" PROVE Len(down[session]) = 1
      <3>1. Len(down[session]) <= 1
        BY <2>3 DEF FrameInv, FramesInOrder
      <3>2. ASSUME NEW n \in Nat, n >= 1, n <= 1 PROVE n = 1
        BY <3>2
      <3>3. Len(down[session]) \in Nat
        BY <2>1
      <3> QED
        BY <2>2, <3>1, <3>2, <3>3
    <2>4. apc = "running" => down[session][1].type = "kill_switch"
      BY <2>2 DEF FrameInv, FramesInOrder
    <2>5. apc = "auth" => down[session][1].type = "auth_ok"
      BY <2>2 DEF FrameInv, FramesInOrder
    <2>6. apc = "sync" => down[session][1].type = "state_sync_request"
      BY <2>3 DEF FrameInv, FramesInOrder
    <2> QED
      BY <2>2, <2>4, <2>5, <2>6
  <1> QED
    BY <1>1, <1>2, FrameStep, TypeCorrect, PTL DEF Spec
=============================================================================
