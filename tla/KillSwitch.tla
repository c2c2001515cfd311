----------------------------- MODULE KillSwitch -----------------------------
(***************************************************************************)
(* The kill switch of one trading account.                                 *)
(*                                                                         *)
(* The durable latch is the latest kill/resume row of the audit table. It  *)
(* reaches the agent on two paths: the WebSocket handshake reads it and    *)
(* carries it in auth_ok, and the process that wrote the row pushes a      *)
(* kill_switch frame to the account's registered connection when that is   *)
(* Ready. Rows are written by operators (HTTP kill and resume requests)    *)
(* and by the reconciliation of an agent's report, on the connection that  *)
(* received it. Accounts share no state here, so one account is modelled.  *)
(***************************************************************************)
EXTENDS Integers, Sequences

CONSTANTS
    Conns,      \* identities of upgraded sockets, each used once
    Operators,  \* concurrent HTTP kill/resume requests
    NoConn,     \* "no connection": nil in the registry and in the client
    Debounce,   \* freezeDebounceReports
    OutboxCap,  \* capacity of Connection.outbox
    MaxRows,    \* bound: audit rows written
    MaxReports, \* bound: delta_reports the agent sends
    MaxFaults   \* bound: process crashes of the SaaS and of the agent

ASSUME DebounceAssumption == Debounce \in Nat \ {0}
ASSUME CapAssumption == OutboxCap \in Nat \ {0}
ASSUME ConnAssumption == NoConn \notin Conns
ASSUME ProcAssumption == Conns \cap Operators = {}
ASSUME BoundAssumption == MaxRows \in Nat /\ MaxReports \in Nat /\ MaxFaults \in Nat

VARIABLES
    latched,    \* the latest kill/resume audit row is a kill
    streak,     \* agentMessageHandler.driftStreak[account]
    run,        \* run[c]: where the goroutine of connection c stands
    closed,     \* closed[c]: Connection.closeCh is closed
    found,      \* found[c]: doHandshake's local `frozen`
    registry,   \* Registry.conns[account]
    down,       \* down[c]: frames to the agent not yet read (outbox and socket)
    up,         \* up[c]: frames to the SaaS not yet read
    pc,         \* pc[p]: where a kill or resume stands
    want,       \* want[p]: the latch value p wrote (TRUE for kill)
    target,     \* target[p]: the connection p looked up for its push
    session,    \* Client.conn
    apc,        \* where the agent's session stands
    frozen,     \* Client.frozen
    overlapped, \* history: the latest row was written while an opposite push was pending
    late,       \* history: connections that were mid-handshake when the latest row was written
    rows, reports, faults

latchVars == <<latched, streak, overlapped, late, rows>>
hubVars == <<run, closed, found, registry>>
procVars == <<pc, want, target>>
agentVars == <<session, apc, frozen>>
vars == <<latchVars, hubVars, procVars, agentVars, down, up, reports, faults>>

Procs == Operators \cup Conns

killedSentinel == -1

RunStates == {"none", "hello", "lookup", "authok", "register", "syncreq", "sync",
              "markready", "pump", "teardown", "gone"}

PcStates == {"idle", "latch", "clear", "sentinel", "get", "send"}

\* After its audit row and before the end of its push.
InFlight == {"clear", "sentinel", "get", "send"}

AuthOK(f) == [type |-> "auth_ok", frozen |-> f]
SyncRequest == [type |-> "state_sync_request", frozen |-> FALSE]
KillFrame(f) == [type |-> "kill_switch", frozen |-> f]

Frames == [type : {"auth_ok", "state_sync_request", "kill_switch"}, frozen : BOOLEAN]

Replies == {"state_sync_response", "delta_report"}

Init ==
    /\ latched = FALSE
    /\ streak = 0
    /\ run = [c \in Conns |-> "none"]
    /\ closed = [c \in Conns |-> FALSE]
    /\ found = [c \in Conns |-> FALSE]
    /\ registry = NoConn
    /\ down = [c \in Conns |-> <<>>]
    /\ up = [c \in Conns |-> <<>>]
    /\ pc = [p \in Procs |-> "idle"]
    /\ want = [p \in Procs |-> FALSE]
    /\ target = [p \in Procs |-> NoConn]
    /\ session = NoConn
    /\ apc = "backoff"
    /\ frozen = FALSE
    /\ overlapped = FALSE
    /\ late = {}
    /\ rows = 0
    /\ reports = 0
    /\ faults = 0

-----------------------------------------------------------------------------
(***************************************************************************)
(* The connection as a channel.                                            *)
(***************************************************************************)

MutAccepts(c) == ~closed[c]

Accepts(c) == ~closed[c] /\ Len(down[c]) < OutboxCap

\* SendFrame: queued, or refused because the connection is closed or because a
\* full outbox closes it.
Queue(c, f) ==
    /\ Accepts(c)
    /\ down' = [down EXCEPT ![c] = Append(@, f)]
    /\ UNCHANGED closed

Refuse(c) ==
    /\ ~Accepts(c)
    /\ closed' = [closed EXCEPT ![c] = TRUE]
    /\ UNCHANGED down

\* The phase is Ready once the handshake goroutine has stored it. A Close before
\* that is overwritten by the store, a Close after it is seen again by SendFrame:
\* either way a closed connection refuses the frame.
MutIsReady(c) == run[c] \in {"syncreq", "sync", "markready", "pump"}

IsReady(c) == run[c] = "pump"

-----------------------------------------------------------------------------
(***************************************************************************)
(* The handshake of a connection, as its goroutine runs it.                *)
(***************************************************************************)

\* hello, auth_required and auth exchanged and the token verified. Nothing
\* shared is touched before the lookup; a refusal is ConnFails.
Authenticate(c) ==
    /\ run[c] = "hello"
    /\ run' = [run EXCEPT ![c] = "lookup"]
    /\ UNCHANGED <<latchVars, closed, found, registry, procVars, agentVars,
                   down, up, reports, faults>>

MutFrozenLookup(c) ==
    /\ run[c] = "lookup"
    /\ \E err \in BOOLEAN : found' = [found EXCEPT ![c] = latched /\ ~err]
    /\ run' = [run EXCEPT ![c] = "authok"]
    /\ UNCHANGED <<latchVars, closed, registry, procVars, agentVars,
                   down, up, reports, faults>>

\* A store error counts as frozen.
FrozenLookup(c) ==
    /\ run[c] = "lookup"
    /\ \E err \in BOOLEAN : found' = [found EXCEPT ![c] = latched \/ err]
    /\ run' = [run EXCEPT ![c] = "authok"]
    /\ UNCHANGED <<latchVars, closed, registry, procVars, agentVars,
                   down, up, reports, faults>>

SendAuthOK(c) ==
    /\ run[c] = "authok"
    /\ \/ /\ Queue(c, AuthOK(found[c]))
          /\ run' = [run EXCEPT ![c] = "register"]
       \/ /\ Refuse(c)
          /\ run' = [run EXCEPT ![c] = "teardown"]
    /\ found' = [found EXCEPT ![c] = FALSE]
    /\ UNCHANGED <<latchVars, registry, procVars, agentVars, up, reports, faults>>

\* The connection it replaces is closed under the registry's lock.
Register(c) ==
    /\ run[c] = "register"
    /\ closed' = [d \in Conns |-> closed[d] \/ d = registry]
    /\ registry' = c
    /\ run' = [run EXCEPT ![c] = "syncreq"]
    /\ UNCHANGED <<latchVars, found, procVars, agentVars, down, up, reports, faults>>

SendSyncRequest(c) ==
    /\ run[c] = "syncreq"
    /\ \/ /\ Queue(c, SyncRequest)
          /\ run' = [run EXCEPT ![c] = "sync"]
       \/ /\ Refuse(c)
          /\ run' = [run EXCEPT ![c] = "teardown"]
    /\ UNCHANGED <<latchVars, found, registry, procVars, agentVars, up, reports, faults>>

\* Unconditional: the hook's error is ignored and closeCh is not consulted.
MarkReady(c) ==
    /\ run[c] = "markready"
    /\ pc[c] = "idle"
    /\ run' = [run EXCEPT ![c] = "pump"]
    /\ UNCHANGED <<latchVars, closed, found, registry, procVars, agentVars,
                   down, up, reports, faults>>

\* A rejected or timed-out handshake, a read error, or the read pump seeing closeCh.
ConnFails(c) ==
    /\ run[c] \in {"hello", "sync", "pump"}
    /\ pc[c] = "idle"
    /\ closed' = [closed EXCEPT ![c] = TRUE]
    /\ run' = [run EXCEPT ![c] = "teardown"]
    /\ UNCHANGED <<latchVars, found, registry, procVars, agentVars,
                   down, up, reports, faults>>

\* The heartbeat goroutine gives up on the agent, whatever the read pump does.
HeartbeatStale(c) ==
    /\ run[c] = "pump"
    /\ closed' = [closed EXCEPT ![c] = TRUE]
    /\ UNCHANGED <<latchVars, run, found, registry, procVars, agentVars,
                   down, up, reports, faults>>

MutUnregister(c) ==
    /\ run[c] = "teardown"
    /\ registry' = NoConn
    /\ run' = [run EXCEPT ![c] = "gone"]
    /\ up' = [up EXCEPT ![c] = <<>>]
    /\ UNCHANGED <<latchVars, closed, found, procVars, agentVars, down, reports, faults>>

\* The socket is closed; no-op on the registry when a reconnect has already replaced c.
Unregister(c) ==
    /\ run[c] = "teardown"
    /\ registry' = IF registry = c THEN NoConn ELSE registry
    /\ run' = [run EXCEPT ![c] = "gone"]
    /\ up' = [up EXCEPT ![c] = <<>>]
    /\ UNCHANGED <<latchVars, closed, found, procVars, agentVars, down, reports, faults>>

-----------------------------------------------------------------------------
(***************************************************************************)
(* Writing the latch and pushing it.                                       *)
(***************************************************************************)

\* Past its own lookup and not yet Ready: what is written now is in neither its
\* auth_ok nor a push it can accept.
Handshaking(c) == run[c] \in {"authok", "register", "syncreq", "sync", "markready"}

\* One audit row: the latest row decides IsAccountFrozen.
WriteRow(p, value) ==
    /\ rows < MaxRows
    /\ rows' = rows + 1
    /\ latched' = value
    /\ want' = [want EXCEPT ![p] = value]
    /\ overlapped' = (\E q \in Procs \ {p} : pc[q] \in InFlight /\ want[q] # value)
    /\ late' = {c \in Conns : Handshaking(c)}

\* hubInstanceKiller.Kill: the row first; an insert error changes nothing.
KillLatch(o) ==
    /\ pc[o] = "idle"
    /\ WriteRow(o, TRUE)
    /\ pc' = [pc EXCEPT ![o] = "get"]
    /\ UNCHANGED <<streak, hubVars, target, agentVars, down, up, reports, faults>>

\* hubInstanceResumer.Resume: the row, then the streak, then the push.
MutResumeLatch(o) ==
    /\ pc[o] = "idle"
    /\ WriteRow(o, FALSE)
    /\ pc' = [pc EXCEPT ![o] = "get"]
    /\ UNCHANGED <<streak, hubVars, target, agentVars, down, up, reports, faults>>

ResumeLatch(o) ==
    /\ pc[o] = "idle"
    /\ WriteRow(o, FALSE)
    /\ pc' = [pc EXCEPT ![o] = "clear"]
    /\ UNCHANGED <<streak, hubVars, target, agentVars, down, up, reports, faults>>

ClearDriftStreak(o) ==
    /\ pc[o] = "clear"
    /\ streak' = 0
    /\ pc' = [pc EXCEPT ![o] = "get"]
    /\ UNCHANGED <<latched, overlapped, late, rows, hubVars, want, target, agentVars,
                   down, up, reports, faults>>

\* The call ends, and its locals with it.
Returns(p) ==
    /\ pc' = [pc EXCEPT ![p] = "idle"]
    /\ want' = [want EXCEPT ![p] = FALSE]

Reachable == registry # NoConn /\ IsReady(registry)

\* SendKillSwitch, first half: registry.Get and IsReady.
GetTarget(p) ==
    /\ pc[p] = "get"
    /\ \/ /\ Reachable
          /\ target' = [target EXCEPT ![p] = registry]
          /\ pc' = [pc EXCEPT ![p] = "send"]
          /\ UNCHANGED want
       \/ /\ ~Reachable
          /\ Returns(p)
          /\ UNCHANGED target
    /\ UNCHANGED <<latchVars, hubVars, agentVars, down, up, reports, faults>>

\* SendKillSwitch, second half: SendFrame on the connection found before.
Push(p) ==
    /\ pc[p] = "send"
    /\ Queue(target[p], KillFrame(want[p])) \/ Refuse(target[p])
    /\ Returns(p)
    /\ target' = [target EXCEPT ![p] = NoConn]
    /\ UNCHANGED <<latchVars, run, found, registry, agentVars, up, reports, faults>>

-----------------------------------------------------------------------------
(***************************************************************************)
(* Reports and the auto-freeze.                                            *)
(***************************************************************************)

nextDriftStreak(above, prev) ==
    IF ~above THEN 0
    ELSE IF prev < 0 THEN prev
    ELSE prev + 1

\* The handler of one report, up to the debounce test. `above` is the outcome of
\* the reconciliation: flagged drift of a managed asset reaches the freeze line.
\* The other outcome of a report, no baseline to compare with, touches no streak.
Reconcile(c) ==
    \/ \E above \in BOOLEAN :
        LET next == nextDriftStreak(above, streak) IN
        /\ streak' = next
        /\ pc' = [pc EXCEPT ![c] = IF next >= Debounce THEN "latch" ELSE "idle"]
    \/ UNCHANGED <<streak, pc>>

\* handleStateSync runs inside doHandshake, before the Ready phase is stored.
ReceiveStateSync(c) ==
    /\ run[c] = "sync"
    /\ pc[c] = "idle"
    /\ up[c] # <<>>
    /\ up' = [up EXCEPT ![c] = Tail(@)]
    /\ run' = [run EXCEPT ![c] = "markready"]
    /\ Reconcile(c)
    /\ UNCHANGED <<latched, overlapped, late, rows, closed, found, registry, want, target,
                   agentVars, down, reports, faults>>

ReceiveDeltaReport(c) ==
    /\ run[c] = "pump"
    /\ pc[c] = "idle"
    /\ up[c] # <<>>
    /\ up' = [up EXCEPT ![c] = Tail(@)]
    /\ Reconcile(c)
    /\ UNCHANGED <<latched, overlapped, late, rows, hubVars, want, target, agentVars,
                   down, reports, faults>>

\* recordKillAudit; when the insert fails the streak stays armed.
AutoLatch(c) ==
    /\ pc[c] = "latch"
    /\ \/ /\ WriteRow(c, TRUE)
          /\ pc' = [pc EXCEPT ![c] = "sentinel"]
          /\ UNCHANGED streak
       \/ /\ pc' = [pc EXCEPT ![c] = "idle"]
          /\ UNCHANGED <<latchVars, want>>
    /\ UNCHANGED <<hubVars, target, agentVars, down, up, reports, faults>>

SetSentinel(c) ==
    /\ pc[c] = "sentinel"
    /\ streak' = killedSentinel
    /\ pc' = [pc EXCEPT ![c] = "get"]
    /\ UNCHANGED <<latched, overlapped, late, rows, hubVars, want, target, agentVars,
                   down, up, reports, faults>>

-----------------------------------------------------------------------------
(***************************************************************************)
(* The agent.                                                              *)
(***************************************************************************)

AgentDial(c) ==
    /\ apc = "backoff"
    /\ run[c] = "none"
    /\ session' = c
    /\ apc' = "auth"
    /\ run' = [run EXCEPT ![c] = "hello"]
    /\ UNCHANGED <<latchVars, closed, found, registry, procVars, frozen,
                   down, up, reports, faults>>

Reads(type) ==
    /\ session # NoConn
    /\ down[session] # <<>>
    /\ Head(down[session]).type = type
    /\ down' = [down EXCEPT ![session] = Tail(@)]

AgentAuthOK ==
    /\ apc = "auth"
    /\ Reads("auth_ok")
    /\ frozen' = Head(down[session]).frozen
    /\ apc' = "sync"
    /\ UNCHANGED <<latchVars, hubVars, procVars, session, up, reports, faults>>

AgentStateSync ==
    /\ apc = "sync"
    /\ Reads("state_sync_request")
    /\ up' = [up EXCEPT ![session] = Append(@, "state_sync_response")]
    /\ apc' = "running"
    /\ UNCHANGED <<latchVars, hubVars, procVars, session, frozen, reports, faults>>

\* The ack it answers with moves neither the latch nor the streak.
handleKillSwitch ==
    /\ apc = "running"
    /\ Reads("kill_switch")
    /\ frozen' = Head(down[session]).frozen
    /\ UNCHANGED <<latchVars, hubVars, procVars, session, apc, up, reports, faults>>

AgentDeltaReport ==
    /\ apc = "running"
    /\ reports < MaxReports
    /\ reports' = reports + 1
    /\ up' = [up EXCEPT ![session] = Append(@, "delta_report")]
    /\ UNCHANGED <<latchVars, hubVars, procVars, agentVars, down, faults>>

\* The socket is closed: what it had not read is lost.
EndSession ==
    /\ session' = NoConn
    /\ apc' = "backoff"
    /\ down' = [c \in Conns |-> IF c = session THEN <<>> ELSE down[c]]

\* Any read or write error, or an unexpected frame: the session ends, the latch stays.
AgentDisconnect ==
    /\ apc # "backoff"
    /\ EndSession
    /\ UNCHANGED <<latchVars, hubVars, procVars, frozen, up, reports, faults>>

\* The in-memory latch is lost with the process.
AgentCrash ==
    /\ faults < MaxFaults
    /\ faults' = faults + 1
    /\ EndSession
    /\ frozen' = FALSE
    /\ UNCHANGED <<latchVars, hubVars, procVars, up, reports>>

\* Every goroutine and every in-memory map of the SaaS is lost; the rows stay.
SaaSCrash ==
    /\ faults < MaxFaults
    /\ faults' = faults + 1
    /\ streak' = 0
    /\ registry' = NoConn
    /\ run' = [c \in Conns |-> IF run[c] = "none" THEN "none" ELSE "gone"]
    /\ closed' = [c \in Conns |-> run[c] # "none"]
    /\ pc' = [p \in Procs |-> "idle"]
    /\ want' = [p \in Procs |-> FALSE]
    /\ target' = [p \in Procs |-> NoConn]
    /\ found' = [c \in Conns |-> FALSE]
    /\ up' = [c \in Conns |-> <<>>]
    /\ UNCHANGED <<latched, overlapped, late, rows, agentVars, down, reports>>

-----------------------------------------------------------------------------
Handshake(c) ==
    \/ Authenticate(c) \/ FrozenLookup(c) \/ SendAuthOK(c) \/ Register(c)
    \/ SendSyncRequest(c) \/ ReceiveStateSync(c) \/ MarkReady(c)

Lifetime(c) == ConnFails(c) \/ HeartbeatStale(c) \/ Unregister(c) \/ AgentDial(c)

AutoFreeze(c) == ReceiveDeltaReport(c) \/ AutoLatch(c) \/ SetSentinel(c)

Operator(o) == KillLatch(o) \/ ResumeLatch(o) \/ ClearDriftStreak(o)

Agent == AgentAuthOK \/ AgentStateSync \/ handleKillSwitch \/ AgentDeltaReport
         \/ AgentDisconnect \/ AgentCrash

Next ==
    \/ \E c \in Conns : Handshake(c) \/ Lifetime(c) \/ AutoFreeze(c)
    \/ \E o \in Operators : Operator(o)
    \/ \E p \in Procs : GetTarget(p) \/ Push(p)
    \/ Agent
    \/ SaaSCrash

Spec == Init /\ [][Next]_vars

-----------------------------------------------------------------------------
(***************************************************************************)
(* Properties.                                                             *)
(***************************************************************************)

\* The types of the state. No outbox exceeds its capacity, a push has a target, and
\* the agent has a connection exactly when it is not backing off.
TypeOK ==
    /\ latched \in BOOLEAN /\ overlapped \in BOOLEAN /\ late \subseteq Conns
    /\ streak \in Int /\ streak >= killedSentinel
    /\ run \in [Conns -> RunStates]
    /\ closed \in [Conns -> BOOLEAN] /\ found \in [Conns -> BOOLEAN]
    /\ registry \in Conns \cup {NoConn}
    /\ down \in [Conns -> Seq(Frames)] /\ \A c \in Conns : Len(down[c]) <= OutboxCap
    /\ up \in [Conns -> Seq(Replies)]
    /\ pc \in [Procs -> PcStates] /\ want \in [Procs -> BOOLEAN]
    /\ target \in [Procs -> Conns \cup {NoConn}]
    /\ \A p \in Procs : pc[p] = "send" => target[p] # NoConn
    /\ session \in Conns \cup {NoConn}
    /\ apc \in {"backoff", "auth", "sync", "running"} /\ (apc = "backoff" <=> session = NoConn)
    /\ frozen \in BOOLEAN
    /\ rows \in Nat /\ reports \in Nat /\ faults \in Nat

\* A connection past Register that nobody has closed is the one the registry
\* returns: a displaced connection tearing down late never unregisters its
\* successor, so a kill is not lost to a reconnect (Registry.Register/Unregister).
Registered == {"syncreq", "sync", "markready", "pump"}
LiveConnRegistered ==
    \A c \in Conns : run[c] \in Registered /\ ~closed[c] => registry = c

\* The agent's handshake never meets a frame it does not expect: a kill pushed
\* between Register and the Ready phase would fail the agent's doHandshake.
HandshakeFrameOrder ==
    session # NoConn /\ down[session] # <<>> =>
        /\ apc = "auth" => Head(down[session]).type = "auth_ok"
        /\ apc = "sync" => Head(down[session]).type = "state_sync_request"
        /\ apc = "running" => Head(down[session]).type = "kill_switch"

\* The agent would execute a trade_command the hub could still send it.
Trading ==
    /\ apc = "running"
    /\ ~frozen
    /\ IsReady(session)
    /\ ~closed[session]

\* The push of the latest row is still on its way to the agent.
PushPending ==
    \/ \E p \in Procs : pc[p] \in InFlight
    \/ \E i \in DOMAIN down[session] : down[session][i].frozen

\* A latched account's agent trades only while the push is pending, or through
\* one of two windows: the row was written while this very connection was
\* between its frozen lookup and Ready, or while an opposite push was pending.
LatchedMeansHalted ==
    latched /\ Trading => PushPending \/ session \in late \/ overlapped

\* Repeats are suppressed only while the latch holds: a resumed account can
\* auto-freeze again (ClearDriftStreak), unless a resume overlapped the freeze.
SuppressedOnlyWhileLatched ==
    streak = killedSentinel /\ ~latched =>
        overlapped \/ \E o \in Operators : pc[o] = "clear"

-----------------------------------------------------------------------------
(***************************************************************************)
(* The inductive invariant behind LatchedMeansHalted.                      *)
(***************************************************************************)

\* Without an overlap, whoever still has to push will push what the latch says.
PushesAgree ==
    ~overlapped => \A p \in Procs : pc[p] \in InFlight => want[p] = latched

SentinelAfterKill == \A p \in Procs : pc[p] = "sentinel" => want[p]

Carries(f) == f.type # "state_sync_request"
ThawFree(c, n) ==
    \A i \in DOMAIN down[c] : i > n /\ Carries(down[c][i]) => down[c][i].frozen

\* The agent's latch is set once it has read all that is on its way.
WillHalt(c) ==
    IF run[c] = "authok" THEN found[c]
    ELSE \/ apc \in {"sync", "running"} /\ frozen /\ ThawFree(c, 0)
         \/ \E n \in DOMAIN down[c] :
                Carries(down[c][n]) /\ down[c][n].frozen /\ ThawFree(c, n)

\* p's push will still reach c, or close it.
Pushing(p, c) == pc[p] \in InFlight /\ (pc[p] = "send" => target[p] = c)

Covered(c) ==
    ~closed[c] /\ c \notin late =>
        /\ Handshaking(c) => WillHalt(c)
        /\ run[c] = "pump" => WillHalt(c) \/ \E p \in Procs : Pushing(p, c)

LatchOnItsWay ==
    latched /\ ~overlapped => \A c \in Conns : c = session => Covered(c)

IInv == LiveConnRegistered /\ PushesAgree /\ SentinelAfterKill /\ LatchOnItsWay

\* A socket nobody has dialled is untouched.
UnusedClean ==
    \A c \in Conns : run[c] = "none" =>
        session # c /\ down[c] = <<>> /\ up[c] = <<>> /\ \A p \in Procs : target[p] # c

\* Where the goroutine of the session's connection stands decides what may be on its
\* way to the agent, and no push aims at it before the agent has left its handshake.
FramesInOrder ==
    session # NoConn =>
        LET d == down[session] r == run[session]
        IN /\ r \in {"hello", "lookup", "authok"} => apc = "auth" /\ d = <<>>
           /\ r \in {"register", "syncreq"} =>
                (apc = "auth" /\ Len(d) = 1) \/ (apc = "sync" /\ d = <<>>)
           /\ apc = "auth" =>
                /\ Len(d) <= 2 /\ (Len(d) >= 1 => d[1].type = "auth_ok")
                /\ Len(d) = 2 => d[2].type = "state_sync_request"
           /\ apc = "sync" => Len(d) <= 1 /\ (Len(d) = 1 => d[1].type = "state_sync_request")
           /\ apc = "running" => \A i \in DOMAIN d : d[i].type = "kill_switch"
           /\ apc # "running" => up[session] = <<>> /\ r \notin {"markready", "pump"}
                                 /\ \A p \in Procs : target[p] # session

\* The inductive invariant behind HandshakeFrameOrder.
FrameInv == UnusedClean /\ FramesInOrder

-----------------------------------------------------------------------------
(***************************************************************************)
(* What a comment of the source claims and the code does not do.           *)
(***************************************************************************)

\* What agentmsg.go says of a failed push: the agent reconnects and freezes via
\* auth_ok, so after an auto-freeze an agent in a live session is frozen.
AutoFreezeReachesAgent ==
    streak = killedSentinel /\ latched /\ Trading => PushPending
=============================================================================
