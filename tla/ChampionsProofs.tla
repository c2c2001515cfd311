-------------------------- MODULE ChampionsProofs ---------------------------
(***************************************************************************)
(* TLAPS proofs about Champions: typing, one active champion per tuple,    *)
(* the promote transaction, the retire gate and the finality of a retired  *)
(* instance, for any number of challengers, instances and requests.        *)
(***************************************************************************)
EXTENDS Champions, FiniteSetTheorems, TLAPS

\* Every non-empty set of naturals has a least element.
LEMMA LeastNat ==
    ASSUME NEW T, T \subseteq Nat, T # {}
    PROVE  \E m \in T : \A n \in T : m <= n
  <1>1. PICK x \in T : \A y \in T : ~ (<<y, x>> \in OpToRel(<, Nat))
    BY NatLessThanWellFounded, WFMin
  <1>2. \A y \in T : ~(y < x)
    BY <1>1 DEF OpToRel
  <1> QED BY <1>2


\* The record of an idle request.
LEMMA IdleType == Idle \in Request
  BY ChampionsAssumption DEF Idle, Request

\* A request that ends leaves the table of requests well typed.
LEMMA DoneType ==
    ASSUME TypeOK, NEW r \in Requests, Done(r)
    PROVE  req' \in [Requests -> Request]
  BY IdleType DEF Done, TypeOK

\* A request record of the right shape may be stored.
LEMMA RequestType ==
    ASSUME TypeOK, NEW r \in Requests, NEW q \in Request, req' = [req EXCEPT ![r] = q]
    PROVE  req' \in [Requests -> Request]
  BY DEF TypeOK

\* The first row of a non-empty set of rows exists.
LEMMA FirstRow ==
    ASSUME TypeOK, NEW rows, rows \subseteq DOMAIN history, rows # {}
    PROVE  (CHOOSE n \in rows : \A m \in rows : n <= m) \in rows
  <1>1. rows \subseteq Nat
    BY DEF TypeOK
  <1>2. \E n \in rows : \A m \in rows : n <= m
    BY <1>1, LeastNat
  <1> QED
    BY <1>2

\* TypeOK is inductive with what requests know.
LEMMA TypeStep == IInv /\ [Next]_vars => TypeOK'
  <1> SUFFICES ASSUME IInv, [Next]_vars PROVE TypeOK'
    OBVIOUS
  <1> USE ChampionsAssumption DEF IInv
  <1>1. ASSUME NEW c \in Challengers, Save(c) PROVE TypeOK'
    BY <1>1 DEF Save, TypeOK
  <1>2. ASSUME NEW i \in Instances, NEW a \in Accounts, NEW t \in Tuples, CreateInstance(i, a,
     t)
        PROVE  TypeOK'
    <2>1. [status |-> "idle", account |-> a, tuple |-> t, champ |-> NULL] \in InstanceRow
      BY DEF InstanceRow, Statuses
    <2> QED
      BY <1>2, <2>1 DEF CreateInstance, TypeOK
  <1>3. ASSUME NEW i \in Instances, RetireInstance(i) PROVE TypeOK'
    <2>1. [inst[i] EXCEPT !.status = "retired"] \in InstanceRow
      BY ZenonT(30) DEF InstanceRow, Statuses, TypeOK
    <2> QED
      BY <1>3, <2>1 DEF RetireInstance, TypeOK
  <1>4. ASSUME NEW r \in Requests, NEW c \in Challengers, PromoteRead(r, c) PROVE TypeOK'
    <2>1. genes[c] \in {"none", "pending", "promoted"}
      BY DEF TypeOK
    <2>2. [Idle EXCEPT !.pc = "count", !.ch = c, !.seen = genes[c]] \in Request
      BY <2>1, IdleType DEF Request
    <2> QED
      BY <1>4, <2>2 DEF PromoteRead, TypeOK
  <1>5. ASSUME NEW r \in Requests, NEW c \in Challengers, RetireGate(r, c) PROVE TypeOK'
    <2>1. [Idle EXCEPT !.pc = "retire", !.ch = c] \in Request
      BY IdleType DEF Request
    <2> QED
      BY <1>5, <2>1 DEF RetireGate, TypeOK
  <1>6. ASSUME NEW r \in Requests, NEW i \in Instances, NEW c \in Challengers, DeployRead(r,
     i, c)
        PROVE  TypeOK'
    <2>1. [Idle EXCEPT !.pc = "deploy", !.ch = c, !.inst = i] \in Request
      BY IdleType DEF Request
    <2> QED
      BY <1>6, <2>1 DEF DeployRead, TypeOK
  <1>7. ASSUME NEW r \in Requests, NEW i \in Instances, NEW op \in {"start", "stop"},
               TransitionRead(r, i, op)
        PROVE  TypeOK'
    <2>1. [Idle EXCEPT !.pc = op, !.inst = i, !.seen = inst[i].status] \in Request
      BY <1>7, IdleType DEF TransitionRead, Request, Statuses
    <2> QED
      BY <1>7, <2>1 DEF TransitionRead, TypeOK
  <1>8. ASSUME NEW r \in Requests, PromoteCount(r) PROVE TypeOK'
    <2>1. [req[r] EXCEPT !.pc = "promote"] \in Request
      BY DEF Request, TypeOK
    <2> QED
      BY <1>8, <2>1, DoneType DEF PromoteCount, TypeOK
  <1>9. ASSUME NEW r \in Requests, PromoteWrite(r) PROVE TypeOK'
    <2> DEFINE row == [ch |-> req[r].ch, tuple |-> TupleOf[req[r].ch], retired |-> FALSE]
    <2>1. req[r].ch \in Challengers
      BY <1>9 DEF PromoteWrite, RequestSound
    <2>2. row \in HistoryRow
      BY <2>1 DEF HistoryRow
    <2>3. \/ /\ Len(history) < MaxRows /\ history' = Append(history, row)
             /\ genes' = [genes EXCEPT ![req[r].ch] = "promoted"]
          \/ UNCHANGED <<genes, history>>
      BY <1>9 DEF PromoteWrite
    <2>4. genes' \in [Challengers -> {"none", "pending", "promoted"}]
      BY <2>1, <2>3 DEF TypeOK
    <2> HIDE DEF row
    <2>5. history' \in Seq(HistoryRow) /\ Len(history') <= MaxRows
      BY <2>2, <2>3 DEF TypeOK
    <2> QED
      BY <1>9, <2>4, <2>5, DoneType DEF PromoteWrite, TypeOK
  <1>10. ASSUME NEW r \in Requests, RetireRead(r) PROVE TypeOK'
    <2> DEFINE rows == RowsOf(req[r].ch)
               first == CHOOSE n \in rows : \A m \in rows : n <= m
    <2>1. CASE rows # {} /\ Active(first)
      <3>1. first \in rows
        BY <2>1, FirstRow DEF RowsOf
      <3>2. first \in 0 .. MaxRows
        BY <3>1 DEF RowsOf, TypeOK
      <3> HIDE DEF first
      <3>3. [req[r] EXCEPT !.pc = "stamp", !.row = first] \in Request
        BY <3>2 DEF Request, TypeOK
      <3>4. req' = [req EXCEPT ![r] = [req[r] EXCEPT !.pc = "stamp", !.row = first]]
        BY <1>10, <2>1 DEF RetireRead, TypeOK, first
      <3> QED
        BY <1>10, <3>3, <3>4 DEF RetireRead, TypeOK
    <2>2. CASE ~(rows # {} /\ Active(first))
      BY <1>10, <2>2, DoneType DEF RetireRead, TypeOK
    <2> QED
      BY <2>1, <2>2
  <1>11. ASSUME NEW r \in Requests, RetireWrite(r) PROVE TypeOK'
    <2>1. req[r].row \in DOMAIN history
      BY <1>11 DEF RetireWrite, RequestSound, RowsOf
    <2>2. history[req[r].row] \in HistoryRow
      BY <2>1 DEF TypeOK
    <2>3. [history[req[r].row] EXCEPT !.retired = TRUE] \in HistoryRow
      BY <2>2 DEF HistoryRow
    <2>4. history' \in Seq(HistoryRow) /\ Len(history') = Len(history)
      BY <1>11, <2>1, <2>3 DEF RetireWrite, TypeOK
    <2> QED
      BY <1>11, <2>4, DoneType DEF RetireWrite, TypeOK
  <1>12. ASSUME NEW r \in Requests, DeployWrite(r) PROVE TypeOK'
    <2>1. req[r].ch \in Challengers /\ req[r].inst \in Instances
      BY <1>12 DEF DeployWrite, RequestSound
    <2>2. [inst[req[r].inst] EXCEPT !.champ = req[r].ch] \in InstanceRow
      BY <2>1 DEF InstanceRow, TypeOK
    <2>3. [req[r] EXCEPT !.pc = "audit"] \in Request
      BY DEF Request, TypeOK
    <2> QED
      BY <1>12, <2>1, <2>2, <2>3, DoneType DEF DeployWrite, TypeOK
  <1>13. ASSUME NEW r \in Requests, DeployAudit(r) PROVE TypeOK'
    <2>1. req[r].ch \in Challengers /\ req[r].inst \in Instances
      BY <1>13 DEF DeployAudit, RequestSound
    <2> QED
      BY <1>13, <2>1, DoneType DEF DeployAudit, TypeOK
  <1>14. ASSUME NEW r \in Requests, TransitionWrite(r) PROVE TypeOK'
    <2>1. ASSUME NEW i \in Instances, NEW s \in Statuses
          PROVE  [inst[i] EXCEPT !.status = s] \in InstanceRow
      BY DEF InstanceRow, TypeOK
    <2>2. req[r].inst \in Instances
      BY <1>14 DEF TransitionWrite, RequestSound
    <2> QED
      BY <1>14, <2>1, <2>2, DoneType DEF TransitionWrite, UpdateStatus, TypeOK, Statuses
  <1>15. ASSUME NEW r \in Requests, Abandon(r) PROVE TypeOK'
    BY <1>15, DoneType DEF Abandon, TypeOK
  <1>16. CASE UNCHANGED vars
    BY <1>16 DEF vars, TypeOK
  <1> QED
    BY <1>1, <1>2, <1>3, <1>4, <1>5, <1>6, <1>7, <1>8, <1>9, <1>10, <1>11, <1>12, <1>13,
       <1>14, <1>15, <1>16 DEF Next


\* Only request r moves.
Others(r) == \A q \in Requests \ {r} : req'[q] = req[q]

\* A request that ends is idle again.
LEMMA DoneEffect ==
    ASSUME TypeOK, NEW r \in Requests, Done(r)
    PROVE  Others(r) /\ req'[r] = Idle
  BY DEF TypeOK, Done, Others

\* Appending a row to the history leaves the others where they are.
LEMMA HistoryGrows ==
    ASSUME TypeOK, NEW row \in HistoryRow, history' = Append(history, row)
    PROVE  /\ DOMAIN history' = DOMAIN history \cup {Len(history) + 1}
           /\ Len(history) + 1 \notin DOMAIN history
           /\ \A n \in DOMAIN history : history'[n] = history[n]
           /\ history'[Len(history) + 1] = row
  BY DEF TypeOK

\* A promote that writes appends an active row of its challenger and marks the
\* challenger; one that is refused changes neither table.
LEMMA PromoteEffect ==
    ASSUME IInv, NEW r \in Requests, PromoteWrite(r)
    PROVE  LET c == req[r].ch  new == Len(history) + 1 IN
           /\ c \in Challengers /\ TupleOf[c] \in Tuples
           /\ Others(r) /\ req'[r] = Idle /\ UNCHANGED <<inst, audit, raced>>
           /\ \/ UNCHANGED <<genes, history>>
              \/ /\ ChampionIndexFree(TupleOf[c])
                 /\ genes' = [genes EXCEPT ![c] = "promoted"]
                 /\ DOMAIN history' = DOMAIN history \cup {new} /\ new \notin DOMAIN history
                 /\ \A n \in DOMAIN history : history'[n] = history[n]
                 /\ history'[new] = [ch |-> c, tuple |-> TupleOf[c], retired |-> FALSE]
  <1> DEFINE c == req[r].ch
             row == [ch |-> c, tuple |-> TupleOf[c], retired |-> FALSE]
  <1>0. Others(r) /\ req'[r] = Idle /\ UNCHANGED <<inst, audit, raced>>
    BY DoneEffect DEF PromoteWrite, IInv
  <1>1. c \in Challengers /\ TupleOf[c] \in Tuples
    BY ChampionsAssumption DEF IInv, PromoteWrite, RequestSound
  <1>2. row \in HistoryRow
    BY <1>1, ChampionsAssumption DEF HistoryRow
  <1>3. \/ UNCHANGED <<genes, history>>
        \/ /\ ChampionIndexFree(TupleOf[c]) /\ history' = Append(history, row)
           /\ genes' = [genes EXCEPT ![c] = "promoted"]
    BY DEF PromoteWrite
  <1>4. CASE UNCHANGED <<genes, history>>
    BY <1>0, <1>1, <1>4
  <1>5. CASE /\ ChampionIndexFree(TupleOf[c]) /\ history' = Append(history, row)
             /\ genes' = [genes EXCEPT ![c] = "promoted"]
    <2> HIDE DEF row
    <2>1. /\ DOMAIN history' = DOMAIN history \cup {Len(history) + 1}
          /\ Len(history) + 1 \notin DOMAIN history
          /\ \A n \in DOMAIN history : history'[n] = history[n]
          /\ history'[Len(history) + 1] = row
      BY <1>2, <1>5, HistoryGrows DEF IInv
    <2> QED
      BY <1>0, <1>1, <1>5, <2>1 DEF row
  <1> QED
    BY <1>3, <1>4, <1>5

\* Retiring a champion stamps one row of the challenger and nothing else.
LEMMA RetireEffect ==
    ASSUME IInv, NEW r \in Requests, RetireWrite(r)
    PROVE  /\ DOMAIN history' = DOMAIN history
           /\ req[r].row \in DOMAIN history /\ history[req[r].row].ch = req[r].ch
           /\ \A n \in DOMAIN history :
                /\ history'[n].ch = history[n].ch /\ history'[n].tuple = history[n].tuple
                /\ n # req[r].row => history'[n] = history[n]
                /\ ~history'[n].retired => ~history[n].retired
  <1>1. req[r].row \in DOMAIN history /\ history[req[r].row].ch = req[r].ch
    BY DEF IInv, RetireWrite, RequestSound, RowsOf
  <1>2. \A n \in DOMAIN history : history[n] \in HistoryRow
    BY DEF IInv, TypeOK
  <1> QED
    BY <1>1, <1>2 DEF RetireWrite, IInv, TypeOK, HistoryRow

\* The decision of a promote moves its own request only.
LEMMA CountEffect ==
    ASSUME TypeOK, NEW r \in Requests, PromoteCount(r)
    PROVE  /\ Others(r)
           /\ \/ req'[r] = Idle
              \/ req'[r].pc = "promote" /\ req'[r].ch = req[r].ch
           /\ UNCHANGED <<genes, history, inst, audit, raced>>
  <1>1. req' = [req EXCEPT ![r].pc = "promote"] \/ Done(r)
    BY DEF PromoteCount
  <1> QED
    BY <1>1, DoneEffect DEF PromoteCount, TypeOK, Request, Others

\* A retire that goes on has found the first row of its challenger.
LEMMA RetireReadEffect ==
    ASSUME TypeOK, NEW r \in Requests, RetireRead(r)
    PROVE  /\ Others(r)
           /\ \/ req'[r] = Idle
              \/ /\ req'[r].pc = "stamp" /\ req'[r].ch = req[r].ch
                 /\ req'[r].row \in RowsOf(req[r].ch)
           /\ UNCHANGED <<genes, history, inst, audit, raced>>
  <1> DEFINE rows == RowsOf(req[r].ch)
             first == CHOOSE n \in rows : \A m \in rows : n <= m
  <1>1. CASE rows # {} /\ Active(first)
    <2>1. first \in rows
      BY <1>1, FirstRow DEF RowsOf
    <2>2. req' = [req EXCEPT ![r] = [req[r] EXCEPT !.pc = "stamp", !.row = first]]
      BY <1>1 DEF RetireRead, TypeOK
    <2> HIDE DEF first, rows
    <2>3. /\ Others(r)
          /\ req'[r].pc = "stamp" /\ req'[r].ch = req[r].ch /\ req'[r].row = first
      BY <2>2 DEF Others, TypeOK, Request
    <2> QED
      BY <2>1, <2>3 DEF rows, RetireRead
  <1>2. CASE ~(rows # {} /\ Active(first))
    BY <1>2, DoneEffect DEF RetireRead
  <1> QED
    BY <1>1, <1>2

\* A deploy that takes effect found its instance and an active row, and is in
\* raced if a retire of the champion is under way.
LEMMA DeployEffect ==
    ASSUME IInv, NEW r \in Requests, DeployWrite(r)
    PROVE  LET i == req[r].inst  c == req[r].ch IN
           /\ i \in Instances /\ c \in Challengers
           /\ UNCHANGED <<genes, history, audit>>
           /\ \/ UNCHANGED <<inst, raced>> /\ Others(r) /\ req'[r] = Idle
              \/ /\ Deployable(i, c) /\ Others(r)
                 /\ inst'[i].champ = c /\ inst'[i].status = inst[i].status
                 /\ \A j \in Instances \ {i} : inst'[j] = inst[j]
                 /\ req'[r].pc = "audit" /\ req'[r].ch = c /\ req'[r].inst = i
                 /\ raced \subseteq raced'
                 /\ \A q \in Requests :
                      req[q].pc \in {"retire", "stamp"} /\ req[q].ch = c => c \in raced'
  <1>1. req[r].inst \in Instances /\ req[r].ch \in Challengers
    BY DEF IInv, DeployWrite, RequestSound
  <1>2. inst[req[r].inst] \in InstanceRow /\ req[r] \in Request
    BY <1>1 DEF IInv, TypeOK
  <1>3. CASE ~Deployable(req[r].inst, req[r].ch)
    BY <1>1, <1>3, DoneEffect DEF DeployWrite, IInv
  <1>4. CASE Deployable(req[r].inst, req[r].ch)
    BY <1>1, <1>2, <1>4 DEF DeployWrite, IInv, TypeOK, InstanceRow, Request, Others
  <1> QED
    BY <1>3, <1>4

\* A start or stop keeps every champion and moves no instance into or out of retired.
LEMMA TransitionEffect ==
    ASSUME IInv, NEW r \in Requests, TransitionWrite(r)
    PROVE  /\ \A i \in Instances : inst'[i].champ = inst[i].champ
           /\ \A i \in Instances : inst'[i].status = "retired" <=> inst[i].status = "retired"
           /\ \A i \in Instances : inst[i].status = "retired" => inst'[i] = inst[i]
           /\ Others(r) /\ req'[r] = Idle /\ UNCHANGED <<genes, history, audit, raced>>
  <1>1. req[r].inst \in Instances /\ req[r].seen \in {"idle", "live", "paused"}
    BY DEF IInv, TransitionWrite, RequestSound
  <1>2. \A i \in Instances : inst[i] \in InstanceRow
    BY DEF IInv, TypeOK
  <1>3. PICK s \in {"live", "paused"} : UpdateStatus(r, s)
    BY DEF TransitionWrite
  <1>4. \/ inst' = inst
        \/ /\ inst[req[r].inst].status # "retired"
           /\ inst' = [inst EXCEPT ![req[r].inst].status = s]
    BY <1>1, <1>3 DEF UpdateStatus
  <1>5. /\ Others(r) /\ req'[r] = Idle
        /\ UNCHANGED <<genes, history, audit, raced>>
    BY DoneEffect DEF TransitionWrite, IInv
  <1>6. CASE inst' = inst
    BY <1>5, <1>6
  <1>7. CASE /\ inst[req[r].inst].status # "retired"
             /\ inst' = [inst EXCEPT ![req[r].inst].status = s]
    BY <1>1, <1>2, <1>5, <1>7 DEF IInv, TypeOK, InstanceRow
  <1> QED
    BY <1>4, <1>6, <1>7


\* What a request knows stays true while others move: history rows are never
\* removed, a gene record never disappears.
LEMMA RequestSoundStep == IInv /\ [Next]_vars => RequestSound'
  <1> SUFFICES ASSUME IInv, [Next]_vars PROVE RequestSound'
    OBVIOUS
  <1>0. TypeOK /\ RequestSound
    BY DEF IInv
  <1>1. ASSUME NEW c \in Challengers, Save(c) PROVE RequestSound'
    BY <1>0, <1>1, ChampionsAssumption DEF Save, TypeOK, RequestSound, RowsOf, InstanceRow,
       Request, Idle, Done
  <1>2. ASSUME NEW i \in Instances, NEW a \in Accounts, NEW t \in Tuples, CreateInstance(i, a,
     t)
        PROVE  RequestSound'
    BY <1>0, <1>2, ChampionsAssumption DEF CreateInstance, TypeOK, RequestSound, RowsOf,
       InstanceRow, Request, Idle, Done
  <1>3. ASSUME NEW i \in Instances, RetireInstance(i) PROVE RequestSound'
    BY <1>0, <1>3, ChampionsAssumption DEF RetireInstance, TypeOK, RequestSound, RowsOf,
       InstanceRow, Request, Idle, Done
  <1>4. ASSUME NEW r \in Requests, NEW c \in Challengers, PromoteRead(r, c)
        PROVE  RequestSound'
    BY <1>0, <1>4, ChampionsAssumption DEF PromoteRead, TypeOK, RequestSound, RowsOf,
       InstanceRow, Request, Idle, Done
  <1>5. ASSUME NEW r \in Requests, NEW c \in Challengers, RetireGate(r, c)
        PROVE  RequestSound'
    BY <1>0, <1>5, ChampionsAssumption DEF RetireGate, TypeOK, RequestSound, RowsOf,
       InstanceRow, Request, Idle, Done
  <1>6. ASSUME NEW r \in Requests, NEW i \in Instances, NEW c \in Challengers, DeployRead(r,
     i, c)
        PROVE  RequestSound'
    BY <1>0, <1>6, ChampionsAssumption DEF DeployRead, TypeOK, RequestSound, RowsOf,
       InstanceRow, Request, Idle, Done
  <1>7. ASSUME NEW r \in Requests, NEW i \in Instances, NEW op \in {"start", "stop"},
     TransitionRead(r, i, op)
        PROVE  RequestSound'
    BY <1>0, <1>7, ChampionsAssumption DEF TransitionRead, TypeOK, RequestSound, RowsOf,
       InstanceRow, Request, Idle, Done
  <1>8. ASSUME NEW r \in Requests, PromoteCount(r) PROVE RequestSound'
    BY <1>0, <1>8, CountEffect, ChampionsAssumption DEF RequestSound, RowsOf, Others, Idle,
       PromoteCount
  <1>9. ASSUME NEW r \in Requests, PromoteWrite(r) PROVE RequestSound'
    <2>0. PICK c \in Challengers : c = req[r].ch
      BY <1>9, PromoteEffect
    <2>1. /\ Others(r) /\ req'[r] = Idle
          /\ \/ UNCHANGED <<genes, history>>
             \/ /\ genes' = [genes EXCEPT ![c] = "promoted"]
                /\ DOMAIN history' = DOMAIN history \cup {Len(history) + 1}
                /\ \A n \in DOMAIN history : history'[n] = history[n]
                /\ history'[Len(history) + 1] = [ch |-> c, tuple |-> TupleOf[c], retired |->
                   FALSE]
      BY <1>9, <2>0, PromoteEffect
    <2>2. ASSUME NEW d \in Challengers PROVE RowsOf(d) \subseteq RowsOf(d)'
      BY <2>1 DEF RowsOf
    <2>3. ASSUME NEW d \in Challengers, genes[d] # "none" PROVE genes'[d] # "none"
      BY <1>0, <2>1, <2>3 DEF TypeOK
    <2> QED
      BY <1>0, <2>1, <2>2, <2>3 DEF RequestSound, Others, Idle
  <1>10. ASSUME NEW r \in Requests, RetireRead(r) PROVE RequestSound'
    BY <1>0, <1>10, RetireReadEffect, ChampionsAssumption DEF RequestSound, RowsOf,
       RetireRead, Others, Idle
  <1>11. ASSUME NEW r \in Requests, RetireWrite(r) PROVE RequestSound'
    BY <1>0, <1>11, RetireEffect, ChampionsAssumption DEF RequestSound, RowsOf, RetireWrite,
       Done, IInv, TypeOK, Request, Idle
  <1>12. ASSUME NEW r \in Requests, DeployWrite(r) PROVE RequestSound'
    <2>1. /\ req[r].inst \in Instances /\ req[r].ch \in Challengers
          /\ UNCHANGED <<genes, history>> /\ Others(r)
          /\ \/ req'[r] = Idle
             \/ req'[r].pc = "audit" /\ req'[r].ch = req[r].ch /\ req'[r].inst = req[r].inst
      BY <1>12, DeployEffect
    <2> QED
      BY <1>0, <2>1 DEF RequestSound, RowsOf, Others, Idle
  <1>13. ASSUME NEW r \in Requests, DeployAudit(r) PROVE RequestSound'
    BY <1>0, <1>13, ChampionsAssumption DEF DeployAudit, TypeOK, RequestSound, RowsOf,
       InstanceRow, Request, Idle, Done
  <1>14. ASSUME NEW r \in Requests, TransitionWrite(r) PROVE RequestSound'
    BY <1>0, <1>14, TransitionEffect, ChampionsAssumption DEF RequestSound, RowsOf, Others, Idle
  <1>15. ASSUME NEW r \in Requests, Abandon(r) PROVE RequestSound'
    BY <1>0, <1>15, ChampionsAssumption DEF Abandon, TypeOK, RequestSound, RowsOf,
       InstanceRow, Request, Idle, Done
  <1>16. CASE UNCHANGED vars
    BY <1>0, <1>16 DEF vars, RequestSound, RowsOf
  <1> QED
    BY <1>1, <1>2, <1>3, <1>4, <1>5, <1>6, <1>7, <1>8, <1>9, <1>10, <1>11, <1>12, <1>13,
       <1>14, <1>15, <1>16 DEF Next

\* Nobody deploys a champion behind the back of a retire without being noted.
LEMMA GateHoldsStep == IInv /\ [Next]_vars => GateHolds'
  <1> SUFFICES ASSUME IInv, [Next]_vars PROVE GateHolds'
    OBVIOUS
  <1>0. TypeOK /\ RequestSound /\ GateHolds
    BY DEF IInv
  <1>1. ASSUME NEW c \in Challengers, Save(c) PROVE GateHolds'
    BY <1>0, <1>1, ChampionsAssumption DEF Save, TypeOK, RequestSound, GateHolds, Blocking,
       InstanceRow, Request, Idle, Done
  <1>2. ASSUME NEW i \in Instances, NEW a \in Accounts, NEW t \in Tuples, CreateInstance(i, a,
     t)
        PROVE  GateHolds'
    BY <1>0, <1>2, ChampionsAssumption DEF CreateInstance, TypeOK, RequestSound, GateHolds,
       Blocking, InstanceRow, Request, Idle, Done
  <1>3. ASSUME NEW i \in Instances, RetireInstance(i) PROVE GateHolds'
    BY <1>0, <1>3, ChampionsAssumption DEF RetireInstance, TypeOK, RequestSound, GateHolds,
       Blocking, InstanceRow, Request, Idle, Done
  <1>4. ASSUME NEW r \in Requests, NEW c \in Challengers, PromoteRead(r, c)
        PROVE  GateHolds'
    BY <1>0, <1>4, ChampionsAssumption DEF PromoteRead, TypeOK, RequestSound, GateHolds,
       Blocking, InstanceRow, Request, Idle, Done
  <1>5. ASSUME NEW r \in Requests, NEW c \in Challengers, RetireGate(r, c)
        PROVE  GateHolds'
    BY <1>0, <1>5, ChampionsAssumption DEF RetireGate, TypeOK, RequestSound, GateHolds,
       Blocking, InstanceRow, Request, Idle, Done
  <1>6. ASSUME NEW r \in Requests, NEW i \in Instances, NEW c \in Challengers, DeployRead(r,
     i, c)
        PROVE  GateHolds'
    BY <1>0, <1>6, ChampionsAssumption DEF DeployRead, TypeOK, RequestSound, GateHolds,
       Blocking, InstanceRow, Request, Idle, Done
  <1>7. ASSUME NEW r \in Requests, NEW i \in Instances, NEW op \in {"start", "stop"},
     TransitionRead(r, i, op)
        PROVE  GateHolds'
    BY <1>0, <1>7, ChampionsAssumption DEF TransitionRead, TypeOK, RequestSound, GateHolds,
       Blocking, InstanceRow, Request, Idle, Done
  <1>8. ASSUME NEW r \in Requests, PromoteCount(r) PROVE GateHolds'
    <2>1. /\ UNCHANGED <<inst, raced>> /\ Others(r)
          /\ req'[r].pc \notin {"retire", "stamp"}
      BY <1>0, <1>8, CountEffect DEF PromoteCount, Idle
    <2> QED
      BY <1>0, <2>1 DEF GateHolds, Blocking, Others
  <1>9. ASSUME NEW r \in Requests, PromoteWrite(r) PROVE GateHolds'
    BY <1>0, <1>9, PromoteEffect, ChampionsAssumption DEF RequestSound, GateHolds, Blocking,
       PromoteWrite, ChampionIndexFree, Active, Others, Idle
  <1>10. ASSUME NEW r \in Requests, RetireRead(r) PROVE GateHolds'
    <2>1. /\ Others(r) /\ UNCHANGED <<inst, raced>>
          /\ req'[r].pc \in {"idle", "stamp"}
          /\ req'[r].pc = "stamp" => req'[r].ch = req[r].ch
      BY <1>0, <1>10, RetireReadEffect DEF Idle
    <2>2. req[r].pc = "retire"
      BY <1>10 DEF RetireRead
    <2> QED
      BY <1>0, <2>1, <2>2 DEF GateHolds, Blocking, Others
  <1>11. ASSUME NEW r \in Requests, RetireWrite(r) PROVE GateHolds'
    BY <1>0, <1>11, RetireEffect, ChampionsAssumption DEF RequestSound, GateHolds, Blocking,
       RetireWrite, Done, IInv, TypeOK, Request, Idle
  <1>12. ASSUME NEW r \in Requests, DeployWrite(r) PROVE GateHolds'
    <2>1. LET i == req[r].inst  c == req[r].ch IN
          /\ i \in Instances /\ c \in Challengers /\ UNCHANGED history
          /\ Others(r) /\ req'[r].pc \notin {"retire", "stamp"}
          /\ \/ UNCHANGED <<inst, raced>>
             \/ /\ Deployable(i, c)
                /\ inst'[i].champ = c /\ inst'[i].status = inst[i].status
                /\ \A j \in Instances \ {i} : inst'[j] = inst[j]
                /\ raced \subseteq raced'
                /\ \A q \in Requests :
                     req[q].pc \in {"retire", "stamp"} /\ req[q].ch = c => c \in raced'
      BY <1>12, DeployEffect DEF Idle
    <2>2. SUFFICES ASSUME NEW q \in Requests, req[q].pc \in {"retire", "stamp"},
                          req'[q] = req[q], NEW i \in Instances,
                          inst'[i].champ = req[q].ch, inst'[i].status # "retired"
                   PROVE  req[q].ch \in raced'
      BY <2>1 DEF GateHolds, Blocking, Others
    <2>3. CASE UNCHANGED <<inst, raced>>
      BY <1>0, <2>2, <2>3 DEF GateHolds, Blocking
    <2>4. CASE i = req[r].inst /\ ~UNCHANGED <<inst, raced>>
      BY <2>1, <2>2, <2>4
    <2>5. CASE i # req[r].inst
      <3>1. inst'[i] = inst[i] /\ raced \subseteq raced'
        BY <2>1, <2>5
      <3> QED
        BY <1>0, <2>2, <3>1 DEF GateHolds, Blocking
    <2> QED
      BY <2>3, <2>4, <2>5
  <1>13. ASSUME NEW r \in Requests, DeployAudit(r) PROVE GateHolds'
    BY <1>0, <1>13, ChampionsAssumption DEF DeployAudit, TypeOK, RequestSound, GateHolds,
       Blocking, InstanceRow, Request, Idle, Done
  <1>14. ASSUME NEW r \in Requests, TransitionWrite(r) PROVE GateHolds'
    BY <1>0, <1>14, TransitionEffect, ChampionsAssumption DEF RequestSound, GateHolds,
       Blocking, Others, Idle
  <1>15. ASSUME NEW r \in Requests, Abandon(r) PROVE GateHolds'
    BY <1>0, <1>15, ChampionsAssumption DEF Abandon, TypeOK, RequestSound, GateHolds,
       Blocking, InstanceRow, Request, Idle, Done
  <1>16. CASE UNCHANGED vars
    BY <1>0, <1>16 DEF vars, RequestSound, GateHolds, Blocking
  <1> QED
    BY <1>1, <1>2, <1>3, <1>4, <1>5, <1>6, <1>7, <1>8, <1>9, <1>10, <1>11, <1>12, <1>13,
       <1>14, <1>15, <1>16 DEF Next

\* The unique index decides between promotes that both counted zero.
LEMMA OneActiveChampionStep == IInv /\ [Next]_vars => OneActiveChampion'
  <1> SUFFICES ASSUME IInv, [Next]_vars PROVE OneActiveChampion'
    OBVIOUS
  <1>0. TypeOK /\ OneActiveChampion
    BY DEF IInv
  <1>1. ASSUME NEW c \in Challengers, Save(c) PROVE OneActiveChampion'
    BY <1>0, <1>1, ChampionsAssumption DEF Save, TypeOK, OneActiveChampion, Active,
       InstanceRow, Request, Idle, Done
  <1>2. ASSUME NEW i \in Instances, NEW a \in Accounts, NEW t \in Tuples, CreateInstance(i, a,
     t)
        PROVE  OneActiveChampion'
    BY <1>0, <1>2, ChampionsAssumption DEF CreateInstance, TypeOK, OneActiveChampion, Active,
       InstanceRow, Request, Idle, Done
  <1>3. ASSUME NEW i \in Instances, RetireInstance(i) PROVE OneActiveChampion'
    BY <1>0, <1>3, ChampionsAssumption DEF RetireInstance, TypeOK, OneActiveChampion, Active,
       InstanceRow, Request, Idle, Done
  <1>4. ASSUME NEW r \in Requests, NEW c \in Challengers, PromoteRead(r, c)
        PROVE  OneActiveChampion'
    BY <1>0, <1>4, ChampionsAssumption DEF PromoteRead, TypeOK, OneActiveChampion, Active,
       InstanceRow, Request, Idle, Done
  <1>5. ASSUME NEW r \in Requests, NEW c \in Challengers, RetireGate(r, c)
        PROVE  OneActiveChampion'
    BY <1>0, <1>5, ChampionsAssumption DEF RetireGate, TypeOK, OneActiveChampion, Active,
       InstanceRow, Request, Idle, Done
  <1>6. ASSUME NEW r \in Requests, NEW i \in Instances, NEW c \in Challengers, DeployRead(r,
     i, c)
        PROVE  OneActiveChampion'
    BY <1>0, <1>6, ChampionsAssumption DEF DeployRead, TypeOK, OneActiveChampion, Active,
       InstanceRow, Request, Idle, Done
  <1>7. ASSUME NEW r \in Requests, NEW i \in Instances, NEW op \in {"start", "stop"},
     TransitionRead(r, i, op)
        PROVE  OneActiveChampion'
    BY <1>0, <1>7, ChampionsAssumption DEF TransitionRead, TypeOK, OneActiveChampion, Active,
       InstanceRow, Request, Idle, Done
  <1>8. ASSUME NEW r \in Requests, PromoteCount(r) PROVE OneActiveChampion'
    BY <1>0, <1>8, CountEffect, ChampionsAssumption DEF OneActiveChampion, Active, Others,
       Idle, PromoteCount
  <1>9. ASSUME NEW r \in Requests, PromoteWrite(r) PROVE OneActiveChampion'
    <2> DEFINE t == TupleOf[req[r].ch]  new == Len(history) + 1
    <2>1. CASE UNCHANGED history
      BY <1>0, <2>1 DEF OneActiveChampion, Active
    <2>2. CASE history' # history
      <3>0. /\ ChampionIndexFree(t)
            /\ DOMAIN history' = DOMAIN history \cup {new}
            /\ \A n \in DOMAIN history : history'[n] = history[n]
            /\ history'[new] = [ch |-> req[r].ch, tuple |-> t, retired |-> FALSE]
        BY <1>9, <2>2, PromoteEffect
      <3>1. /\ \A n \in DOMAIN history : Active(n) => history[n].tuple # t
            /\ DOMAIN history' = DOMAIN history \cup {new}
            /\ \A n \in DOMAIN history : history'[n] = history[n]
            /\ history'[new].tuple = t
        BY <3>0 DEF ChampionIndexFree
      <3> HIDE DEF t, new
      <3> QED
        BY <1>0, <3>1 DEF OneActiveChampion, Active
    <2> QED
      BY <2>1, <2>2
  <1>10. ASSUME NEW r \in Requests, RetireRead(r) PROVE OneActiveChampion'
    BY <1>0, <1>10, RetireReadEffect, ChampionsAssumption DEF OneActiveChampion, Active,
       RetireRead, Others, Idle
  <1>11. ASSUME NEW r \in Requests, RetireWrite(r) PROVE OneActiveChampion'
    BY <1>0, <1>11, RetireEffect, ChampionsAssumption DEF OneActiveChampion, Active,
       RetireWrite, Done, IInv, TypeOK, Request, Idle
  <1>12. ASSUME NEW r \in Requests, DeployWrite(r) PROVE OneActiveChampion'
    BY <1>0, <1>12, DeployEffect, ChampionsAssumption DEF OneActiveChampion, Active,
       DeployWrite, Deployable, Others, Idle
  <1>13. ASSUME NEW r \in Requests, DeployAudit(r) PROVE OneActiveChampion'
    BY <1>0, <1>13, ChampionsAssumption DEF DeployAudit, TypeOK, OneActiveChampion, Active,
       InstanceRow, Request, Idle, Done
  <1>14. ASSUME NEW r \in Requests, TransitionWrite(r) PROVE OneActiveChampion'
    BY <1>0, <1>14, TransitionEffect, ChampionsAssumption DEF OneActiveChampion, Active,
       Others, Idle
  <1>15. ASSUME NEW r \in Requests, Abandon(r) PROVE OneActiveChampion'
    BY <1>0, <1>15, ChampionsAssumption DEF Abandon, TypeOK, OneActiveChampion, Active,
       InstanceRow, Request, Idle, Done
  <1>16. CASE UNCHANGED vars
    BY <1>0, <1>16 DEF vars, OneActiveChampion, Active
  <1> QED
    BY <1>1, <1>2, <1>3, <1>4, <1>5, <1>6, <1>7, <1>8, <1>9, <1>10, <1>11, <1>12, <1>13,
       <1>14, <1>15, <1>16 DEF Next

\* The two writes of a promote become visible together.
LEMMA PromotedHasRowStep == IInv /\ [Next]_vars => PromotedHasRow'
  <1> SUFFICES ASSUME IInv, [Next]_vars PROVE PromotedHasRow'
    OBVIOUS
  <1>0. TypeOK /\ PromotedHasRow
    BY DEF IInv
  <1>1. ASSUME NEW c \in Challengers, Save(c) PROVE PromotedHasRow'
    BY <1>0, <1>1, ChampionsAssumption DEF Save, TypeOK, PromotedHasRow, RowsOf, InstanceRow,
       Request, Idle, Done
  <1>2. ASSUME NEW i \in Instances, NEW a \in Accounts, NEW t \in Tuples, CreateInstance(i, a,
     t)
        PROVE  PromotedHasRow'
    BY <1>0, <1>2, ChampionsAssumption DEF CreateInstance, TypeOK, PromotedHasRow, RowsOf,
       InstanceRow, Request, Idle, Done
  <1>3. ASSUME NEW i \in Instances, RetireInstance(i) PROVE PromotedHasRow'
    BY <1>0, <1>3, ChampionsAssumption DEF RetireInstance, TypeOK, PromotedHasRow, RowsOf,
       InstanceRow, Request, Idle, Done
  <1>4. ASSUME NEW r \in Requests, NEW c \in Challengers, PromoteRead(r, c)
        PROVE  PromotedHasRow'
    BY <1>0, <1>4, ChampionsAssumption DEF PromoteRead, TypeOK, PromotedHasRow, RowsOf,
       InstanceRow, Request, Idle, Done
  <1>5. ASSUME NEW r \in Requests, NEW c \in Challengers, RetireGate(r, c)
        PROVE  PromotedHasRow'
    BY <1>0, <1>5, ChampionsAssumption DEF RetireGate, TypeOK, PromotedHasRow, RowsOf,
       InstanceRow, Request, Idle, Done
  <1>6. ASSUME NEW r \in Requests, NEW i \in Instances, NEW c \in Challengers, DeployRead(r,
     i, c)
        PROVE  PromotedHasRow'
    BY <1>0, <1>6, ChampionsAssumption DEF DeployRead, TypeOK, PromotedHasRow, RowsOf,
       InstanceRow, Request, Idle, Done
  <1>7. ASSUME NEW r \in Requests, NEW i \in Instances, NEW op \in {"start", "stop"},
     TransitionRead(r, i, op)
        PROVE  PromotedHasRow'
    BY <1>0, <1>7, ChampionsAssumption DEF TransitionRead, TypeOK, PromotedHasRow, RowsOf,
       InstanceRow, Request, Idle, Done
  <1>8. ASSUME NEW r \in Requests, PromoteCount(r) PROVE PromotedHasRow'
    BY <1>0, <1>8, CountEffect, ChampionsAssumption DEF PromotedHasRow, RowsOf, Others, Idle,
       PromoteCount
  <1>9. ASSUME NEW r \in Requests, PromoteWrite(r) PROVE PromotedHasRow'
    <2>0. PICK c \in Challengers : c = req[r].ch
      BY <1>9, PromoteEffect
    <2>1. /\ Others(r) /\ req'[r] = Idle
          /\ \/ UNCHANGED <<genes, history>>
             \/ /\ genes' = [genes EXCEPT ![c] = "promoted"]
                /\ DOMAIN history' = DOMAIN history \cup {Len(history) + 1}
                /\ \A n \in DOMAIN history : history'[n] = history[n]
                /\ history'[Len(history) + 1] = [ch |-> c, tuple |-> TupleOf[c], retired |->
                   FALSE]
      BY <1>9, <2>0, PromoteEffect
    <2>2. CASE UNCHANGED <<genes, history>>
      BY <1>0, <2>2 DEF PromotedHasRow, RowsOf
    <2>3. CASE ~UNCHANGED <<genes, history>>
      <3>1. Len(history) + 1 \in RowsOf(c)'
        BY <2>1, <2>3 DEF RowsOf
      <3>2. ASSUME NEW d \in Challengers, d # c PROVE RowsOf(d)' = RowsOf(d)
        BY <2>1, <3>2 DEF RowsOf
      <3>3. genes'[c] = "promoted" /\ \A d \in Challengers \ {c} : genes'[d] = genes[d]
        BY <1>0, <2>1, <2>3 DEF TypeOK
      <3> QED
        BY <1>0, <3>1, <3>2, <3>3 DEF PromotedHasRow
    <2> QED
      BY <2>1, <2>2, <2>3
  <1>10. ASSUME NEW r \in Requests, RetireRead(r) PROVE PromotedHasRow'
    BY <1>0, <1>10, RetireReadEffect, ChampionsAssumption DEF PromotedHasRow, RowsOf,
       RetireRead, Others, Idle
  <1>11. ASSUME NEW r \in Requests, RetireWrite(r) PROVE PromotedHasRow'
    BY <1>0, <1>11, RetireEffect, ChampionsAssumption DEF PromotedHasRow, RowsOf, RetireWrite,
       Done, IInv, TypeOK, Request, Idle
  <1>12. ASSUME NEW r \in Requests, DeployWrite(r) PROVE PromotedHasRow'
    BY <1>0, <1>12 DEF PromotedHasRow, RowsOf, DeployWrite
  <1>13. ASSUME NEW r \in Requests, DeployAudit(r) PROVE PromotedHasRow'
    BY <1>0, <1>13, ChampionsAssumption DEF DeployAudit, TypeOK, PromotedHasRow, RowsOf,
       InstanceRow, Request, Idle, Done
  <1>14. ASSUME NEW r \in Requests, TransitionWrite(r) PROVE PromotedHasRow'
    BY <1>0, <1>14, TransitionEffect, ChampionsAssumption DEF PromotedHasRow, RowsOf, Others,
       Idle
  <1>15. ASSUME NEW r \in Requests, Abandon(r) PROVE PromotedHasRow'
    BY <1>0, <1>15, ChampionsAssumption DEF Abandon, TypeOK, PromotedHasRow, RowsOf,
       InstanceRow, Request, Idle, Done
  <1>16. CASE UNCHANGED vars
    BY <1>0, <1>16 DEF vars, PromotedHasRow, RowsOf
  <1> QED
    BY <1>1, <1>2, <1>3, <1>4, <1>5, <1>6, <1>7, <1>8, <1>9, <1>10, <1>11, <1>12, <1>13,
       <1>14, <1>15, <1>16 DEF Next

\* The gate: the stamp finds only instances that raced it.
LEMMA RetiredDeployedOnlyByRaceStep == IInv /\ [Next]_vars => RetiredDeployedOnlyByRace'
  <1> SUFFICES ASSUME IInv, [Next]_vars PROVE RetiredDeployedOnlyByRace'
    OBVIOUS
  <1>0. TypeOK /\ RequestSound /\ GateHolds /\ RetiredDeployedOnlyByRace
    BY DEF IInv
  <1>1. ASSUME NEW c \in Challengers, Save(c) PROVE RetiredDeployedOnlyByRace'
    BY <1>0, <1>1, ChampionsAssumption DEF Save, TypeOK, RequestSound, GateHolds,
       RetiredDeployedOnlyByRace, RowsOf, Active, Blocking, InstanceRow, Request, Idle, Done
  <1>2. ASSUME NEW i \in Instances, NEW a \in Accounts, NEW t \in Tuples, CreateInstance(i, a,
     t)
        PROVE  RetiredDeployedOnlyByRace'
    BY <1>0, <1>2, ChampionsAssumption DEF CreateInstance, TypeOK, RequestSound, GateHolds,
       RetiredDeployedOnlyByRace, RowsOf, Active, Blocking, InstanceRow, Request, Idle, Done
  <1>3. ASSUME NEW i \in Instances, RetireInstance(i) PROVE RetiredDeployedOnlyByRace'
    BY <1>0, <1>3, ChampionsAssumption DEF RetireInstance, TypeOK, RequestSound, GateHolds,
       RetiredDeployedOnlyByRace, RowsOf, Active, Blocking, InstanceRow, Request, Idle, Done
  <1>4. ASSUME NEW r \in Requests, NEW c \in Challengers, PromoteRead(r, c)
        PROVE  RetiredDeployedOnlyByRace'
    BY <1>0, <1>4, ChampionsAssumption DEF PromoteRead, TypeOK, RequestSound, GateHolds,
       RetiredDeployedOnlyByRace, RowsOf, Active, Blocking, InstanceRow, Request, Idle, Done
  <1>5. ASSUME NEW r \in Requests, NEW c \in Challengers, RetireGate(r, c)
        PROVE  RetiredDeployedOnlyByRace'
    BY <1>0, <1>5, ChampionsAssumption DEF RetireGate, TypeOK, RequestSound, GateHolds,
       RetiredDeployedOnlyByRace, RowsOf, Active, Blocking, InstanceRow, Request, Idle, Done
  <1>6. ASSUME NEW r \in Requests, NEW i \in Instances, NEW c \in Challengers, DeployRead(r,
     i, c)
        PROVE  RetiredDeployedOnlyByRace'
    BY <1>0, <1>6, ChampionsAssumption DEF DeployRead, TypeOK, RequestSound, GateHolds,
       RetiredDeployedOnlyByRace, RowsOf, Active, Blocking, InstanceRow, Request, Idle, Done
  <1>7. ASSUME NEW r \in Requests, NEW i \in Instances, NEW op \in {"start", "stop"},
     TransitionRead(r, i, op)
        PROVE  RetiredDeployedOnlyByRace'
    BY <1>0, <1>7, ChampionsAssumption DEF TransitionRead, TypeOK, RequestSound, GateHolds,
       RetiredDeployedOnlyByRace, RowsOf, Active, Blocking, InstanceRow, Request, Idle, Done
  <1>8. ASSUME NEW r \in Requests, PromoteCount(r) PROVE RetiredDeployedOnlyByRace'
    BY <1>0, <1>8, CountEffect, ChampionsAssumption DEF RequestSound, GateHolds,
       RetiredDeployedOnlyByRace, RowsOf, Active, Blocking, Others, Idle, PromoteCount
  <1>9. ASSUME NEW r \in Requests, PromoteWrite(r) PROVE RetiredDeployedOnlyByRace'
    BY <1>0, <1>9, PromoteEffect, ChampionsAssumption DEF RequestSound, GateHolds,
       RetiredDeployedOnlyByRace, RowsOf, Active, Blocking, PromoteWrite, ChampionIndexFree,
       Active, Others, Idle
  <1>10. ASSUME NEW r \in Requests, RetireRead(r) PROVE RetiredDeployedOnlyByRace'
    BY <1>0, <1>10, RetireReadEffect, ChampionsAssumption DEF RequestSound, GateHolds,
       RetiredDeployedOnlyByRace, RowsOf, Active, Blocking, RetireRead, Others, Idle
  <1>11. ASSUME NEW r \in Requests, RetireWrite(r) PROVE RetiredDeployedOnlyByRace'
    <2> DEFINE c == req[r].ch
    <2>1. /\ DOMAIN history' = DOMAIN history
          /\ req[r].row \in DOMAIN history /\ history[req[r].row].ch = c
          /\ \A n \in DOMAIN history :
               /\ history'[n].ch = history[n].ch
               /\ n # req[r].row => history'[n] = history[n]
      BY <1>11, RetireEffect
    <2>2. UNCHANGED <<inst, raced>> /\ req[r].pc = "stamp" /\ c \in Challengers
      BY <1>0, <1>11 DEF RetireWrite, RequestSound
    <2>3. SUFFICES ASSUME NEW i \in Instances, inst[i].status # "retired", inst[i].champ # NULL,
                          (\A n \in RowsOf(inst[i].champ) : ~Active(n))'
                   PROVE  inst[i].champ \in raced
      BY <2>2 DEF RetiredDeployedOnlyByRace
    <2>4. CASE inst[i].champ = c
      BY <1>0, <2>2, <2>3, <2>4 DEF GateHolds, Blocking
    <2>5. CASE inst[i].champ # c
      <3>1. \A n \in RowsOf(inst[i].champ) : ~Active(n)
        BY <2>1, <2>2, <2>3, <2>5 DEF RowsOf, Active
      <3> QED
        BY <1>0, <2>3, <3>1 DEF RetiredDeployedOnlyByRace
    <2> QED
      BY <2>4, <2>5
  <1>12. ASSUME NEW r \in Requests, DeployWrite(r) PROVE RetiredDeployedOnlyByRace'
    <2>1. LET i == req[r].inst  c == req[r].ch IN
          /\ i \in Instances /\ c \in Challengers /\ UNCHANGED history
          /\ Others(r) /\ req'[r].pc \notin {"retire", "stamp"}
          /\ \/ UNCHANGED <<inst, raced>>
             \/ /\ Deployable(i, c)
                /\ inst'[i].champ = c /\ inst'[i].status = inst[i].status
                /\ \A j \in Instances \ {i} : inst'[j] = inst[j]
                /\ raced \subseteq raced'
                /\ \A q \in Requests :
                     req[q].pc \in {"retire", "stamp"} /\ req[q].ch = c => c \in raced'
      BY <1>12, DeployEffect DEF Idle
    <2>2. \A c : RowsOf(c)' = RowsOf(c) /\ \A n \in RowsOf(c) : Active(n)' = Active(n)
      BY <2>1 DEF RowsOf, Active
    <2>3. SUFFICES ASSUME NEW i \in Instances, inst'[i].status # "retired",
                          inst'[i].champ # NULL,
                          \A n \in RowsOf(inst'[i].champ) : ~Active(n)
                   PROVE  inst'[i].champ \in raced'
      BY <2>2 DEF RetiredDeployedOnlyByRace
    <2>4. CASE UNCHANGED <<inst, raced>>
      BY <1>0, <2>3, <2>4 DEF RetiredDeployedOnlyByRace
    <2>5. CASE i = req[r].inst /\ ~UNCHANGED <<inst, raced>>
      <3>1. Deployable(i, inst'[i].champ)
        BY <2>1, <2>5
      <3> QED
        BY <2>3, <3>1 DEF Deployable
    <2>6. CASE i # req[r].inst
      BY <1>0, <2>1, <2>3, <2>6 DEF RetiredDeployedOnlyByRace
    <2> QED
      BY <2>4, <2>5, <2>6
  <1>13. ASSUME NEW r \in Requests, DeployAudit(r) PROVE RetiredDeployedOnlyByRace'
    BY <1>0, <1>13, ChampionsAssumption DEF DeployAudit, TypeOK, RequestSound, GateHolds,
       RetiredDeployedOnlyByRace, RowsOf, Active, Blocking, InstanceRow, Request, Idle, Done
  <1>14. ASSUME NEW r \in Requests, TransitionWrite(r) PROVE RetiredDeployedOnlyByRace'
    BY <1>0, <1>14, TransitionEffect, ChampionsAssumption DEF RequestSound, GateHolds,
       RetiredDeployedOnlyByRace, RowsOf, Active, Blocking, Others, Idle
  <1>15. ASSUME NEW r \in Requests, Abandon(r) PROVE RetiredDeployedOnlyByRace'
    BY <1>0, <1>15, ChampionsAssumption DEF Abandon, TypeOK, RequestSound, GateHolds,
       RetiredDeployedOnlyByRace, RowsOf, Active, Blocking, InstanceRow, Request, Idle, Done
  <1>16. CASE UNCHANGED vars
    BY <1>0, <1>16 DEF vars, RequestSound, GateHolds, RetiredDeployedOnlyByRace, RowsOf,
       Active, Blocking
  <1> QED
    BY <1>1, <1>2, <1>3, <1>4, <1>5, <1>6, <1>7, <1>8, <1>9, <1>10, <1>11, <1>12, <1>13,
       <1>14, <1>15, <1>16 DEF Next

\* The empty database satisfies the inductive invariant.
LEMMA InitInv == Init => IInv
  <1> SUFFICES ASSUME Init PROVE IInv
    OBVIOUS
  <1>1. TypeOK
    <2>1. NoInstance \in InstanceRow
      BY DEF NoInstance, InstanceRow
    <2> QED
      BY <2>1, IdleType, ChampionsAssumption DEF Init, TypeOK
  <1>2. DOMAIN history = {} /\ \A r \in Requests : req[r].pc = "idle"
    BY DEF Init, Idle
  <1>3. \A c : RowsOf(c) = {}
    BY <1>2 DEF RowsOf
  <1>4. \A i \in Instances : inst[i].champ = NULL
    BY DEF Init, NoInstance
  <1> QED
    BY <1>1, <1>2, <1>3, <1>4
       DEF Init, IInv, RequestSound, GateHolds, OneActiveChampion, PromotedHasRow,
           RetiredDeployedOnlyByRace

\* IInv is inductive.
LEMMA Inductive == Spec => []IInv
  <1>1. IInv /\ [Next]_vars => IInv'
    BY TypeStep, RequestSoundStep, GateHoldsStep, OneActiveChampionStep, PromotedHasRowStep,
       RetiredDeployedOnlyByRaceStep DEF IInv
  <1> QED
    BY InitInv, <1>1, PTL DEF Spec

-----------------------------------------------------------------------------
\* The rows and the requests keep their types in every behaviour (champion.go,
\* instance.go).
THEOREM Typing == Spec => []TypeOK
  BY Inductive, PTL DEF IInv

\* However many promotes run at once, a (strategy, pair) has at most one active
\* champion (uq_champion_active under ChampionRepo.Promote).
THEOREM OneActive == Spec => []OneActiveChampion
  BY Inductive, PTL DEF IInv

\* A challenger reads promoted exactly if it has a history row, whichever request
\* loses the race or is abandoned half-way (ChampionRepo.Promote).
THEOREM PromotedBacked == Spec => []PromotedHasRow
  BY Inductive, PTL DEF IInv

\* A retired champion stays deployed only where the deploy was written after the
\* retire had passed its gate (RetireChampion, SetActiveChampion).
THEOREM RetireGateHolds == Spec => []RetiredDeployedOnlyByRace
  BY Inductive, PTL DEF IInv

\* No request under way revives a retired instance or changes its champion
\* (UpdateStatus, SetActiveChampion).
THEOREM RetiredInstanceFinal == Spec => RetiredIsFinal
  <1> DEFINE Final == \A i \in Instances : inst[i].status = "retired" => inst'[i] = inst[i]
  <1>1. ASSUME IInv, [Next]_vars PROVE Final
    <2>1. ASSUME NEW i \in Instances, NEW a \in Accounts, NEW t \in Tuples, CreateInstance(i, a, t)
          PROVE  Final
      BY <1>1, <2>1 DEF CreateInstance, IInv, TypeOK
    <2>2. ASSUME NEW i \in Instances, RetireInstance(i) PROVE Final
      BY <1>1, <2>2 DEF RetireInstance, IInv, TypeOK
    <2>3. ASSUME NEW r \in Requests, DeployWrite(r) PROVE Final
      BY <1>1, <2>3, DeployEffect DEF Deployable
    <2>4. ASSUME NEW r \in Requests, TransitionWrite(r) PROVE Final
      BY <1>1, <2>4, TransitionEffect
    <2>5. CASE UNCHANGED inst
      BY <2>5
    <2> QED
      BY <1>1, <2>1, <2>2, <2>3, <2>4, <2>5
         DEF Next, vars, Save, PromoteRead, RetireGate, DeployRead, TransitionRead, PromoteCount,
             PromoteWrite, RetireRead, RetireWrite, DeployAudit, Abandon
  <1> QED
    BY <1>1, Inductive, PTL DEF Spec, RetiredIsFinal
=============================================================================
