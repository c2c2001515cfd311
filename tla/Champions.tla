----------------------------- MODULE Champions -----------------------------
(***************************************************************************)
(* Challengers become champions and champions are deployed to instances:   *)
(* the HTTP handlers of internal/api/handlers.go over the repositories     *)
(* champion.go, instance.go and challenger.go.                             *)
(*                                                                         *)
(* Every handler runs in a goroutine of its own and issues one SQL         *)
(* statement after the other, so a request is a record with a program      *)
(* counter and each statement that reads or writes shared rows is a step.  *)
(* The database is READ COMMITTED: a statement sees what is committed when *)
(* it starts; the UPDATE and the INSERT that end a Promote become visible  *)
(* together, at its commit.                                                *)
(*                                                                         *)
(* Abstractions: (strategy_id, pair) is one Tuple, (owner, account_id) one *)
(* Account; the price cap is the set Wide of challengers whose slippage    *)
(* exceeds it; request bodies are valid, and an error answer is the end of *)
(* the request.  No code writes decision_status rejected, so it is left    *)
(* out.                                                                    *)
(***************************************************************************)
EXTENDS Naturals, Sequences, FiniteSets

CONSTANTS
    Challengers,  \* challenger ids
    Instances,    \* instance ids
    Accounts,     \* (owner_user_id, account_id)
    Tuples,       \* (strategy_id, pair)
    TupleOf,      \* the tuple a challenger was evolved for
    TestMode,     \* challengers evolved with test_mode
    Wide,         \* challengers whose slippage_bps exceeds the price cap
    Requests,     \* HTTP requests in flight at once
    MaxRows,      \* bound: champion_histories rows
    NULL

ASSUME ChampionsAssumption ==
    /\ TupleOf \in [Challengers -> Tuples]
    /\ TestMode \subseteq Challengers /\ Wide \subseteq Challengers
    /\ MaxRows \in Nat
    /\ NULL \notin Challengers \cup Instances \cup Accounts \cup Tuples

VARIABLES
    genes,    \* gene_records: decision_status per challenger, "none" = no row
    history,  \* champion_histories in id order
    inst,     \* strategy_instances
    audit,    \* audit_logs: instance.deploy_champion rows
    req,      \* the requests in flight
    raced     \* ghost: champions deployed while a retire of them was past its gate

vars == <<genes, history, inst, audit, req, raced>>

Statuses == {"idle", "live", "paused", "retired"}

NoInstance == [status |-> "none", account |-> NULL, tuple |-> NULL, champ |-> NULL]

Idle == [pc |-> "idle", ch |-> NULL, inst |-> NULL, seen |-> "none", row |-> 0]

HistoryRow == [ch : Challengers, tuple : Tuples, retired : BOOLEAN]

InstanceRow == [status  : {"none"} \cup Statuses,
                account : Accounts \cup {NULL},
                tuple   : Tuples \cup {NULL},
                champ   : Challengers \cup {NULL}]

Request == [pc   : {"idle", "count", "promote", "retire", "stamp", "deploy", "audit",
                    "start", "stop"},
            ch   : Challengers \cup {NULL},
            inst : Instances \cup {NULL},
            seen : {"none", "pending", "promoted"} \cup Statuses,
            row  : 0 .. MaxRows]

TypeOK ==
    /\ genes \in [Challengers -> {"none", "pending", "promoted"}]
    /\ history \in Seq(HistoryRow) /\ Len(history) <= MaxRows
    /\ inst \in [Instances -> InstanceRow]
    /\ req \in [Requests -> Request]
    /\ audit \subseteq Instances \X Challengers
    /\ raced \subseteq Challengers

Init ==
    /\ genes = [c \in Challengers |-> "none"]
    /\ history = << >>
    /\ inst = [i \in Instances |-> NoInstance]
    /\ audit = {}
    /\ req = [r \in Requests |-> Idle]
    /\ raced = {}

Active(n) == ~history[n].retired

RowsOf(c) == {n \in DOMAIN history : history[n].ch = c}

\* A request ends: its answer is sent and its goroutine returns.
Done(r) == req' = [req EXCEPT ![r] = Idle]

\* ChallengerRepo.Save of a finished epoch: a pending gene_records row.
Save(c) ==
    /\ genes[c] = "none"
    /\ genes' = [genes EXCEPT ![c] = "pending"]
    /\ UNCHANGED <<history, inst, audit, req, raced>>

---------------------------------------------------------------------------
(* POST /challengers/:id/promote *)

\* ChampionRepo.Promote opens its transaction and reads the gene record.
PromoteRead(r, c) ==
    /\ req[r].pc = "idle" /\ genes[c] # "none"
    /\ req' = [req EXCEPT ![r] = [Idle EXCEPT !.pc = "count", !.ch = c, !.seen = genes[c]]]
    /\ UNCHANGED <<genes, history, inst, audit, raced>>

\* The decision kernel applyPromote, on the record as it was read.
MayPromote(c, seen, activeOther) ==
    c \notin TestMode /\ seen # "promoted" /\ activeOther = 0

\* Promote counts the active rows of other challengers and decides.
PromoteCount(r) ==
    /\ req[r].pc = "count"
    /\ LET c == req[r].ch
           activeOther == Cardinality({n \in DOMAIN history :
                /\ history[n].tuple = TupleOf[c] /\ Active(n) /\ history[n].ch # c})
       IN IF MayPromote(c, req[r].seen, activeOther)
          THEN req' = [req EXCEPT ![r].pc = "promote"]
          ELSE Done(r)
    /\ UNCHANGED <<genes, history, inst, audit, raced>>

\* Mutant of ChampionIndexFree: no such index.
NoChampionIndex(t) == TRUE

\* uq_champion_active: another active row of the tuple refuses the INSERT.
ChampionIndexFree(t) == \A n \in DOMAIN history : Active(n) => history[n].tuple # t

\* Mutant of PromoteWrite: a refused INSERT does not roll the UPDATE back.
PromoteWriteNoRollback(r) ==
    /\ req[r].pc = "promote"
    /\ genes' = [genes EXCEPT ![req[r].ch] = "promoted"]
    /\ history' = IF ChampionIndexFree(TupleOf[req[r].ch]) /\ Len(history) < MaxRows
                  THEN Append(history, [ch |-> req[r].ch, tuple |-> TupleOf[req[r].ch],
                                        retired |-> FALSE])
                  ELSE history
    /\ Done(r) /\ UNCHANGED <<inst, audit, raced>>

\* The UPDATE of the gene record, the INSERT of the history row and the commit;
\* a unique violation rolls both back.
PromoteWrite(r) ==
    /\ req[r].pc = "promote"
    /\ LET c == req[r].ch
       IN \/ /\ ChampionIndexFree(TupleOf[c]) /\ Len(history) < MaxRows
             /\ genes' = [genes EXCEPT ![c] = "promoted"]
             /\ history' = Append(history, [ch |-> c, tuple |-> TupleOf[c], retired |-> FALSE])
          \/ /\ ~ChampionIndexFree(TupleOf[c])
             /\ UNCHANGED <<genes, history>>
    /\ Done(r) /\ UNCHANGED <<inst, audit, raced>>

---------------------------------------------------------------------------
(* POST /champions/:id/retire *)

\* BlockingInstanceForChampion: the non-retired instances that deploy c.
Blocking(c) == {i \in Instances : inst[i].champ = c /\ inst[i].status # "retired"}

\* Mutant of RetireGate: the gate is not looked at.
RetireNoGate(r, c) ==
    /\ req[r].pc = "idle"
    /\ req' = [req EXCEPT ![r] = [Idle EXCEPT !.pc = "retire", !.ch = c]]
    /\ UNCHANGED <<genes, history, inst, audit, raced>>

\* RetireChampion's safety gate; a blocked request is answered 422 at once.
RetireGate(r, c) ==
    /\ req[r].pc = "idle"
    /\ Blocking(c) = {}
    /\ req' = [req EXCEPT ![r] = [Idle EXCEPT !.pc = "retire", !.ch = c]]
    /\ UNCHANGED <<genes, history, inst, audit, raced>>

\* ChampionRepo.Retire reads the first row of the challenger: none is a 404,
\* a retired one ErrAlreadyRetired.
RetireRead(r) ==
    /\ req[r].pc = "retire"
    /\ LET rows == RowsOf(req[r].ch)
           first == CHOOSE n \in rows : \A m \in rows : n <= m
       IN IF rows # {} /\ Active(first)
          THEN req' = [req EXCEPT ![r].pc = "stamp", ![r].row = first]
          ELSE Done(r)
    /\ UNCHANGED <<genes, history, inst, audit, raced>>

\* retireHistory: UPDATE ... WHERE id = ? AND retired_at IS NULL.
RetireWrite(r) ==
    /\ req[r].pc = "stamp"
    /\ history' = [history EXCEPT ![req[r].row].retired = TRUE]
    /\ Done(r) /\ UNCHANGED <<genes, inst, audit, raced>>

---------------------------------------------------------------------------
(* The instance handlers *)

\* uq_inst_one_per_account (and, weaker, idx_inst_unique_active).
AccountFree(a) ==
    \A i \in Instances : inst[i].account = a => inst[i].status \in {"none", "retired"}

\* POST /instances: one INSERT in status idle; the index answers 409.
CreateInstance(i, a, t) ==
    /\ inst[i].status = "none" /\ AccountFree(a)
    /\ inst' = [inst EXCEPT ![i] = [status |-> "idle", account |-> a, tuple |-> t,
                                    champ |-> NULL]]
    /\ UNCHANGED <<genes, history, audit, req, raced>>

\* DeployChampion loads the challenger and refuses a cap below its slippage.
DeployRead(r, i, c) ==
    /\ req[r].pc = "idle" /\ genes[c] # "none" /\ c \notin Wide
    /\ inst[i].status # "none"
    /\ req' = [req EXCEPT ![r] = [Idle EXCEPT !.pc = "deploy", !.ch = c, !.inst = i]]
    /\ UNCHANGED <<genes, history, inst, audit, raced>>

\* The predicate of SetActiveChampion's UPDATE.
Deployable(i, c) ==
    /\ inst[i].status # "retired"
    /\ \E n \in RowsOf(c) : Active(n) /\ history[n].tuple = inst[i].tuple

\* SetActiveChampion: one UPDATE; no row changed is a 404 or a 422.
DeployWrite(r) ==
    /\ req[r].pc = "deploy"
    /\ LET i == req[r].inst
           c == req[r].ch
       IN \/ /\ Deployable(i, c)
             /\ inst' = [inst EXCEPT ![i].champ = c]
             /\ req' = [req EXCEPT ![r].pc = "audit"]
             /\ raced' = IF \E q \in Requests : req[q].pc \in {"retire", "stamp"} /\ req[q].ch = c
                         THEN raced \cup {c} ELSE raced
          \/ ~Deployable(i, c) /\ Done(r) /\ UNCHANGED <<inst, raced>>
    /\ UNCHANGED <<genes, history, audit>>

\* recordDeployAudit appends the provenance row (Abandon: the row is lost, and
\* the deploy stands).
DeployAudit(r) ==
    /\ req[r].pc = "audit"
    /\ audit' = audit \cup {<<req[r].inst, req[r].ch>>}
    /\ Done(r) /\ UNCHANGED <<genes, history, inst, raced>>

\* StartInstance and StopInstance through transitionInstance: read the status,
\* refuse a retired instance, answer at once when there is nothing to change.
TransitionRead(r, i, op) ==
    /\ req[r].pc = "idle"
    /\ inst[i].status \in {"idle", "live", "paused"}
    /\ inst[i].status # (IF op = "start" THEN "live" ELSE "paused")
    /\ req' = [req EXCEPT ![r] = [Idle EXCEPT !.pc = op, !.inst = i, !.seen = inst[i].status]]
    /\ UNCHANGED <<genes, history, inst, audit, raced>>

\* Mutants of UpdateStatus: the operation's name is stored; the UPDATE without
\* the compare-and-set predicate.
UpdateStatusOp(r, to) ==
    inst' = [inst EXCEPT ![req[r].inst].status = req[r].pc]
UpdateStatusBlind(r, to) ==
    inst' = [inst EXCEPT ![req[r].inst].status = to]

\* UpdateStatus: WHERE status = from.
UpdateStatus(r, to) ==
    inst' = IF inst[req[r].inst].status = req[r].seen
            THEN [inst EXCEPT ![req[r].inst].status = to] ELSE inst

TransitionWrite(r) ==
    /\ \/ req[r].pc = "start" /\ UpdateStatus(r, "live")
       \/ req[r].pc = "stop" /\ UpdateStatus(r, "paused")
    /\ Done(r) /\ UNCHANGED <<genes, history, audit, raced>>

\* POST /instances/:id/retire: one UPDATE from any status but retired.
RetireInstance(i) ==
    /\ inst[i].status \in {"idle", "live", "paused"}
    /\ inst' = [inst EXCEPT ![i].status = "retired"]
    /\ UNCHANGED <<genes, history, audit, req, raced>>

\* The client disconnects, a statement fails or the process dies: the request
\* stops between two statements and an open transaction is rolled back.
Abandon(r) ==
    /\ req[r].pc # "idle"
    /\ Done(r) /\ UNCHANGED <<genes, history, inst, audit, raced>>

Next ==
    \/ \E c \in Challengers : Save(c)
    \/ \E i \in Instances, a \in Accounts, t \in Tuples : CreateInstance(i, a, t)
    \/ \E i \in Instances : RetireInstance(i)
    \/ \E r \in Requests :
         \/ \E c \in Challengers : PromoteRead(r, c) \/ RetireGate(r, c)
         \/ \E i \in Instances, c \in Challengers : DeployRead(r, i, c)
         \/ \E i \in Instances, op \in {"start", "stop"} : TransitionRead(r, i, op)
         \/ PromoteCount(r) \/ PromoteWrite(r)
         \/ RetireRead(r) \/ RetireWrite(r)
         \/ DeployWrite(r) \/ DeployAudit(r) \/ TransitionWrite(r)
         \/ Abandon(r)

Spec == Init /\ [][Next]_vars
---------------------------------------------------------------------------
\* At most one active champion per (strategy, pair), however many promotes
\* counted zero at once: uq_champion_active decides (champion.go, Promote).
OneActiveChampion ==
    \A m, n \in DOMAIN history :
        Active(m) /\ Active(n) /\ history[m].tuple = history[n].tuple => m = n

\* A challenger reads promoted exactly if champion_histories has a row for it:
\* the loser of a promote race leaves nothing behind (champion.go, Promote).
PromotedHasRow ==
    \A c \in Challengers : (genes[c] = "promoted") <=> (RowsOf(c) # {})

\* The safety gate of RetireChampion: a non-retired instance runs a champion
\* without an active row only if the deploy was written while a retire of that
\* champion had already passed the gate.
RetiredDeployedOnlyByRace ==
    \A i \in Instances :
        (/\ inst[i].status # "retired" /\ inst[i].champ # NULL
         /\ \A n \in RowsOf(inst[i].champ) : ~Active(n)) => inst[i].champ \in raced

\* What a request knows at each step: the rows it names exist, and a status it is to
\* replace is not retired.
RequestSound ==
    \A r \in Requests :
        /\ req[r].pc \in {"count", "promote", "retire", "stamp", "deploy", "audit"} =>
             req[r].ch \in Challengers
        /\ req[r].pc \in {"count", "promote"} => genes[req[r].ch] # "none"
        /\ req[r].pc \in {"deploy", "audit", "start", "stop"} => req[r].inst \in Instances
        /\ req[r].pc \in {"start", "stop"} => req[r].seen \in {"idle", "live", "paused"}
        /\ req[r].pc = "stamp" => req[r].row \in RowsOf(req[r].ch)

\* While a retire of a champion is past the gate, whoever deploys that champion
\* has raced it.
GateHolds ==
    \A r \in Requests : req[r].pc \in {"retire", "stamp"} =>
        \A i \in Blocking(req[r].ch) : req[r].ch \in raced

\* The inductive invariant of the proofs in ChampionsProofs.
IInv ==
    /\ TypeOK /\ RequestSound /\ GateHolds
    /\ OneActiveChampion /\ PromotedHasRow /\ RetiredDeployedOnlyByRace

\* A retired instance is final: no start, stop or deploy that was under way
\* revives it or changes its champion (UpdateStatus, SetActiveChampion).
RetiredIsFinal ==
    [][\A i \in Instances : inst[i].status = "retired" => inst'[i] = inst[i]]_vars
============================================================================
