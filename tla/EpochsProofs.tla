---------------------------- MODULE EpochsProofs ----------------------------
(***************************************************************************)
(* TLAPS proofs about Epochs: typing, distinct trial counts, backed        *)
(* successes and no silent orphan, for any tasks, any tuples and any       *)
(* number of faults, crashes and shutdowns.                                *)
(***************************************************************************)
EXTENDS Epochs, FiniteSetTheorems, TLAPS

-----------------------------------------------------------------------------
(* The bank *)

\* The rows of a tuple are at most the rows of the bank.
LEMMA BankCount ==
    ASSUME IsFiniteSet(bank), NEW t
    PROVE  /\ BankN(t) \in Nat /\ Cardinality(bank) \in Nat /\ BankN(t) <= Cardinality(bank)
  <1> DEFINE S == {u \in bank : TupleOf[u] = TupleOf[t]}
  <1>1. S \subseteq bank
    OBVIOUS
  <1> HIDE DEF S
  <1>2. IsFiniteSet(S) /\ Cardinality(S) <= Cardinality(bank)
    BY <1>1, FS_Subset
  <1>3. Cardinality(S) \in Nat /\ Cardinality(bank) \in Nat
    BY <1>2, FS_CardinalityType
  <1> QED
    BY <1>2, <1>3 DEF BankN, S

\* A new row adds one to its tuple and nothing to the others.
LEMMA BankGrows ==
    ASSUME TypeOK, NEW t \in Tasks, t \notin bank, bank' = bank \cup {t}
    PROVE  /\ IsFiniteSet(bank') /\ Cardinality(bank') = Cardinality(bank) + 1
           /\ \A u \in Tasks : /\ BankN(u) \in Nat
                               /\ TupleOf[u] = TupleOf[t] => BankN(u)' = BankN(u) + 1
                               /\ TupleOf[u] # TupleOf[t] => BankN(u)' = BankN(u)
  <1>0. IsFiniteSet(bank)
    BY DEF TypeOK
  <1>1. IsFiniteSet(bank') /\ Cardinality(bank') = Cardinality(bank) + 1
    BY <1>0, FS_AddElement
  <1>2. ASSUME NEW u \in Tasks, TupleOf[u] = TupleOf[t] PROVE BankN(u)' = BankN(u) + 1
    <2> DEFINE S == {v \in bank : TupleOf[v] = TupleOf[u]}
               R == {v \in bank' : TupleOf[v] = TupleOf[u]}
    <2>1. S \subseteq bank /\ t \notin S /\ R = S \cup {t}
      BY <1>2
    <2> HIDE DEF S, R
    <2>2. Cardinality(R) = Cardinality(S) + 1
      BY <1>0, <2>1, FS_Subset, FS_AddElement
    <2> QED
      BY <2>2 DEF BankN, S, R
  <1>3. ASSUME NEW u \in Tasks, TupleOf[u] # TupleOf[t] PROVE BankN(u)' = BankN(u)
    <2>1. {v \in bank' : TupleOf[v] = TupleOf[u]} = {v \in bank : TupleOf[v] = TupleOf[u]}
      BY <1>3
    <2> QED
      BY <2>1 DEF BankN
  <1> QED
    BY <1>0, <1>1, <1>2, <1>3, BankCount

\* The bank grows by the task at pc "bank", in BankAdd or unconfirmed, and else stays.
LEMMA BankStep ==
    ASSUME IInv, [Next]_vars
    PROVE  \/ UNCHANGED bank /\ \A u \in Tasks : BankN(u)' = BankN(u)
           \/ \E t \in Tasks : /\ pc[t] = "bank" /\ t \notin bank /\ bank' = bank \cup {t}
                               /\ UNCHANGED <<saved, trials>>
                               /\ pc' = [pc EXCEPT ![t] = pc'[t]]
                               /\ pc'[t] \in {"stats", "markfail"}
  <1>0. TypeOK /\ StageSound
    BY DEF IInv
  <1> USE DEF taskVars, world, procVars, report
  <1>1. ASSUME NEW t \in Tasks, BankAdd(t) \/ (WriteUnconfirmed(t) /\ pc[t] = "bank")
        PROVE  /\ pc[t] = "bank" /\ t \notin bank /\ bank' = bank \cup {t}
               /\ UNCHANGED <<saved, trials>>
               /\ pc' = [pc EXCEPT ![t] = pc'[t]] /\ pc'[t] \in {"stats", "markfail"}
    BY <1>0, <1>1 DEF BankAdd, WriteUnconfirmed, Goto, StageSound, Unbanked, TypeOK
  <1>2. ASSUME NEW t \in Tasks, WriteUnconfirmed(t), pc[t] # "bank" PROVE UNCHANGED bank
    BY <1>2 DEF WriteUnconfirmed
  <1>3. UNCHANGED bank => \A u \in Tasks : BankN(u)' = BankN(u)
    BY DEF BankN
  <1> QED
    BY <1>1, <1>2, <1>3 DEF Next, vars, Progress, CreateLock, CreateRow, MarkStarted, LoadPlan,
       RunEngine, BankStats, Verify, SaveChallenger, MarkSucceeded, StepFails, MarkFailed,
       ImportBar, Shutdown, Expire, Abort, Exit, Crash, Vanish, Restart

-----------------------------------------------------------------------------
(* Typing *)

\* What executeEpoch saves has a plan and a verdict.
LEMMA PackageTyped ==
    ASSUME IInv, NEW t \in Tasks, pc[t] = "save"
    PROVE  Package(t) \in PackageType
  <1>1. plan[t] \in MinBars .. MaxBars /\ review[t] \in {"ok", "mismatch"}
    BY DEF IInv, ReviewSound, TypeOK
  <1>2. trials[t] \in Nat
    BY BankCount, EpochsAssumption DEF IInv, TypeOK
  <1> QED
    BY <1>1, <1>2 DEF Package, PackageType

\* The bank stays finite, and no local exceeds it.
LEMMA BankTyped ==
    ASSUME IInv, NEW t \in Tasks, pc[t] = "bank", bank' = bank \cup {t}, UNCHANGED trials
    PROVE  /\ IsFiniteSet(bank') /\ bank' \subseteq Tasks
           /\ trials' \in [Tasks -> {0} \cup (MinTrials .. Cardinality(bank'))]
  <1>1. TypeOK /\ t \notin bank
    BY DEF IInv, StageSound, Unbanked
  <1>2. IsFiniteSet(bank') /\ Cardinality(bank') = Cardinality(bank) + 1
    BY <1>1, BankGrows
  <1>3. Cardinality(bank) \in Nat
    BY <1>1, BankCount DEF TypeOK
  <1>4. (MinTrials .. Cardinality(bank)) \subseteq (MinTrials .. Cardinality(bank'))
    BY <1>2, <1>3, EpochsAssumption
  <1> QED
    BY <1>1, <1>2, <1>4 DEF TypeOK

\* A task that ends leaves well-typed locals behind.
LEMMA FinishTyped ==
    ASSUME TypeOK, NEW t \in Tasks, Finish(t)
    PROVE  /\ pc' \in [Tasks -> {"none", "create", "markfail", "done"} \cup Pipeline]
           /\ lock' \in [Tuples -> Tasks \cup {NULL}]
           /\ trials' \in [Tasks -> {0} \cup (MinTrials .. Cardinality(bank))]
           /\ plan' \in [Tasks -> {0} \cup (MinBars .. MaxBars)]
           /\ review' \in [Tasks -> {"none", "ok", "mismatch"}]
  BY EpochsAssumption DEF TypeOK, Finish, Goto

\* TypeOK is preserved: a package is saved with a plan and a verdict.
LEMMA TypeStep == IInv /\ [Next]_vars => TypeOK'
  <1> SUFFICES ASSUME IInv, [Next]_vars PROVE TypeOK'
    OBVIOUS
  <1>0. IInv /\ TypeOK /\ StageSound /\ ReviewSound
    BY DEF IInv
  <1> USE DEF taskVars, world, procVars, report
  <1>1. ASSUME NEW t \in Tasks, CreateLock(t) PROVE TypeOK'
    BY <1>0, <1>1, EpochsAssumption DEF TypeOK, Pipeline, Active, Terminal, CreateLock, Goto
  <1>2. ASSUME NEW t \in Tasks, CreateRow(t) PROVE TypeOK'
    <2>1. UNCHANGED <<bank, saved, world, procVars>>
      BY <1>2 DEF CreateRow
    <2>2. faults' \in 0 .. MaxFaults /\ lost' \subseteq Tasks
      BY <1>0, <1>2, EpochsAssumption DEF TypeOK, CreateRow, Fault
    <2>3. status' \in [Tasks -> {"none"} \cup Active \cup Terminal]
      BY <1>0, <1>2 DEF TypeOK, CreateRow, SetStatus, Active
    <2>4. CASE Finish(t)
      BY <1>0, <2>1, <2>2, <2>3, <2>4, FinishTyped DEF TypeOK
    <2>5. CASE Goto(t, "start") /\ UNCHANGED <<lock, report>>
      BY <1>0, <2>1, <2>2, <2>3, <2>5 DEF TypeOK, Goto, Pipeline
    <2> QED
      BY <1>2, <2>4, <2>5 DEF CreateRow
  <1>3. ASSUME NEW t \in Tasks, MarkStarted(t) PROVE TypeOK'
    BY <1>0, <1>3, EpochsAssumption DEF TypeOK, Pipeline, Active, Terminal, MarkStarted, Goto,
       SetStatus
  <1>4. ASSUME NEW t \in Tasks, LoadPlan(t) PROVE TypeOK'
    BY <1>0, <1>4, EpochsAssumption DEF TypeOK, Pipeline, Active, Terminal, LoadPlan, Goto,
       LoadKLines, WindowsFit
  <1>5. ASSUME NEW t \in Tasks, RunEngine(t) PROVE TypeOK'
    BY <1>0, <1>5, EpochsAssumption DEF TypeOK, Pipeline, Active, Terminal, RunEngine, Goto
  <1>6. ASSUME NEW t \in Tasks, BankAdd(t) PROVE TypeOK'
    <2>1. /\ IsFiniteSet(bank') /\ bank' \subseteq Tasks
          /\ trials' \in [Tasks -> {0} \cup (MinTrials .. Cardinality(bank'))]
      BY <1>0, <1>6, BankTyped DEF BankAdd
    <2> QED
      BY <1>0, <1>6, <2>1 DEF TypeOK, Pipeline, BankAdd, Goto
  <1>7. ASSUME NEW t \in Tasks, BankStats(t) PROVE TypeOK'
    <2>1. BankN(t) \in Nat /\ BankN(t) <= Cardinality(bank) /\ Cardinality(bank) \in Nat
      BY <1>0, BankCount DEF TypeOK
    <2>2. trials' \in [Tasks -> {0} \cup (MinTrials .. Cardinality(bank))]
      BY <1>0, <1>7, <2>1, EpochsAssumption DEF TypeOK, BankStats
    <2> QED
      BY <1>0, <1>7, <2>2 DEF TypeOK, Pipeline, BankStats, Goto
  <1>8. ASSUME NEW t \in Tasks, Verify(t) PROVE TypeOK'
    BY <1>0, <1>8, EpochsAssumption DEF TypeOK, Pipeline, Active, Terminal, Verify, Goto,
       RunReview, LoadKLines
  <1>9. ASSUME NEW t \in Tasks, SaveChallenger(t) PROVE TypeOK'
    <2>1. Package(t) \in PackageType
      BY <1>0, <1>9, PackageTyped DEF SaveChallenger
    <2> QED
      BY <1>0, <1>9, <2>1 DEF TypeOK, Pipeline, SaveChallenger, Goto
  <1>10. ASSUME NEW t \in Tasks, MarkSucceeded(t) PROVE TypeOK'
    <2>1. status' \in [Tasks -> {"none"} \cup Active \cup Terminal]
      BY <1>0, <1>10 DEF TypeOK, MarkSucceeded, SetStatus, Terminal
    <2> QED
      BY <1>0, <1>10, <2>1, FinishTyped DEF TypeOK, MarkSucceeded
  <1>11. ASSUME NEW t \in Tasks, StepFails(t) PROVE TypeOK'
    BY <1>0, <1>11, EpochsAssumption DEF TypeOK, Pipeline, Active, Terminal, StepFails, Goto,
       Fault
  <1>12. ASSUME NEW t \in Tasks, WriteUnconfirmed(t) PROVE TypeOK'
    <2>1. pc' \in [Tasks -> {"none", "create", "markfail", "done"} \cup Pipeline]
      BY <1>0, <1>12 DEF TypeOK, WriteUnconfirmed, Goto
    <2>2. faults' \in 0 .. MaxFaults
      BY <1>0, <1>12, EpochsAssumption DEF TypeOK, WriteUnconfirmed, Fault
    <2>3. status' \in [Tasks -> {"none"} \cup Active \cup Terminal]
      BY <1>0, <1>12 DEF TypeOK, WriteUnconfirmed, SetStatus, Active, Terminal
    <2>4. saved' \subseteq PackageType
      BY <1>0, <1>12, PackageTyped DEF TypeOK, WriteUnconfirmed
    <2>5. /\ IsFiniteSet(bank') /\ bank' \subseteq Tasks
          /\ trials' \in [Tasks -> {0} \cup (MinTrials .. Cardinality(bank'))]
      BY <1>0, <1>12, BankTyped DEF TypeOK, WriteUnconfirmed
    <2> QED
      BY <1>0, <1>12, <2>1, <2>2, <2>3, <2>4, <2>5 DEF TypeOK, WriteUnconfirmed
  <1>13. ASSUME NEW t \in Tasks, MarkFailed(t) PROVE TypeOK'
    <2>1. Finish(t) /\ UNCHANGED <<bank, saved, world, procVars>>
      BY <1>13 DEF MarkFailed
    <2>2. faults' \in 0 .. MaxFaults /\ lost' \subseteq Tasks
      BY <1>0, <1>13, EpochsAssumption DEF TypeOK, MarkFailed, Fault
    <2>3. status' \in [Tasks -> {"none"} \cup Active \cup Terminal]
      BY <1>0, <1>13 DEF TypeOK, MarkFailed, SetStatus, Terminal
    <2> QED
      BY <1>0, <2>1, <2>2, <2>3, FinishTyped DEF TypeOK
  <1>14. ASSUME ImportBar PROVE TypeOK'
    BY <1>0, <1>14, EpochsAssumption DEF TypeOK, Pipeline, Active, Terminal, ImportBar
  <1>15. ASSUME Shutdown PROVE TypeOK'
    BY <1>0, <1>15, EpochsAssumption DEF TypeOK, Pipeline, Active, Terminal, Shutdown
  <1>16. ASSUME Expire PROVE TypeOK'
    BY <1>0, <1>16, EpochsAssumption DEF TypeOK, Pipeline, Active, Terminal, Expire
  <1>17. ASSUME Abort PROVE TypeOK'
    BY <1>0, <1>17, EpochsAssumption DEF TypeOK, Pipeline, Active, Terminal, Abort
  <1>18. ASSUME Exit PROVE TypeOK'
    BY <1>0, <1>18, EpochsAssumption DEF TypeOK, Pipeline, Active, Terminal, Exit, Vanish
  <1>19. ASSUME Crash PROVE TypeOK'
    <2>1. stops' \in 0 .. MaxStops
      BY <1>0, <1>19, EpochsAssumption DEF TypeOK, Crash
    <2> QED
      BY <1>0, <1>19, <2>1 DEF TypeOK, Crash, Vanish
  <1>20. ASSUME Restart PROVE TypeOK'
    <2>1. faults' \in 0 .. MaxFaults /\ lost' \subseteq Tasks
      BY <1>0, <1>20, EpochsAssumption DEF TypeOK, Restart, Fault
    <2>2. status' \in [Tasks -> {"none"} \cup Active \cup Terminal]
      BY <1>0, <1>20 DEF TypeOK, Restart, Sweep, Terminal
    <2> QED
      BY <1>0, <1>20, <2>1, <2>2 DEF TypeOK, Restart
  <1>21. CASE UNCHANGED <<status, pc, lock, bank, saved, lost, klines, drifted, proc, late,
              drained, stops, faults, trials, plan, review>>
    BY <1>0, <1>21 DEF TypeOK, Pipeline, Active, Terminal
  <1> QED
    BY <1>1, <1>2, <1>3, <1>4, <1>5, <1>6, <1>7, <1>8, <1>9, <1>10, <1>11, <1>12, <1>13, <1>14,
       <1>15, <1>16, <1>17, <1>18, <1>19, <1>20, <1>21 DEF Next, vars, Progress

\* Nobody takes or frees a mutex another task of the tuple holds.
LEMMA LockStep == IInv /\ [Next]_vars => LockHeld'
  <1> SUFFICES ASSUME IInv, [Next]_vars PROVE LockHeld'
    OBVIOUS
  <1>0. TypeOK /\ LockHeld
    BY DEF IInv
  <1> USE DEF taskVars, world, procVars, report
  <1>1. ASSUME NEW t \in Tasks, CreateLock(t) PROVE LockHeld'
    BY <1>0, <1>1, EpochsAssumption DEF LockHeld, TypeOK, CreateLock, Goto
  <1>2. ASSUME NEW t \in Tasks, CreateRow(t) PROVE LockHeld'
    BY <1>0, <1>2, EpochsAssumption DEF LockHeld, TypeOK, CreateRow, Goto, SetStatus, Finish,
       Fault
  <1>3. ASSUME NEW t \in Tasks, MarkStarted(t) PROVE LockHeld'
    BY <1>0, <1>3 DEF LockHeld, TypeOK, MarkStarted, Goto, SetStatus
  <1>4. ASSUME NEW t \in Tasks, LoadPlan(t) PROVE LockHeld'
    BY <1>0, <1>4 DEF LockHeld, TypeOK, LoadPlan, Goto, LoadKLines, WindowsFit
  <1>5. ASSUME NEW t \in Tasks, RunEngine(t) PROVE LockHeld'
    BY <1>0, <1>5 DEF LockHeld, TypeOK, RunEngine, Goto
  <1>6. ASSUME NEW t \in Tasks, BankAdd(t) PROVE LockHeld'
    BY <1>0, <1>6 DEF LockHeld, TypeOK, BankAdd, Goto
  <1>7. ASSUME NEW t \in Tasks, BankStats(t) PROVE LockHeld'
    BY <1>0, <1>7 DEF LockHeld, TypeOK, BankStats, Goto
  <1>8. ASSUME NEW t \in Tasks, Verify(t) PROVE LockHeld'
    BY <1>0, <1>8 DEF LockHeld, TypeOK, Verify, Goto, RunReview, LoadKLines
  <1>9. ASSUME NEW t \in Tasks, SaveChallenger(t) PROVE LockHeld'
    BY <1>0, <1>9 DEF LockHeld, TypeOK, SaveChallenger, Goto
  <1>10. ASSUME NEW t \in Tasks, MarkSucceeded(t) PROVE LockHeld'
    BY <1>0, <1>10, EpochsAssumption DEF LockHeld, TypeOK, MarkSucceeded, Goto, SetStatus,
       Finish
  <1>11. ASSUME NEW t \in Tasks, StepFails(t) PROVE LockHeld'
    BY <1>0, <1>11 DEF LockHeld, TypeOK, StepFails, Goto, Fault, Pipeline
  <1>12. ASSUME NEW t \in Tasks, WriteUnconfirmed(t) PROVE LockHeld'
    BY <1>0, <1>12 DEF LockHeld, TypeOK, WriteUnconfirmed, Goto, Fault, SetStatus
  <1>13. ASSUME NEW t \in Tasks, MarkFailed(t) PROVE LockHeld'
    BY <1>0, <1>13, EpochsAssumption DEF LockHeld, TypeOK, MarkFailed, Goto, Fault, SetStatus,
       Finish
  <1>14. ASSUME Exit PROVE LockHeld'
    BY <1>0, <1>14 DEF LockHeld, TypeOK, Exit, Vanish
  <1>15. ASSUME Crash PROVE LockHeld'
    BY <1>0, <1>15 DEF LockHeld, TypeOK, Crash, Vanish
  <1>16. CASE UNCHANGED <<pc, lock>>
    BY <1>0, <1>16 DEF LockHeld
  <1> QED
    BY <1>1, <1>2, <1>3, <1>4, <1>5, <1>6, <1>7, <1>8, <1>9, <1>10, <1>11, <1>12, <1>13, <1>14,
       <1>15, <1>16 DEF Next, vars, Progress, ImportBar, Shutdown, Expire, Abort, Restart,
       Sweep, Fault

\* Stages are passed in order.
LEMMA StageStep == IInv /\ [Next]_vars => StageSound'
  <1> SUFFICES ASSUME IInv, [Next]_vars PROVE StageSound'
    OBVIOUS
  <1>0. TypeOK /\ StageSound
    BY DEF IInv
  <1> USE DEF taskVars, world, procVars, report
  <1>1. ASSUME NEW t \in Tasks, CreateLock(t) PROVE StageSound'
    BY <1>0, <1>1 DEF StageSound, TypeOK, Unsaved, Unbanked, CreateLock, Goto
  <1>2. ASSUME NEW t \in Tasks, CreateRow(t) PROVE StageSound'
    BY <1>0, <1>2 DEF StageSound, TypeOK, Unsaved, Unbanked, CreateRow, Goto, SetStatus, Finish,
       Fault
  <1>3. ASSUME NEW t \in Tasks, MarkStarted(t) PROVE StageSound'
    BY <1>0, <1>3 DEF StageSound, TypeOK, Unsaved, Unbanked, MarkStarted, Goto, SetStatus
  <1>4. ASSUME NEW t \in Tasks, LoadPlan(t) PROVE StageSound'
    BY <1>0, <1>4 DEF StageSound, TypeOK, Unsaved, Unbanked, LoadPlan, Goto, LoadKLines,
       WindowsFit
  <1>5. ASSUME NEW t \in Tasks, RunEngine(t) PROVE StageSound'
    BY <1>0, <1>5 DEF StageSound, TypeOK, Unsaved, Unbanked, RunEngine, Goto
  <1>6. ASSUME NEW t \in Tasks, BankAdd(t) PROVE StageSound'
    BY <1>0, <1>6 DEF StageSound, TypeOK, Unsaved, Unbanked, BankAdd, Goto
  <1>7. ASSUME NEW t \in Tasks, BankStats(t) PROVE StageSound'
    BY <1>0, <1>7 DEF StageSound, TypeOK, Unsaved, Unbanked, BankStats, Goto
  <1>8. ASSUME NEW t \in Tasks, Verify(t) PROVE StageSound'
    BY <1>0, <1>8 DEF StageSound, TypeOK, Unsaved, Unbanked, Verify, Goto, RunReview, LoadKLines
  <1>9. ASSUME NEW t \in Tasks, SaveChallenger(t) PROVE StageSound'
    <2>1. saved' = saved \cup {Package(t)} /\ pc[t] = "save" /\ pc' = [pc EXCEPT ![t] = "markok"]
          /\ UNCHANGED <<status, bank, trials>>
      BY <1>9 DEF SaveChallenger, Goto
    <2>2. Package(t).task = t
      BY DEF Package
    <2> QED
      BY <1>0, <2>1, <2>2 DEF StageSound, TypeOK, Unsaved, Unbanked
  <1>10. ASSUME NEW t \in Tasks, MarkSucceeded(t) PROVE StageSound'
    BY <1>0, <1>10 DEF StageSound, TypeOK, Unsaved, Unbanked, MarkSucceeded, Goto, SetStatus,
       Finish
  <1>11. ASSUME NEW t \in Tasks, StepFails(t) PROVE StageSound'
    BY <1>0, <1>11 DEF StageSound, TypeOK, Unsaved, Unbanked, StepFails, Goto, Fault, Pipeline
  <1>12. ASSUME NEW t \in Tasks, WriteUnconfirmed(t) PROVE StageSound'
    BY <1>0, <1>12 DEF StageSound, TypeOK, Unsaved, Unbanked, WriteUnconfirmed, Goto, Fault,
       SetStatus, Package
  <1>13. ASSUME NEW t \in Tasks, MarkFailed(t) PROVE StageSound'
    BY <1>0, <1>13 DEF StageSound, TypeOK, Unsaved, Unbanked, MarkFailed, Goto, Fault,
       SetStatus, Finish
  <1>14. ASSUME Exit PROVE StageSound'
    BY <1>0, <1>14 DEF StageSound, TypeOK, Unsaved, Unbanked, Exit, Vanish
  <1>15. ASSUME Crash PROVE StageSound'
    BY <1>0, <1>15 DEF StageSound, TypeOK, Unsaved, Unbanked, Crash, Vanish
  <1>16. ASSUME Restart PROVE StageSound'
    BY <1>0, <1>16 DEF StageSound, TypeOK, Unsaved, Unbanked, Restart, Sweep, Fault, Active
  <1>17. CASE UNCHANGED <<pc, status, bank, trials, saved>>
    BY <1>0, <1>17 DEF StageSound, Unsaved, Unbanked
  <1> QED
    BY <1>1, <1>2, <1>3, <1>4, <1>5, <1>6, <1>7, <1>8, <1>9, <1>10, <1>11, <1>12, <1>13, <1>14,
       <1>15, <1>16, <1>17 DEF Next, vars, Progress, ImportBar, Shutdown, Expire, Abort

\* A task saves once.
LEMMA OnePackageStep == IInv /\ [Next]_vars => OnePackage'
  <1> SUFFICES ASSUME IInv, [Next]_vars PROVE OnePackage'
    OBVIOUS
  <1>0. TypeOK /\ OnePackage /\ StageSound
    BY DEF IInv
  <1> USE DEF taskVars, world, procVars, report
  <1>1. ASSUME NEW t \in Tasks, SaveChallenger(t) PROVE OnePackage'
    BY <1>0, <1>1 DEF OnePackage, StageSound, Unsaved, SaveChallenger, Goto, Package
  <1>2. ASSUME NEW t \in Tasks, WriteUnconfirmed(t) PROVE OnePackage'
    BY <1>0, <1>2 DEF OnePackage, StageSound, Unsaved, WriteUnconfirmed, Goto, Fault, SetStatus,
       Package
  <1>3. CASE UNCHANGED saved
    BY <1>0, <1>3 DEF OnePackage, StageSound, Unsaved
  <1> QED
    BY <1>1, <1>2, <1>3 DEF Next, vars, Progress, CreateLock, Goto, CreateRow, SetStatus,
       Finish, Fault, MarkStarted, LoadPlan, LoadKLines, WindowsFit, RunEngine, BankAdd,
       BankStats, Verify, RunReview, MarkSucceeded, StepFails, Pipeline, MarkFailed, ImportBar,
       Shutdown, Expire, Abort, Exit, Vanish, Crash, Restart, Sweep

\* The verdict of a review tells whether the data drifted.
LEMMA ReviewStep == IInv /\ [Next]_vars => ReviewSound'
  <1> SUFFICES ASSUME IInv, [Next]_vars PROVE ReviewSound'
    OBVIOUS
  <1>0. TypeOK /\ ReviewSound /\ StageSound
    BY DEF IInv
  <1> USE DEF taskVars, world, procVars, report
  <1>1. ASSUME NEW t \in Tasks, CreateLock(t) PROVE ReviewSound'
    BY <1>0, <1>1 DEF ReviewSound, TypeOK, CreateLock, Goto
  <1>2. ASSUME NEW t \in Tasks, CreateRow(t) PROVE ReviewSound'
    BY <1>0, <1>2 DEF ReviewSound, TypeOK, CreateRow, Goto, SetStatus, Finish, Fault
  <1>3. ASSUME NEW t \in Tasks, MarkStarted(t) PROVE ReviewSound'
    BY <1>0, <1>3 DEF ReviewSound, TypeOK, MarkStarted, Goto, SetStatus
  <1>4. ASSUME NEW t \in Tasks, LoadPlan(t) PROVE ReviewSound'
    BY <1>0, <1>4 DEF ReviewSound, TypeOK, LoadPlan, Goto, LoadKLines, WindowsFit
  <1>5. ASSUME NEW t \in Tasks, RunEngine(t) PROVE ReviewSound'
    BY <1>0, <1>5 DEF ReviewSound, TypeOK, RunEngine, Goto
  <1>6. ASSUME NEW t \in Tasks, BankAdd(t) PROVE ReviewSound'
    BY <1>0, <1>6 DEF ReviewSound, TypeOK, BankAdd, Goto
  <1>7. ASSUME NEW t \in Tasks, BankStats(t) PROVE ReviewSound'
    BY <1>0, <1>7 DEF ReviewSound, TypeOK, BankStats, Goto
  <1>8. ASSUME NEW t \in Tasks, Verify(t) PROVE ReviewSound'
    <2>1. /\ pc[t] = "review" /\ pc' = [pc EXCEPT ![t] = "save"]
          /\ UNCHANGED <<saved, drifted, plan, klines>>
          /\ review' = [review EXCEPT ![t] = IF klines = plan[t] THEN "ok" ELSE "mismatch"]
      BY <1>8 DEF Verify, Goto, RunReview, LoadKLines
    <2>2. plan[t] \in MinBars .. klines /\ (t \in drifted <=> plan[t] # klines)
      BY <1>0, <2>1 DEF ReviewSound
    <2>3. plan[t] \in MinBars .. MaxBars
      BY <1>0, <2>2, EpochsAssumption DEF TypeOK
    <2>4. review'[t] # "none" /\ (review'[t] = "ok" <=> t \notin drifted)
      BY <1>0, <2>1, <2>2 DEF TypeOK
    <2>5. \A u \in Tasks \ {t} : pc'[u] = pc[u] /\ review'[u] = review[u]
      BY <1>0, <2>1 DEF TypeOK
    <2>6. pc'[t] = "save"
      BY <1>0, <2>1 DEF TypeOK
    <2> QED
      BY <1>0, <2>1, <2>3, <2>4, <2>5, <2>6 DEF ReviewSound
  <1>9. ASSUME NEW t \in Tasks, SaveChallenger(t) PROVE ReviewSound'
    BY <1>0, <1>9 DEF ReviewSound, TypeOK, SaveChallenger, Goto, Package
  <1>10. ASSUME NEW t \in Tasks, MarkSucceeded(t) PROVE ReviewSound'
    BY <1>0, <1>10 DEF ReviewSound, TypeOK, MarkSucceeded, Goto, SetStatus, Finish
  <1>11. ASSUME NEW t \in Tasks, StepFails(t) PROVE ReviewSound'
    BY <1>0, <1>11 DEF ReviewSound, TypeOK, StepFails, Goto, Fault, Pipeline
  <1>12. ASSUME NEW t \in Tasks, WriteUnconfirmed(t) PROVE ReviewSound'
    BY <1>0, <1>12 DEF ReviewSound, TypeOK, WriteUnconfirmed, Goto, Fault, SetStatus, Package
  <1>13. ASSUME NEW t \in Tasks, MarkFailed(t) PROVE ReviewSound'
    BY <1>0, <1>13 DEF ReviewSound, TypeOK, MarkFailed, Goto, Fault, SetStatus, Finish
  <1>14. ASSUME ImportBar PROVE ReviewSound'
    BY <1>0, <1>14 DEF ReviewSound, TypeOK, ImportBar, StageSound, Unsaved, Unbanked,
       PackageType
  <1>15. ASSUME Exit PROVE ReviewSound'
    BY <1>0, <1>15 DEF ReviewSound, TypeOK, Exit, Vanish
  <1>16. ASSUME Crash PROVE ReviewSound'
    BY <1>0, <1>16 DEF ReviewSound, TypeOK, Crash, Vanish
  <1>17. CASE UNCHANGED <<saved, drifted, pc, plan, klines, review>>
    BY <1>0, <1>17 DEF ReviewSound
  <1> QED
    BY <1>1, <1>2, <1>3, <1>4, <1>5, <1>6, <1>7, <1>8, <1>9, <1>10, <1>11, <1>12, <1>13, <1>14,
       <1>15, <1>16, <1>17 DEF Next, vars, Progress, Shutdown, Expire, Abort, Restart, Sweep,
       Fault

\* An orphan is left behind only by a status write that went wrong.
LEMMA OrphanStep == IInv /\ [Next]_vars => NoSilentOrphan'
  <1> SUFFICES ASSUME IInv, [Next]_vars PROVE NoSilentOrphan'
    OBVIOUS
  <1>0. TypeOK /\ NoSilentOrphan /\ StageSound
    BY DEF IInv
  <1> USE DEF taskVars, world, procVars, report
  <1>1. ASSUME NEW t \in Tasks, CreateLock(t) PROVE NoSilentOrphan'
    BY <1>0, <1>1 DEF NoSilentOrphan, TypeOK, StageSound, Active, CreateLock, Goto
  <1>2. ASSUME NEW t \in Tasks, CreateRow(t) PROVE NoSilentOrphan'
    BY <1>0, <1>2 DEF NoSilentOrphan, TypeOK, StageSound, Active, CreateRow, Goto, SetStatus,
       Finish, Fault
  <1>3. ASSUME NEW t \in Tasks, MarkStarted(t) PROVE NoSilentOrphan'
    BY <1>0, <1>3 DEF NoSilentOrphan, TypeOK, StageSound, Active, MarkStarted, Goto, SetStatus
  <1>4. ASSUME NEW t \in Tasks, LoadPlan(t) PROVE NoSilentOrphan'
    BY <1>0, <1>4 DEF NoSilentOrphan, TypeOK, StageSound, Active, LoadPlan, Goto, LoadKLines,
       WindowsFit
  <1>5. ASSUME NEW t \in Tasks, RunEngine(t) PROVE NoSilentOrphan'
    BY <1>0, <1>5 DEF NoSilentOrphan, TypeOK, StageSound, Active, RunEngine, Goto
  <1>6. ASSUME NEW t \in Tasks, BankAdd(t) PROVE NoSilentOrphan'
    BY <1>0, <1>6 DEF NoSilentOrphan, TypeOK, StageSound, Active, BankAdd, Goto
  <1>7. ASSUME NEW t \in Tasks, BankStats(t) PROVE NoSilentOrphan'
    BY <1>0, <1>7 DEF NoSilentOrphan, TypeOK, StageSound, Active, BankStats, Goto
  <1>8. ASSUME NEW t \in Tasks, Verify(t) PROVE NoSilentOrphan'
    BY <1>0, <1>8 DEF NoSilentOrphan, TypeOK, StageSound, Active, Verify, Goto, RunReview,
       LoadKLines
  <1>9. ASSUME NEW t \in Tasks, SaveChallenger(t) PROVE NoSilentOrphan'
    BY <1>0, <1>9 DEF NoSilentOrphan, TypeOK, StageSound, Active, SaveChallenger, Goto
  <1>10. ASSUME NEW t \in Tasks, MarkSucceeded(t) PROVE NoSilentOrphan'
    BY <1>0, <1>10 DEF NoSilentOrphan, TypeOK, StageSound, Active, MarkSucceeded, Goto,
       SetStatus, Finish
  <1>11. ASSUME NEW t \in Tasks, StepFails(t) PROVE NoSilentOrphan'
    BY <1>0, <1>11 DEF NoSilentOrphan, TypeOK, StageSound, Active, StepFails, Goto, Fault,
       Pipeline
  <1>12. ASSUME NEW t \in Tasks, WriteUnconfirmed(t) PROVE NoSilentOrphan'
    BY <1>0, <1>12 DEF NoSilentOrphan, TypeOK, StageSound, Active, WriteUnconfirmed, Goto,
       Fault, SetStatus
  <1>13. ASSUME NEW t \in Tasks, MarkFailed(t) PROVE NoSilentOrphan'
    BY <1>0, <1>13 DEF NoSilentOrphan, TypeOK, StageSound, Active, MarkFailed, Goto, Fault,
       SetStatus, Finish
  <1>14. ASSUME Shutdown PROVE NoSilentOrphan'
    BY <1>0, <1>14 DEF NoSilentOrphan, TypeOK, StageSound, Active, Shutdown
  <1>15. ASSUME Abort PROVE NoSilentOrphan'
    BY <1>0, <1>15 DEF NoSilentOrphan, TypeOK, StageSound, Active, Abort
  <1>16. ASSUME Exit PROVE NoSilentOrphan'
    BY <1>0, <1>16 DEF NoSilentOrphan, TypeOK, StageSound, Active, Exit, Vanish, Ended
  <1>17. ASSUME Crash PROVE NoSilentOrphan'
    BY <1>0, <1>17 DEF NoSilentOrphan, TypeOK, StageSound, Active, Crash, Vanish
  <1>18. ASSUME Restart PROVE NoSilentOrphan'
    BY <1>0, <1>18 DEF NoSilentOrphan, TypeOK, StageSound, Active, Restart, Sweep, Fault
  <1>19. CASE UNCHANGED <<status, pc, proc, drained, lost>>
    BY <1>0, <1>19 DEF NoSilentOrphan, StageSound, Active
  <1> QED
    BY <1>1, <1>2, <1>3, <1>4, <1>5, <1>6, <1>7, <1>8, <1>9, <1>10, <1>11, <1>12, <1>13, <1>14,
       <1>15, <1>16, <1>17, <1>18, <1>19 DEF Next, vars, Progress, ImportBar, Expire

\* No package counts as many trials as another of its tuple, for the task under way
\* has added its row and nobody else of the tuple runs.
LEMMA CountStep == IInv /\ [Next]_vars => CountSound'
  <1> SUFFICES ASSUME IInv, [Next]_vars PROVE CountSound'
    OBVIOUS
  <1>0. TypeOK /\ LockHeld /\ StageSound /\ CountSound
    BY DEF IInv
  <1>1. \A g \in saved : g.task \in Tasks /\ g.trials \in Nat
    BY <1>0 DEF TypeOK, PackageType
  <1>2. \A u \in Tasks : BankN(u) \in Nat /\ trials[u] \in Nat
    BY <1>0, BankCount, EpochsAssumption DEF TypeOK
  <1>3. \A u, v \in Tasks : TupleOf[u] = TupleOf[v] => BankN(u) = BankN(v)
    BY DEF BankN
  <1>4. ASSUME NEW t \in Tasks, pc[t] = "bank", t \notin bank, bank' = bank \cup {t},
               UNCHANGED <<saved, trials>>, pc' = [pc EXCEPT ![t] = pc'[t]],
               pc'[t] \in {"stats", "markfail"}
        PROVE  CountSound'
    <2>1. \A u \in Tasks : BankN(u)' \in Nat /\ BankN(u) <= BankN(u)'
      BY <1>0, <1>2, <1>4, BankGrows
    <2>2. \A g \in saved : TupleOf[g.task] = TupleOf[t] => g.trials < BankN(t)'
      BY <1>0, <1>1, <1>2, <1>3, <1>4, BankGrows DEF CountSound
    <2>3. \A u \in Tasks \ {t} : pc'[u] = pc[u]
      BY <1>0, <1>4 DEF TypeOK
    <2>4. \A g \in saved' : g.trials <= BankN(g.task)'
      BY <1>0, <1>1, <1>2, <1>4, <2>1 DEF CountSound
    <2>5. ASSUME NEW u \in Tasks
          PROVE  /\ pc'[u] = "stats" =>
                      \A g \in saved' : TupleOf[g.task] = TupleOf[u] => g.trials < BankN(u)'
                 /\ pc'[u] \in {"review", "save"} /\ trials'[u] # 0 =>
                      /\ trials'[u] <= BankN(u)'
                      /\ \A g \in saved' : TupleOf[g.task] = TupleOf[u] => g.trials < trials'[u]
      <3>1. CASE u = t
        BY <1>4, <2>2, <3>1
      <3>2. CASE u # t
        BY <1>0, <1>1, <1>2, <1>4, <2>1, <2>3, <3>2 DEF CountSound
      <3> QED
        BY <3>1, <3>2
    <2> QED
      BY <2>4, <2>5 DEF CountSound
  <1>5. ASSUME \A u \in Tasks : BankN(u)' = BankN(u), UNCHANGED bank PROVE CountSound'
    <2> USE DEF taskVars, world, procVars, report
    <2>1. ASSUME NEW t \in Tasks, pc[t] = "save", saved' = saved \cup {Package(t)},
                 UNCHANGED trials, pc' = [pc EXCEPT ![t] = pc'[t]],
                 pc'[t] \in {"markok", "markfail"}
          PROVE  CountSound'
      <3>1. Package(t).task = t /\ Package(t).trials = trials[t]
        BY DEF Package
      <3>2. \A u \in Tasks \ {t} : pc'[u] = pc[u]
        BY <1>0, <2>1 DEF TypeOK
      <3>3. \A u \in Tasks \ {t} :
               pc[u] \in {"stats", "review", "save"} => TupleOf[u] # TupleOf[t]
        BY <1>0, <2>1 DEF LockHeld
      <3>4. trials[t] <= BankN(t)
        BY <1>0, <1>2, <2>1 DEF CountSound
      <3>5. \A g \in saved' : g.trials <= BankN(g.task)'
        BY <1>0, <1>1, <1>5, <2>1, <3>1, <3>4 DEF CountSound
      <3> QED
        BY <1>0, <1>5, <2>1, <3>1, <3>2, <3>3, <3>5 DEF CountSound
    <2>2. ASSUME NEW t \in Tasks, SaveChallenger(t) PROVE CountSound'
      BY <1>0, <2>1, <2>2 DEF SaveChallenger, Goto, TypeOK
    <2>3. ASSUME NEW t \in Tasks, WriteUnconfirmed(t) PROVE CountSound'
      <3>1. CASE pc[t] = "save"
        BY <1>0, <2>1, <2>3, <3>1 DEF WriteUnconfirmed, Goto, TypeOK
      <3>2. CASE pc[t] # "save"
        BY <1>0, <1>1, <1>5, <2>3, <3>2 DEF WriteUnconfirmed, Goto, TypeOK, CountSound
      <3> QED
        BY <3>1, <3>2
    <2>4. ASSUME NEW t \in Tasks, BankStats(t) PROVE CountSound'
      <3>1. /\ pc[t] = "stats" /\ pc'[t] = "review" /\ UNCHANGED saved
            /\ trials'[t] \in {0, BankN(t)}
            /\ \A u \in Tasks \ {t} : pc'[u] = pc[u] /\ trials'[u] = trials[u]
        BY <1>0, <2>4 DEF BankStats, Goto, TypeOK
      <3> QED
        BY <1>0, <1>1, <1>2, <1>5, <3>1 DEF CountSound
    <2>5. ASSUME NEW t \in Tasks, RunEngine(t) PROVE CountSound'
      BY <1>0, <1>1, <1>5, <2>5 DEF RunEngine, Goto, TypeOK, CountSound, StageSound, Unbanked
    <2>6. ASSUME NEW t \in Tasks,
                 CreateLock(t) \/ CreateRow(t) \/ MarkStarted(t) \/ LoadPlan(t) \/ Verify(t)
                 \/ MarkSucceeded(t) \/ StepFails(t) \/ MarkFailed(t)
          PROVE  CountSound'
      <3>1. /\ UNCHANGED saved
            /\ \A u \in Tasks : pc'[u] # "stats" \/ pc[u] = "stats"
            /\ \A u \in Tasks : pc'[u] \in {"review", "save"} =>
                 pc[u] \in {"review", "save"} /\ trials'[u] = trials[u]
        BY <1>0, <2>6 DEF CreateLock, CreateRow, MarkStarted, LoadPlan, Verify, MarkSucceeded,
           StepFails, MarkFailed, Goto, Finish, TypeOK
      <3> QED
        BY <1>0, <1>1, <1>5, <3>1 DEF CountSound
    <2>7. ASSUME Exit \/ Crash PROVE CountSound'
      BY <1>0, <1>1, <1>5, <2>7 DEF Exit, Crash, Vanish, CountSound
    <2>8. CASE UNCHANGED <<saved, pc, trials>>
      BY <1>0, <1>1, <1>5, <2>8 DEF CountSound
    <2>9. ASSUME NEW t \in Tasks, BankAdd(t) PROVE CountSound'
      BY <1>0, <1>5, <2>9 DEF BankAdd, StageSound, Unbanked
    <2> QED
      BY <2>2, <2>3, <2>4, <2>5, <2>6, <2>7, <2>8, <2>9 DEF Next, vars, Progress, ImportBar,
         Shutdown, Expire, Abort, Restart
  <1> QED
    BY <1>4, <1>5, BankStep

-----------------------------------------------------------------------------
(* The inductive invariant, and what follows from it *)

\* No task has been created.
LEMMA InitInv == Init => IInv
  <1> SUFFICES ASSUME Init PROVE IInv
    OBVIOUS
  <1>1. TypeOK
    <2>1. IsFiniteSet(bank)
      BY FS_EmptySet DEF Init
    <2>2. faults \in 0 .. MaxFaults /\ stops \in 0 .. MaxStops /\ klines \in 0 .. MaxBars
      BY EpochsAssumption DEF Init
    <2> QED
      BY <2>1, <2>2 DEF Init, TypeOK
  <1> QED
    BY <1>1 DEF Init, IInv, LockHeld, StageSound, OnePackage, CountSound, ReviewSound,
       NoSilentOrphan, Active

\* Every step keeps the invariant.
LEMMA Inductive == IInv /\ [Next]_vars => IInv'
  BY TypeStep, LockStep, StageStep, OnePackageStep, ReviewStep, OrphanStep, CountStep DEF IInv

\* It holds throughout, whatever is scheduled.
LEMMA Invariance == Spec => []IInv
  BY InitInv, Inductive, PTL DEF Spec

\* Tables and locals keep their types: what executeEpoch saves has a plan and a
\* verdict, and a DSR counts at least MinTrialsForDSR rows of the bank.
THEOREM Typing == Spec => []TypeOK
  <1>1. IInv => TypeOK
    BY DEF IInv
  <1> QED
    BY <1>1, Invariance, PTL

\* The multiple-testing correction of executeEpoch never uses one number of trials
\* for two challengers of a tuple.
THEOREM DistinctTrials == Spec => []TrialsDistinct
  <1> DEFINE Fits == \A t \in Tasks : pc[t] = "save" => trials[t] = 0 \/ (\A g \in saved :
                        TupleOf[g.task] = TupleOf[t] => g.trials < trials[t])
  <1>1. IInv => Fits
    BY DEF IInv, CountSound
  <1>2. Init => TrialsDistinct
    BY DEF Init, TrialsDistinct
  <1>3. ASSUME IInv, TrialsDistinct, [Next]_vars PROVE TrialsDistinct'
    <2>0. TypeOK /\ Fits
      BY <1>1, <1>3 DEF IInv
    <2>1. ASSUME NEW t \in Tasks, pc[t] = "save", saved' = saved \cup {Package(t)}
          PROVE  TrialsDistinct'
      <3>1. Package(t).task = t /\ Package(t).trials = trials[t]
        BY DEF Package
      <3>2. /\ trials[t] \in Nat /\ \A g \in saved : g.trials \in Nat
            /\ \/ trials[t] = 0
               \/ \A g \in saved : TupleOf[g.task] = TupleOf[t] => g.trials # trials[t]
        BY <2>0, <2>1, BankCount, EpochsAssumption DEF TypeOK, PackageType
      <3> QED
        BY <1>3, <2>1, <3>1, <3>2 DEF TrialsDistinct
    <2>2. CASE UNCHANGED saved
      BY <1>3, <2>2 DEF TrialsDistinct
    <2>3. \/ UNCHANGED saved
          \/ \E t \in Tasks : pc[t] = "save" /\ saved' = saved \cup {Package(t)}
      BY <1>3 DEF Next, vars, taskVars, Progress, CreateLock, CreateRow, MarkStarted, LoadPlan,
         RunEngine, BankAdd, BankStats, Verify, SaveChallenger, MarkSucceeded, StepFails,
         WriteUnconfirmed, MarkFailed, ImportBar, Shutdown, Expire, Abort, Exit, Crash, Vanish,
         Restart
    <2> QED
      BY <2>1, <2>2, <2>3
  <1> QED
    BY <1>2, <1>3, Invariance, PTL DEF Spec

\* A task reads succeeded only with its one challenger saved, whose review verdict
\* says whether a bar was stored after the epoch's load.
THEOREM SucceededBacked == Spec => []SucceededIsBacked
  <1>1. IInv => SucceededIsBacked
    BY DEF IInv, StageSound, OnePackage, ReviewSound, SucceededIsBacked
  <1> QED
    BY <1>1, Invariance, PTL

\* A row left queued or running without a goroutine goes back to a status write, or a
\* sweep, that failed; a drained shutdown leaves none.
THEOREM OrphansAccounted == Spec => []NoSilentOrphan
  <1>1. IInv => NoSilentOrphan
    BY DEF IInv
  <1> QED
    BY <1>1, Invariance, PTL
=============================================================================
