-------------------------- MODULE DataImportProofs --------------------------
(***************************************************************************)
(* TLAPS proofs about DataImport: typing and the unique active job, stored *)
(* bars, and what a succeeded import promises, for any bars, months,       *)
(* missing bars and ranges and any number of jobs, runs, faults and stops. *)
(***************************************************************************)
EXTENDS DataImport, FiniteSetTheorems, TLAPS

Worker == im["worker"]

\* The bars and months of the constants.
LEMMA Consts ==
    /\ MaxBar \in Nat /\ Bars \subseteq Nat /\ 1 \in Bars /\ \A b \in Bars : MonthOf[b] \in Nat
    /\ (0 .. MaxBar + 1) \subseteq Nat /\ Bars \subseteq 0 .. MaxBar + 1
    /\ \A b, c \in Bars : b <= c => MonthOf[b] <= MonthOf[c]
    /\ \A b, c \in Bars : b .. c \subseteq Bars
  <1>1. MaxBar \in Nat /\ Bars \subseteq Nat /\ 1 \in Bars /\ \A b \in Bars : MonthOf[b] \in Nat
    BY DataImportAssumption DEF Bars
  <1>2. (0 .. MaxBar + 1) \subseteq Nat /\ Bars \subseteq 0 .. MaxBar + 1
    BY <1>1 DEF Bars
  <1>3. ASSUME NEW b \in Bars, NEW c \in Bars, b <= c PROVE MonthOf[b] <= MonthOf[c]
    <2>1. b = c \/ b < c
      BY <1>1, <1>3
    <2> QED
      BY <1>1, <2>1, DataImportAssumption
  <1>4. \A b, c \in Bars : b .. c \subseteq Bars
    BY <1>1 DEF Bars
  <1> QED
    BY <1>1, <1>2, <1>3, <1>4

\* The importers themselves.
Typed ==
    /\ im' \in [Importers -> ImporterType]
    /\ \A k \in Importers : im'[k].rows \subseteq im'[k].from .. im'[k].to

\* The other importer is left alone, but for what its gap scan knows.
Aside(k) ==
    \A i \in Importers \ {k} : im'[i] = im[i] \/ im'[i] = [im[i] EXCEPT !.clean = FALSE]

\* The other importer's scan is out of date.
Disturbs(k) == \A i \in Importers \ {k} : im'[i].clean = FALSE

\* An importer at rest.
LEMMA IdleType ==
    /\ Idle \in ImporterType /\ Idle.pc = "idle" /\ Idle.rows = {} /\ Idle.began = 0
    /\ Idle.clean = FALSE
  <1>1. 1 \in Bars /\ 0 \in 0 .. MaxBar + 1 /\ 0 \in 0 .. MaxJobs /\ 0 \in Nat
    BY Consts, DataImportAssumption
  <1>2. Idle \in ImporterType
    BY <1>1 DEF Idle, ImporterType
  <1>3. Idle.pc = "idle" /\ Idle.rows = {} /\ Idle.began = 0 /\ Idle.clean = FALSE
    BY DEF Idle
  <1> QED
    BY <1>2, <1>3

\* One importer takes a new state.
LEMMA Update ==
    ASSUME TypeOK, NEW k \in Importers, NEW u \in ImporterType, u.rows \subseteq u.from .. u.to,
           im' = [im EXCEPT ![k] = u]
    PROVE  Typed /\ im'[k] = u /\ \A i \in Importers \ {k} : im'[i] = im[i]
  <1>1. im \in [Importers -> ImporterType]
    BY DEF TypeOK
  <1>2. im' \in [Importers -> ImporterType] /\ im'[k] = u
        /\ \A i \in Importers \ {k} : im'[i] = im[i]
    BY <1>1
  <1>3. ASSUME NEW i \in Importers PROVE im'[i].rows \subseteq im'[i].from .. im'[i].to
    <2>1. CASE i = k
      BY <1>2, <2>1
    <2>2. CASE i # k
      BY <1>2, <2>2 DEF TypeOK
    <2> QED
      BY <2>1, <2>2
  <1> QED
    BY <1>2, <1>3 DEF Typed

\* The same, when it also disturbs the other one.
LEMMA UpdateDisturbed ==
    ASSUME TypeOK, NEW k \in Importers, NEW u \in ImporterType, u.rows \subseteq u.from .. u.to,
           im' = [Disturb(k) EXCEPT ![k] = u]
    PROVE  Typed /\ im'[k] = u /\ Aside(k) /\ Disturbs(k)
  <1>1. im \in [Importers -> ImporterType]
    BY DEF TypeOK
  <1>2. \A t \in ImporterType : [t EXCEPT !.clean = FALSE] \in ImporterType
    BY DEF ImporterType
  <1>3. /\ Disturb(k) \in [Importers -> ImporterType]
        /\ \A i \in Importers \ {k} : Disturb(k)[i] = [im[i] EXCEPT !.clean = FALSE]
    BY <1>1, <1>2 DEF Disturb
  <1>4. im' \in [Importers -> ImporterType] /\ im'[k] = u
        /\ \A i \in Importers \ {k} : im'[i] = [im[i] EXCEPT !.clean = FALSE]
    BY <1>3
  <1>5. ASSUME NEW i \in Importers PROVE im'[i].rows \subseteq im'[i].from .. im'[i].to
    <2>1. CASE i = k
      BY <1>4, <2>1
    <2>2. CASE i # k
      <3>1. im[i].rows \subseteq im[i].from .. im[i].to /\ im[i] \in ImporterType
        BY <1>1 DEF TypeOK
      <3>2. /\ im'[i].rows = im[i].rows /\ im'[i].from = im[i].from /\ im'[i].to = im[i].to
        BY <1>4, <2>2, <3>1 DEF ImporterType
      <3> QED
        BY <3>1, <3>2
    <2> QED
      BY <2>1, <2>2
  <1>6. \A t \in ImporterType : [t EXCEPT !.clean = FALSE].clean = FALSE
    BY DEF ImporterType
  <1>7. Aside(k) /\ Disturbs(k)
    BY <1>1, <1>4, <1>6 DEF Aside, Disturbs
  <1> QED
    BY <1>4, <1>5, <1>7 DEF Typed

\* What an import keeps on its way.
Same(u, t) == u.job = t.job /\ u.from = t.from /\ u.to = t.to /\ u.began = t.began

\* ImportSymbol returns.
LEMMA ReturnEffect ==
    ASSUME TypeOK, NEW k \in Importers, NEW out \in Terminal, Return(k, out)
    PROVE  /\ Typed /\ Aside(k)
           /\ k = "worker" => im'[k].pc = "finish" /\ im'[k].out = out /\ Same(im'[k], im[k])
  <1> DEFINE v == [im[k] EXCEPT !.pc = "finish"]
             u == [v EXCEPT !.out = out]
  <1>1. im[k] \in ImporterType /\ im[k].rows \subseteq im[k].from .. im[k].to
    BY DEF TypeOK
  <1>2. v \in ImporterType /\ v.pc = "finish" /\ Same(v, im[k]) /\ v.rows = im[k].rows
    BY <1>1 DEF ImporterType, Same
  <1>3. im' = [im EXCEPT ![k] = IF k = "cli" THEN Idle ELSE u]
    BY <1>1 DEF Return, TypeOK
  <1> HIDE DEF v
  <1>4. u \in ImporterType /\ u.pc = "finish" /\ Same(u, v) /\ u.out = out /\ u.rows = v.rows
    BY <1>2 DEF ImporterType, Same
  <1> HIDE DEF u
  <1>5. CASE k = "cli"
    <2>1. im' = [im EXCEPT ![k] = Idle] /\ Idle.rows \subseteq Idle.from .. Idle.to
      BY <1>3, <1>5, IdleType
    <2> QED
      BY <1>5, <2>1, IdleType, Update DEF Aside
  <1>6. CASE k # "cli"
    <2>1. im' = [im EXCEPT ![k] = u] /\ u.rows \subseteq u.from .. u.to
      BY <1>1, <1>2, <1>3, <1>4, <1>6 DEF Same
    <2> QED
      BY <1>2, <1>4, <2>1, Update DEF Aside, Same
  <1> QED
    BY <1>5, <1>6

-----------------------------------------------------------------------------
(* What a step of ImportSymbol does *)

\* An error or a cancellation: nothing is written.
Returns(k) ==
    /\ Aside(k) /\ UNCHANGED <<klines, gaps>>
    /\ k = "worker" => /\ im'[k].pc = "finish" /\ im'[k].out \in {"failed", "cancelled"}
                       /\ Same(im'[k], im[k])

Fetches(k) ==
    /\ im[k].pc = "fetch" /\ im'[k].pc = "insert" /\ Same(im'[k], im[k])
    /\ im'[k].month = im[k].month /\ Aside(k) /\ UNCHANGED <<klines, gaps>>
    /\ im'[k].rows = (Available(k) \ Missing) \cap im[k].from .. im[k].to

Inserts(k) ==
    /\ im[k].pc = "insert" /\ im'[k].pc = "month" /\ Same(im'[k], im[k])
    /\ im'[k].month = im[k].month /\ Aside(k) /\ Disturbs(k)
    /\ klines' = [b \in Bars |-> Stored(k, b)] /\ UNCHANGED gaps

MovesOn(k) ==
    /\ im[k].pc = "month" /\ Same(im'[k], im[k]) /\ im'[k].month = im[k].month + 1
    /\ im'[k].pc = IF im[k].month = MonthOf[im[k].to] THEN "gapread" ELSE "fetch"
    /\ Aside(k) /\ UNCHANGED <<klines, gaps>>

Reads(k) ==
    /\ im[k].pc = "gapread" /\ im'[k].pc = "gapdelete" /\ Same(im'[k], im[k])
    /\ im'[k].found = Holes(im[k].from, im[k].to)
    /\ Aside(k) /\ UNCHANGED <<klines, gaps>>

Deletes(k) ==
    /\ im[k].pc = "gapdelete" /\ im'[k].pc = "gapinsert" /\ Same(im'[k], im[k])
    /\ im'[k].found = im[k].found /\ im'[k].clean = im[k].clean
    /\ gaps' = gaps \ StaleGaps(k) /\ Aside(k) /\ Disturbs(k) /\ UNCHANGED klines

Completes(k) ==
    /\ im[k].pc = "gapinsert" /\ Aside(k) /\ Disturbs(k) /\ UNCHANGED klines
    /\ gaps' = gaps \cup {<<g[1], g[2], k>> : g \in im[k].found}
    /\ k = "worker" => /\ im'[k].pc = "finish" /\ im'[k].out = "succeeded"
                       /\ Same(im'[k], im[k]) /\ im'[k].clean = im[k].clean

\* A failing statement.
LEMMA FailEffect ==
    ASSUME TypeOK, NEW k \in Importers, Fault, Return(k, "failed"), UNCHANGED <<klines, gaps>>
    PROVE  Typed /\ faults' \in 0 .. MaxFaults /\ Returns(k)
  <1>1. "failed" \in Terminal
    BY DEF Terminal
  <1>2. faults' \in 0 .. MaxFaults
    BY DataImportAssumption DEF Fault, TypeOK
  <1> QED
    BY <1>1, <1>2, ReturnEffect DEF Returns

\* fetchMonth.
LEMMA FetchEffect ==
    ASSUME TypeOK, NEW k \in Importers, FetchMonth(k)
    PROVE  Typed /\ faults' \in 0 .. MaxFaults /\ (Returns(k) \/ Fetches(k))
  <1> DEFINE t == im[k]
             R == (Available(k) \ Missing) \cap t.from .. t.to
             O == IF t.month \in published \/ now > t.to THEN 0 ELSE now
             u1 == [t EXCEPT !.pc = "insert"]
             u2 == [u1 EXCEPT !.rows = R]
             u == [u2 EXCEPT !.open = O]
  <1>0. t.pc = "fetch" /\ t \in ImporterType /\ UNCHANGED <<klines, gaps>>
        /\ im \in [Importers -> ImporterType]
    BY DEF FetchMonth, At, TypeOK
  <1>1. CASE Fault /\ Return(k, "failed")
    BY <1>0, <1>1, FailEffect
  <1>2. CASE /\ im' = [im EXCEPT ![k].pc = "insert", ![k].rows = R, ![k].open = O]
             /\ UNCHANGED faults
    <2>1. im' = [im EXCEPT ![k] = u]
      BY <1>0, <1>2
    <2>2. R \in SUBSET Bars /\ R \subseteq t.from .. t.to
      BY DEF Available, ArchiveRows, APIRows
    <2>3. O \in 0 .. MaxBar + 1
      BY Consts DEF TypeOK
    <2> HIDE DEF R, O
    <2>4. u1 \in ImporterType /\ u1.pc = "insert" /\ Same(u1, t) /\ u1.month = t.month
      BY <1>0 DEF ImporterType, Same
    <2> HIDE DEF u1
    <2>5. u2 \in ImporterType /\ u2.pc = u1.pc /\ Same(u2, u1) /\ u2.month = u1.month /\ u2.rows = R
      BY <2>2, <2>4 DEF ImporterType, Same
    <2> HIDE DEF u2
    <2>6. u \in ImporterType /\ u.pc = u2.pc /\ Same(u, u2) /\ u.month = u2.month
          /\ u.rows = u2.rows
      BY <2>3, <2>5 DEF ImporterType, Same
    <2> HIDE DEF u
    <2>7. /\ u.pc = "insert" /\ Same(u, t) /\ u.month = t.month /\ u.rows = R
          /\ u.rows \subseteq u.from .. u.to
      BY <2>2, <2>4, <2>5, <2>6 DEF Same
    <2>8. Typed /\ im'[k] = u /\ Aside(k)
      BY <2>1, <2>6, <2>7, Update DEF Aside
    <2> QED
      BY <1>0, <1>2, <2>7, <2>8 DEF Fetches, R, TypeOK
  <1> QED
    BY <1>1, <1>2 DEF FetchMonth

\* bulkInsert.
LEMMA InsertEffect ==
    ASSUME TypeOK, NEW k \in Importers, InsertMonth(k)
    PROVE  Typed /\ faults' \in 0 .. MaxFaults /\ (Returns(k) \/ Inserts(k))
  <1> DEFINE t == im[k]
             u1 == [t EXCEPT !.pc = "month"]
             u2 == [u1 EXCEPT !.rows = {}]
             u == [u2 EXCEPT !.open = 0]
  <1>0. t.pc = "insert" /\ t \in ImporterType /\ UNCHANGED gaps
        /\ im \in [Importers -> ImporterType]
    BY DEF InsertMonth, At, TypeOK
  <1>1. CASE Fault /\ Return(k, "failed") /\ UNCHANGED klines
    BY <1>0, <1>1, FailEffect
  <1>2. CASE /\ klines' = [b \in Bars |-> Stored(k, b)] /\ UNCHANGED faults
             /\ im' = [Disturb(k) EXCEPT ![k].pc = "month", ![k].rows = {}, ![k].open = 0]
    <2>1. im' = [Disturb(k) EXCEPT ![k] = u]
      BY <1>0, <1>2 DEF Disturb
    <2>2. u1 \in ImporterType /\ u1.pc = "month" /\ Same(u1, t) /\ u1.month = t.month
      BY <1>0 DEF ImporterType, Same
    <2> HIDE DEF u1
    <2>3. u2 \in ImporterType /\ u2.pc = u1.pc /\ Same(u2, u1) /\ u2.month = u1.month
          /\ u2.rows = {}
      BY <2>2 DEF ImporterType, Same
    <2> HIDE DEF u2
    <2>4. u \in ImporterType /\ u.pc = u2.pc /\ Same(u, u2) /\ u.month = u2.month
          /\ u.rows = u2.rows
      BY <2>3, Consts DEF ImporterType, Same
    <2> HIDE DEF u
    <2>5. /\ u.pc = "month" /\ Same(u, t) /\ u.month = t.month /\ u.rows \subseteq u.from .. u.to
      BY <2>2, <2>3, <2>4 DEF Same
    <2>6. Typed /\ im'[k] = u /\ Aside(k) /\ Disturbs(k)
      BY <2>1, <2>4, <2>5, UpdateDisturbed
    <2> QED
      BY <1>0, <1>2, <2>5, <2>6 DEF Inserts, TypeOK
  <1> QED
    BY <1>1, <1>2 DEF InsertMonth

\* OnMonth.
LEMMA MonthEffect ==
    ASSUME TypeOK, NEW k \in Importers, MonthDone(k)
    PROVE  Typed /\ faults' \in 0 .. MaxFaults /\ (Returns(k) \/ MovesOn(k))
  <1> DEFINE t == im[k]
             p == IF t.month = MonthOf[t.to] THEN "gapread" ELSE "fetch"
             u1 == [t EXCEPT !.pc = p]
             u == [u1 EXCEPT !.month = t.month + 1]
             onward == [im EXCEPT ![k].pc = p, ![k].month = @ + 1]
  <1>0. t.pc = "month" /\ t \in ImporterType /\ UNCHANGED <<klines, gaps>>
        /\ im \in [Importers -> ImporterType]
    BY DEF MonthDone, At, TypeOK
  <1>1. CASE Return(k, "cancelled") /\ UNCHANGED faults
    <2>1. "cancelled" \in Terminal
      BY DEF Terminal
    <2> QED
      BY <1>0, <1>1, <2>1, ReturnEffect DEF Returns, TypeOK
  <1>2. CASE im' = onward /\ (UNCHANGED faults \/ Fault)
    <2>0. faults' \in 0 .. MaxFaults
      BY <1>2, DataImportAssumption DEF Fault, TypeOK
    <2>1. im' = [im EXCEPT ![k] = u]
      BY <1>0, <1>2
    <2>2. p \in {"gapread", "fetch"}
      OBVIOUS
    <2> HIDE DEF p
    <2>3. u1 \in ImporterType /\ u1.pc = p /\ Same(u1, t) /\ u1.rows = t.rows
      BY <1>0, <2>2 DEF ImporterType, Same
    <2> HIDE DEF u1
    <2>4. t.month + 1 \in Nat
      BY <1>0 DEF ImporterType
    <2>5. /\ u \in ImporterType /\ u.pc = u1.pc /\ Same(u, u1) /\ u.rows = u1.rows
          /\ u.month = t.month + 1
      BY <2>3, <2>4 DEF ImporterType, Same
    <2> HIDE DEF u
    <2>6. u.pc = p /\ Same(u, t) /\ u.rows \subseteq u.from .. u.to
      BY <2>3, <2>5 DEF Same, TypeOK
    <2>7. Typed /\ im'[k] = u /\ Aside(k)
      BY <2>1, <2>5, <2>6, Update DEF Aside
    <2> QED
      BY <1>0, <2>0, <2>5, <2>6, <2>7 DEF MovesOn, p
  <1>3. \/ Return(k, "cancelled") /\ UNCHANGED faults
        \/ im' = onward /\ (UNCHANGED faults \/ Fault)
    BY DEF MonthDone
  <1> QED
    BY <1>1, <1>2, <1>3

\* detectAndPersistGaps reads.
LEMMA ReadEffect ==
    ASSUME TypeOK, NEW k \in Importers, GapRead(k)
    PROVE  Typed /\ faults' \in 0 .. MaxFaults /\ (Returns(k) \/ Reads(k))
  <1> DEFINE t == im[k]
             H == Holes(t.from, t.to)
             u1 == [t EXCEPT !.pc = "gapdelete"]
             u2 == [u1 EXCEPT !.clean = (k = "worker")]
             u == [u2 EXCEPT !.found = H]
  <1>0. t.pc = "gapread" /\ t \in ImporterType /\ UNCHANGED <<klines, gaps>>
        /\ im \in [Importers -> ImporterType]
    BY DEF GapRead, At, TypeOK
  <1>1. CASE Fault /\ Return(k, "failed")
    BY <1>0, <1>1, FailEffect
  <1>2. CASE /\ im' = [im EXCEPT ![k].pc = "gapdelete", ![k].clean = (k = "worker"), ![k].found = H]
             /\ UNCHANGED faults
    <2>1. im' = [im EXCEPT ![k] = u]
      BY <1>0, <1>2
    <2>2. H \in SUBSET (Bars \X Bars)
      BY DEF Holes
    <2> HIDE DEF H
    <2>3. u1 \in ImporterType /\ u1.pc = "gapdelete" /\ Same(u1, t) /\ u1.rows = t.rows
      BY <1>0 DEF ImporterType, Same
    <2> HIDE DEF u1
    <2>4. u2 \in ImporterType /\ u2.pc = u1.pc /\ Same(u2, u1) /\ u2.rows = u1.rows
      BY <2>3 DEF ImporterType, Same
    <2> HIDE DEF u2
    <2>5. u \in ImporterType /\ u.pc = u2.pc /\ Same(u, u2) /\ u.rows = u2.rows /\ u.found = H
      BY <2>2, <2>4 DEF ImporterType, Same
    <2> HIDE DEF u
    <2>6. u.pc = "gapdelete" /\ Same(u, t) /\ u.rows \subseteq u.from .. u.to
      BY <2>3, <2>4, <2>5 DEF Same, TypeOK
    <2>7. Typed /\ im'[k] = u /\ Aside(k)
      BY <2>1, <2>5, <2>6, Update DEF Aside
    <2> QED
      BY <1>0, <1>2, <2>5, <2>6, <2>7 DEF Reads, H, TypeOK
  <1> QED
    BY <1>1, <1>2 DEF GapRead

\* It deletes.
LEMMA DeleteEffect ==
    ASSUME TypeOK, NEW k \in Importers, GapDelete(k)
    PROVE  Typed /\ faults' \in 0 .. MaxFaults /\ (Returns(k) \/ Deletes(k))
  <1> DEFINE t == im[k]
             u == [t EXCEPT !.pc = "gapinsert"]
  <1>0. t.pc = "gapdelete" /\ t \in ImporterType /\ UNCHANGED klines
        /\ im \in [Importers -> ImporterType]
    BY DEF GapDelete, At, TypeOK
  <1>1. CASE Fault /\ Return(k, "failed") /\ UNCHANGED gaps
    BY <1>0, <1>1, FailEffect
  <1>2. CASE /\ gaps' = gaps \ StaleGaps(k) /\ UNCHANGED faults
             /\ im' = [Disturb(k) EXCEPT ![k].pc = "gapinsert"]
    <2>1. im' = [Disturb(k) EXCEPT ![k] = u]
      BY <1>0, <1>2 DEF Disturb
    <2>2. /\ u \in ImporterType /\ u.pc = "gapinsert" /\ Same(u, t) /\ u.rows = t.rows
          /\ u.found = t.found /\ u.clean = t.clean
      BY <1>0 DEF ImporterType, Same
    <2> HIDE DEF u
    <2>3. u.rows \subseteq u.from .. u.to
      BY <2>2 DEF Same, TypeOK
    <2>6. Typed /\ im'[k] = u /\ Aside(k) /\ Disturbs(k)
      BY <2>1, <2>2, <2>3, UpdateDisturbed
    <2> QED
      BY <1>0, <1>2, <2>2, <2>6 DEF Deletes, TypeOK
  <1> QED
    BY <1>1, <1>2 DEF GapDelete

\* And inserts.
LEMMA CompleteEffect ==
    ASSUME TypeOK, NEW k \in Importers, GapInsert(k)
    PROVE  Typed /\ faults' \in 0 .. MaxFaults /\ (Returns(k) \/ Completes(k))
  <1> DEFINE t == im[k]
             u1 == [t EXCEPT !.pc = "finish"]
             u2 == [u1 EXCEPT !.out = "succeeded"]
             u == IF k = "cli" THEN Idle ELSE u2
  <1>0. t.pc = "gapinsert" /\ t \in ImporterType /\ UNCHANGED klines
        /\ im \in [Importers -> ImporterType]
    BY DEF GapInsert, At, TypeOK
  <1>1. CASE Fault /\ Return(k, "failed") /\ UNCHANGED gaps
    BY <1>0, <1>1, FailEffect
  <1>2. CASE /\ gaps' = gaps \cup {<<g[1], g[2], k>> : g \in im[k].found} /\ UNCHANGED faults
             /\ im' = IF k = "cli" THEN [Disturb(k) EXCEPT ![k] = Idle]
                      ELSE [Disturb(k) EXCEPT ![k].pc = "finish", ![k].out = "succeeded"]
    <2>1. im' = [Disturb(k) EXCEPT ![k] = u]
      BY <1>0, <1>2 DEF Disturb
    <2>2. u1 \in ImporterType /\ u1.pc = "finish" /\ Same(u1, t) /\ u1.rows = t.rows
          /\ u1.clean = t.clean
      BY <1>0 DEF ImporterType, Same
    <2> HIDE DEF u1
    <2>3. /\ u2 \in ImporterType /\ u2.pc = u1.pc /\ Same(u2, u1) /\ u2.rows = u1.rows
          /\ u2.clean = u1.clean /\ u2.out = "succeeded"
      BY <2>2 DEF ImporterType, Same, Terminal
    <2> HIDE DEF u2
    <2>4. /\ k = "worker" => /\ u.pc = "finish" /\ Same(u, t) /\ u.clean = t.clean
                             /\ u.out = "succeeded"
          /\ u \in ImporterType /\ u.rows \subseteq u.from .. u.to
      BY <2>2, <2>3, IdleType DEF Same, TypeOK
    <2> HIDE DEF u
    <2>6. Typed /\ im'[k] = u /\ Aside(k) /\ Disturbs(k)
      BY <2>1, <2>4, UpdateDisturbed
    <2> QED
      BY <1>0, <1>2, <2>4, <2>6 DEF Completes, TypeOK
  <1> QED
    BY <1>1, <1>2 DEF GapInsert

\* A step of either importer.
LEMMA ImportEffect ==
    ASSUME TypeOK, NEW k \in Importers, ImportStep(k)
    PROVE  /\ Typed /\ faults' \in 0 .. MaxFaults
           /\ UNCHANGED <<now, published, job, up, lost, stops, runs>>
           /\ im[k].pc \notin {"idle", "mark", "finish"} /\ (k = "worker" => up)
           /\ \/ Returns(k) \/ Fetches(k) \/ Inserts(k) \/ MovesOn(k) \/ Reads(k)
              \/ Deletes(k) \/ Completes(k)
  <1>1. /\ UNCHANGED <<now, published, job, up, lost, stops, runs>>
        /\ im[k].pc \notin {"idle", "mark", "finish"} /\ (k = "worker" => up)
    BY DEF ImportStep, FetchMonth, InsertMonth, MonthDone, GapRead, GapDelete, GapInsert, At,
           market, counts
  <1> QED
    BY <1>1, FetchEffect, InsertEffect, MonthEffect, ReadEffect, DeleteEffect, CompleteEffect
       DEF ImportStep

\* Bars are stored once.
Grows == \A b \in Bars : klines[b] # "none" => klines'[b] = klines[b]

\* The tables after a step of an importer.
LEMMA TablesStep ==
    ASSUME TypeOK, NEW k \in Importers, ImportStep(k)
    PROVE  /\ klines' \in [Bars -> {"none", "partial", "final"}] /\ Grows
           /\ gaps' \subseteq Bars \X Bars \X Importers
           /\ UNCHANGED <<klines, gaps>> \/ Disturbs(k)
  <1>1. CASE Inserts(k)
    <2>1. klines' = [b \in Bars |-> Stored(k, b)] /\ UNCHANGED gaps /\ Disturbs(k)
      BY <1>1 DEF Inserts
    <2>2. \A b \in Bars : /\ Stored(k, b) \in {"none", "partial", "final"}
                          /\ klines[b] # "none" => Stored(k, b) = klines[b]
      BY DEF Stored, TypeOK
    <2> QED
      BY <2>1, <2>2 DEF Grows, TypeOK
  <1>2. CASE Deletes(k)
    BY <1>2 DEF Deletes, Grows, TypeOK
  <1>3. CASE Completes(k)
    <2>1. im[k].found \subseteq Bars \X Bars
      BY DEF TypeOK, ImporterType
    <2> QED
      BY <1>3, <2>1 DEF Completes, Grows, TypeOK
  <1>4. CASE UNCHANGED <<klines, gaps>>
    BY <1>4 DEF Grows, TypeOK
  <1> QED
    BY <1>1, <1>2, <1>3, <1>4, ImportEffect DEF Returns, Fetches, MovesOn, Reads

-----------------------------------------------------------------------------
(* The jobs *)

\* An import that is about to fetch its first month.
Entered(u, j) ==
    /\ u \in ImporterType /\ u.pc = "fetch" /\ u.job = j /\ u.rows = {} /\ u.clean = FALSE
    /\ u.month = MonthOf[u.from] /\ u.began <= now

\* The range of a request is entered.
LEMMA EnterType ==
    ASSUME TypeOK, NEW k \in Importers, NEW j \in 0 .. MaxJobs,
           NEW r \in Ranges \cup {<<1, 1>>}
    PROVE  Entered(Enter(k, j, r), j)
  <1>1. r[1] \in Bars /\ r[2] \in Bars
    BY Consts, DataImportAssumption
  <1> DEFINE n == IF k = "worker" THEN now ELSE 0
             a1 == [Idle EXCEPT !.pc = "fetch"]
             a2 == [a1 EXCEPT !.job = j]
             a3 == [a2 EXCEPT !.from = r[1]]
             a4 == [a3 EXCEPT !.to = r[2]]
             a5 == [a4 EXCEPT !.month = MonthOf[r[1]]]
             u == [a5 EXCEPT !.began = n]
  <1>2. n \in 0 .. MaxBar + 1 /\ n <= now
    BY Consts DEF TypeOK
  <1>3. Enter(k, j, r) = u
    BY DEF Enter
  <1>4. MonthOf[r[1]] \in Nat
    BY <1>1, Consts
  <1> HIDE DEF n
  <1>5. a1 \in ImporterType /\ a1.pc = "fetch" /\ a1.rows = {} /\ a1.clean = FALSE
    BY IdleType DEF ImporterType
  <1> HIDE DEF a1
  <1>6. a2 \in ImporterType /\ a2.pc = "fetch" /\ a2.rows = {} /\ a2.clean = FALSE /\ a2.job = j
    BY <1>5 DEF ImporterType
  <1> HIDE DEF a2
  <1>7. /\ a3 \in ImporterType /\ a3.pc = "fetch" /\ a3.rows = {} /\ a3.clean = FALSE
        /\ a3.job = j /\ a3.from = r[1]
    BY <1>1, <1>6 DEF ImporterType
  <1> HIDE DEF a3
  <1>8. /\ a4 \in ImporterType /\ a4.pc = "fetch" /\ a4.rows = {} /\ a4.clean = FALSE
        /\ a4.job = j /\ a4.from = r[1]
    BY <1>1, <1>7 DEF ImporterType
  <1> HIDE DEF a4
  <1>9. /\ a5 \in ImporterType /\ a5.pc = "fetch" /\ a5.rows = {} /\ a5.clean = FALSE
        /\ a5.job = j /\ a5.from = r[1] /\ a5.month = MonthOf[r[1]]
    BY <1>4, <1>8 DEF ImporterType
  <1> HIDE DEF a5
  <1>10. /\ u \in ImporterType /\ u.pc = "fetch" /\ u.rows = {} /\ u.clean = FALSE
         /\ u.job = j /\ u.from = r[1] /\ u.month = MonthOf[r[1]] /\ u.began = n
    BY <1>2, <1>9 DEF ImporterType
  <1> HIDE DEF u
  <1> QED
    BY <1>2, <1>3, <1>10 DEF Entered

\* An unchanged importer, and one at rest.
LEMMA ImKept ==
    ASSUME TypeOK
    PROVE  /\ UNCHANGED im => Typed
           /\ \A k \in Importers : im' = [im EXCEPT ![k] = Idle] => Typed /\ im'[k] = Idle
                                     /\ \A i \in Importers \ {k} : im'[i] = im[i]
  <1>1. Idle \in ImporterType /\ Idle.rows \subseteq Idle.from .. Idle.to
    BY IdleType
  <1> QED
    BY <1>1, Update DEF Typed, TypeOK

\* Two active jobs never meet.
LEMMA OneIsFew ==
    ASSUME NEW f, \A i, j \in Jobs : f[i].status \in Active /\ f[j].status \in Active => i = j
    PROVE  Cardinality({j \in Jobs : f[j].status \in Active}) <= 1
  <1> DEFINE A == {j \in Jobs : f[j].status \in Active}
  <1>1. A = {} \/ \E x : A = {x}
    <2>1. CASE \E x : x \in A
      <3>1. PICK x : x \in A
        BY <2>1
      <3>2. A = {x}
        BY <3>1
      <3> QED
        BY <3>2
    <2> QED
      BY <2>1
  <1>2. Cardinality(A) = 0 \/ Cardinality(A) = 1
    BY <1>1, FS_EmptySet, FS_Singleton
  <1> QED
    BY <1>2

\* What a step does to the worker and to the tables it reads.
Apart ==
    /\ Worker' = Worker \/ Worker' = [Worker EXCEPT !.clean = FALSE]
    /\ UNCHANGED <<klines, gaps>> \/ Worker'.clean = FALSE
    /\ Grows /\ now' \in Nat /\ now <= now' /\ published \subseteq published'

\* The worker's job while others act.
LEMMA ApartJob ==
    ASSUME TypeOK, WorkerJob, Apart, up' = up,
           \A j \in Jobs : job[j].status \in Active => job'[j].status = job[j].status
    PROVE  WorkerJob'
  <1>1. Worker \in ImporterType
    BY DEF TypeOK, Worker, Importers
  <1>2. Worker'.pc = Worker.pc /\ Worker'.job = Worker.job /\ Worker'.out = Worker.out
    BY <1>1 DEF Apart, ImporterType
  <1>3. Worker.pc # "idle" =>
          /\ up /\ Worker.job \in Jobs
          /\ job[Worker.job].status = IF Worker.pc = "mark" THEN "queued" ELSE "running"
          /\ Worker.pc = "finish" => Worker.out \in Terminal
    BY DEF WorkerJob, Worker
  <1>4. Worker.pc # "idle"
        => job'[Worker.job].status = IF Worker.pc = "mark" THEN "queued" ELSE "running"
    BY <1>3 DEF Active
  <1>5. Worker'.pc # "idle" =>
          /\ up' /\ Worker'.job \in Jobs
          /\ job'[Worker'.job].status = IF Worker'.pc = "mark" THEN "queued" ELSE "running"
          /\ Worker'.pc = "finish" => Worker'.out \in Terminal
    BY <1>2, <1>3, <1>4
  <1> QED
    BY <1>5 DEF WorkerJob, Worker

\* No job becomes active.
LEMMA NoneActivated ==
    ASSUME OneActive, \A j \in Jobs : job'[j].status \in Active => job[j].status \in Active
    PROVE  OneActive'
  BY DEF OneActive

\* The worker takes up a job, or begins its import.
Picks ==
    /\ Worker'.pc = "mark" /\ Worker'.began = 0 /\ Worker'.clean = FALSE
    /\ UNCHANGED now

Begins ==
    /\ Worker'.pc = "fetch" /\ Worker'.began <= now /\ Worker'.clean = FALSE
    /\ Worker'.month = MonthOf[Worker'.from] /\ UNCHANGED now

Rests == Worker' = Idle /\ now' \in Nat

\* Every step but the worker's import: the types, the jobs and the worker.
LEMMA OtherStep ==
    ASSUME TypeOK, OneActive, WorkerJob, [Next]_vars, ~ImportStep("worker")
    PROVE  /\ Typed /\ job' \in [Jobs -> JobType] /\ OneActive' /\ WorkerJob'
           /\ now' \in 1 .. MaxBar + 1 /\ published' \subseteq Months
           /\ klines' \in [Bars -> {"none", "partial", "final"}]
           /\ gaps' \subseteq Bars \X Bars \X Importers
           /\ up' \in BOOLEAN /\ lost' \subseteq Jobs /\ faults' \in 0 .. MaxFaults
           /\ stops' \in 0 .. MaxStops /\ runs' \in 0 .. MaxCLI
           /\ Apart \/ Picks \/ Begins \/ Rests
           /\ Grows
  <1> DEFINE Goal ==
           /\ Typed /\ job' \in [Jobs -> JobType] /\ OneActive' /\ WorkerJob'
           /\ now' \in 1 .. MaxBar + 1 /\ published' \subseteq Months
           /\ klines' \in [Bars -> {"none", "partial", "final"}]
           /\ gaps' \subseteq Bars \X Bars \X Importers
           /\ up' \in BOOLEAN /\ lost' \subseteq Jobs /\ faults' \in 0 .. MaxFaults
           /\ stops' \in 0 .. MaxStops /\ runs' \in 0 .. MaxCLI
           /\ Apart \/ Picks \/ Begins \/ Rests
           /\ Grows
  <1> USE DEF market, counts
  <1>0. /\ now \in 1 .. MaxBar + 1 /\ published \subseteq Months /\ job \in [Jobs -> JobType]
        /\ klines \in [Bars -> {"none", "partial", "final"}]
        /\ gaps \subseteq Bars \X Bars \X Importers
        /\ up \in BOOLEAN /\ lost \subseteq Jobs /\ faults \in 0 .. MaxFaults
        /\ stops \in 0 .. MaxStops /\ runs \in 0 .. MaxCLI
        /\ im \in [Importers -> ImporterType]
    BY DEF TypeOK
  <1>a. UNCHANGED klines => Grows
    BY DEF Grows
  <1>b. now \in Nat /\ MaxBar \in Nat /\ "worker" \in Importers /\ "cli" \in Importers
    BY <1>0, Consts DEF Importers
  <1>c. Fault => faults' \in 0 .. MaxFaults
    BY <1>0, DataImportAssumption DEF Fault
  <1>d. UNCHANGED job => OneActive'
    BY DEF OneActive
  <1>1. CASE UNCHANGED vars
    <2>1. Apart
      BY <1>1, <1>b DEF vars, Apart, Worker, Grows
    <2>2. WorkerJob'
      BY <1>1, <2>1, ApartJob DEF vars
    <2> QED
      BY <1>0, <1>1, <1>d, <2>1, <2>2, ImKept DEF vars, Grows
  <1>2. ASSUME Tick PROVE Goal
    <2>1. now' \in 1 .. MaxBar + 1 /\ now <= now' /\ now' \in Nat
      BY <1>0, <1>2, <1>b DEF Tick
    <2>2. Apart
      BY <1>2, <2>1 DEF Tick, Apart, Worker, Grows
    <2>3. WorkerJob'
      BY <1>2, <2>2, ApartJob DEF Tick
    <2> QED
      BY <1>0, <1>2, <1>d, <2>1, <2>2, <2>3, ImKept DEF Tick, Grows
  <1>3. ASSUME NEW m \in Months, Publish(m) PROVE Goal
    <2>2. Apart
      BY <1>3, <1>b DEF Publish, Apart, Worker, Grows
    <2>3. WorkerJob'
      BY <1>3, <2>2, ApartJob DEF Publish
    <2> QED
      BY <1>0, <1>3, <1>d, <2>2, <2>3, ImKept DEF Publish, Grows
  <1>4. ASSUME NEW r \in Ranges, CreateImport(r) PROVE Goal
    <2>0. UNCHANGED <<now, published, klines, gaps, im, up, lost, faults, stops, runs>> /\ IndexFree
      BY <1>4 DEF CreateImport
    <2>1. PICK j \in Jobs :
            /\ job[j].status = "none"
            /\ job' = [job EXCEPT ![j] = [status |-> "queued", range |-> r, cancel |-> FALSE]]
      BY <1>4 DEF CreateImport
    <2>2. job' \in [Jobs -> JobType]
      <3>1. [status |-> "queued", range |-> r, cancel |-> FALSE] \in JobType
        BY DEF JobType, Active
      <3> QED
        BY <1>0, <2>1, <3>1
    <2>3. \A i \in Jobs : i # j => job'[i] = job[i]
      BY <1>0, <2>1
    <2>4. OneActive'
      BY <2>0, <2>3 DEF OneActive, IndexFree
    <2>5. Apart
      BY <2>0, <1>b DEF Apart, Worker, Grows
    <2>6. \A i \in Jobs : job[i].status \in Active => job'[i].status = job[i].status
      BY <2>0 DEF IndexFree
    <2>7. WorkerJob'
      BY <2>0, <2>5, <2>6, ApartJob
    <2> QED
      BY <1>0, <1>a, <2>0, <2>2, <2>4, <2>5, <2>7, ImKept
  <1>5. ASSUME NEW j \in Jobs, CancelImport(j) PROVE Goal
    <2>0. /\ UNCHANGED <<now, published, klines, gaps, im, up, lost, faults, stops, runs>>
          /\ job' = [job EXCEPT ![j].cancel = TRUE]
      BY <1>5 DEF CancelImport
    <2>1. job' \in [Jobs -> JobType] /\ \A i \in Jobs : job'[i].status = job[i].status
      <3>1. /\ [job[j] EXCEPT !.cancel = TRUE] \in JobType
            /\ [job[j] EXCEPT !.cancel = TRUE].status = job[j].status
        BY <1>0 DEF JobType
      <3> QED
        BY <1>0, <2>0, <3>1
    <2>4. OneActive'
      BY <2>1, NoneActivated
    <2>5. Apart
      BY <2>0, <1>b DEF Apart, Worker, Grows
    <2>7. WorkerJob'
      BY <2>0, <2>1, <2>5, ApartJob
    <2> QED
      BY <1>0, <1>a, <2>0, <2>1, <2>4, <2>5, <2>7, ImKept
  <1>6. ASSUME NEW r \in Ranges, StartCLI(r) PROVE Goal
    <2>0. /\ UNCHANGED <<now, published, klines, gaps, job, up, lost, faults, stops>>
          /\ im' = [im EXCEPT !["cli"] = Enter("cli", 0, r)] /\ runs' = runs + 1 /\ runs < MaxCLI
      BY <1>6 DEF StartCLI
    <2>1. runs' \in 0 .. MaxCLI
      BY <1>0, <2>0, DataImportAssumption
    <2>2. 0 \in 0 .. MaxJobs
      BY DataImportAssumption
    <2>3. Enter("cli", 0, r) \in ImporterType /\ Enter("cli", 0, r).rows = {}
      BY <1>b, <2>2, EnterType DEF Entered
    <2>4. Typed /\ Worker' = Worker
      BY <1>b, <2>0, <2>3, Update DEF Worker
    <2>5. Apart
      BY <2>0, <2>4, <1>b DEF Apart, Grows
    <2>7. WorkerJob'
      BY <2>0, <2>5, ApartJob
    <2> QED
      BY <1>0, <1>a, <1>d, <2>0, <2>1, <2>4, <2>5, <2>7
  <1>7. ASSUME KillCLI PROVE Goal
    <2>0. /\ UNCHANGED <<now, published, klines, gaps, job, up, lost, stops, runs>>
          /\ im' = [im EXCEPT !["cli"] = Idle] /\ Fault
      BY <1>7 DEF KillCLI
    <2>4. Typed /\ Worker' = Worker
      BY <1>b, <2>0, ImKept DEF Worker
    <2>5. Apart
      BY <2>0, <2>4, <1>b DEF Apart, Grows
    <2>7. WorkerJob'
      BY <2>0, <2>5, ApartJob
    <2> QED
      BY <1>0, <1>a, <1>c, <1>d, <2>0, <2>4, <2>5, <2>7
  <1>8. ASSUME ImportStep("cli") PROVE Goal
    <2>0. /\ Typed /\ faults' \in 0 .. MaxFaults /\ Aside("cli")
          /\ UNCHANGED <<now, published, job, up, lost, stops, runs>>
      BY <1>8, <1>b, ImportEffect DEF Returns, Fetches, Inserts, MovesOn, Reads, Deletes, Completes
    <2>1. /\ klines' \in [Bars -> {"none", "partial", "final"}] /\ Grows
          /\ gaps' \subseteq Bars \X Bars \X Importers
          /\ UNCHANGED <<klines, gaps>> \/ Disturbs("cli")
      BY <1>8, <1>b, TablesStep
    <2>5. Apart
      BY <1>b, <2>0, <2>1 DEF Apart, Aside, Disturbs, Worker
    <2>7. WorkerJob'
      BY <2>0, <2>5, ApartJob
    <2> QED
      BY <1>0, <1>d, <2>0, <2>1, <2>5, <2>7
  <1>9. ASSUME NextQueued PROVE Goal
    <2>0. UNCHANGED <<now, published, klines, gaps, job, up, lost, faults, stops, runs>> /\ up
      BY <1>9 DEF NextQueued
    <2>1. PICK j \in Jobs :
            /\ job[j].status = "queued"
            /\ im' = [im EXCEPT !["worker"] = [Idle EXCEPT !.pc = "mark", !.job = j]]
      BY <1>9 DEF NextQueued
    <2> DEFINE u1 == [Idle EXCEPT !.pc = "mark"]
               u == [u1 EXCEPT !.job = j]
    <2>2. im' = [im EXCEPT !["worker"] = u]
      BY <2>1
    <2>3. u1 \in ImporterType /\ u1.pc = "mark" /\ u1.rows = {} /\ u1.began = 0 /\ u1.clean = FALSE
      BY IdleType DEF ImporterType
    <2> HIDE DEF u1
    <2>4. j \in 0 .. MaxJobs
      BY DataImportAssumption DEF Jobs
    <2>5. /\ u \in ImporterType /\ u.pc = "mark" /\ u.rows = {} /\ u.began = 0 /\ u.clean = FALSE
          /\ u.job = j
      BY <2>3, <2>4 DEF ImporterType
    <2> HIDE DEF u
    <2>6. Typed /\ Worker' = u
      BY <1>b, <2>2, <2>5, Update DEF Worker
    <2>7. Picks
      BY <2>0, <2>5, <2>6 DEF Picks
    <2>8. WorkerJob'
      BY <2>0, <2>1, <2>5, <2>6 DEF WorkerJob, Worker
    <2> QED
      BY <1>0, <1>a, <1>d, <2>0, <2>6, <2>7, <2>8
  <1>10. ASSUME MarkRunning PROVE Goal
    <2> DEFINE j == Worker.job
    <2>0. /\ UNCHANGED <<now, published, klines, gaps, up, stops, runs>> /\ up
          /\ Worker.pc = "mark"
      BY <1>10 DEF MarkRunning, At, Worker
    <2>1. j \in Jobs /\ job[j].status = "queued"
      BY <2>0 DEF WorkerJob, Worker
    <2>2. ASSUME job' = [job EXCEPT ![j].status = "running"]
          PROVE  /\ job' \in [Jobs -> JobType] /\ job'[j].status = "running"
                 /\ \A i \in Jobs : job'[i].status \in Active => job[i].status \in Active
      <3>1. /\ [job[j] EXCEPT !.status = "running"] \in JobType
            /\ [job[j] EXCEPT !.status = "running"].status = "running"
        BY <1>0, <2>1 DEF JobType, Active
      <3>2. job' = [job EXCEPT ![j] = [job[j] EXCEPT !.status = "running"]]
        BY <2>2
      <3> QED
        BY <1>0, <2>1, <3>1, <3>2 DEF Active
    <2>3. CASE /\ Fault /\ im' = [im EXCEPT !["worker"] = Idle]
               /\ \/ UNCHANGED <<job, lost>>
                  \/ job' = [job EXCEPT ![j].status = "running"] /\ lost' = lost \cup {j}
      <3>1. Typed /\ Worker' = Idle
        BY <1>b, <2>3, ImKept DEF Worker
      <3>2. Rests
        BY <2>0, <3>1, <1>b DEF Rests
      <3>3. WorkerJob'
        BY <3>1, IdleType DEF WorkerJob, Worker
      <3>4. /\ job' \in [Jobs -> JobType] /\ lost' \subseteq Jobs
            /\ \A i \in Jobs : job'[i].status \in Active => job[i].status \in Active
        BY <1>0, <2>1, <2>2, <2>3
      <3>5. OneActive' /\ faults' \in 0 .. MaxFaults
        BY <1>c, <2>3, <3>4, NoneActivated
      <3> QED
        BY <1>0, <1>a, <2>0, <3>1, <3>2, <3>3, <3>4, <3>5
    <2>4. CASE /\ job' = [job EXCEPT ![j].status = "running"]
               /\ im' = [im EXCEPT !["worker"] = Enter("worker", j, job[j].range)]
               /\ UNCHANGED <<lost, faults>>
      <3>1. j \in 0 .. MaxJobs /\ job[j].range \in Ranges \cup {<<1, 1>>}
        BY <1>0, <2>1, DataImportAssumption DEF Jobs, JobType
      <3> DEFINE u == Enter("worker", j, job[j].range)
      <3>2. /\ u \in ImporterType /\ u.pc = "fetch" /\ u.rows = {} /\ u.clean = FALSE
            /\ u.month = MonthOf[u.from] /\ u.began <= now /\ u.job = j
        <4>1. Entered(u, j)
          BY <3>1, <1>b, EnterType
        <4> QED
          BY <4>1 DEF Entered
      <3> HIDE DEF u
      <3>3. Typed /\ Worker' = u
        <4>1. im' = [im EXCEPT !["worker"] = u]
          BY <2>4 DEF u
        <4> QED
          BY <1>b, <3>2, <4>1, Update DEF Worker
      <3>4. Begins
        BY <2>0, <3>2, <3>3 DEF Begins
      <3>5. WorkerJob'
        BY <2>0, <2>1, <2>2, <2>4, <3>2, <3>3 DEF WorkerJob, Worker
      <3>6. OneActive'
        BY <2>2, <2>4, NoneActivated
      <3> QED
        BY <1>0, <1>a, <2>0, <2>2, <2>4, <3>3, <3>4, <3>5, <3>6
    <2> QED
      BY <1>10, <2>3, <2>4 DEF MarkRunning, Worker
  <1>11. ASSUME FinishJob PROVE Goal
    <2> DEFINE j == Worker.job
    <2>0. /\ UNCHANGED <<now, published, klines, gaps, up, stops, runs>> /\ Worker.pc = "finish"
          /\ im' = [im EXCEPT !["worker"] = Idle]
      BY <1>11 DEF FinishJob, At, Worker
    <2>1. j \in Jobs /\ Worker.out \in Terminal
      BY <2>0 DEF WorkerJob, Worker
    <2>2. Typed /\ Worker' = Idle
      BY <1>b, <2>0, ImKept DEF Worker
    <2>3. Rests /\ WorkerJob'
      BY <1>b, <2>0, <2>2, IdleType DEF Rests, WorkerJob, Worker
    <2>4. faults' \in 0 .. MaxFaults /\ lost' \subseteq Jobs
      BY <1>0, <1>11, <1>c, <2>1 DEF FinishJob, Worker
    <2>5. /\ job' \in [Jobs -> JobType]
          /\ \A i \in Jobs : job'[i].status \in Active => job[i].status \in Active
      <3>1. CASE UNCHANGED job
        BY <1>0, <3>1
      <3>2. CASE job' = [job EXCEPT ![j].status = Worker.out]
        <4>1. /\ [job[j] EXCEPT !.status = Worker.out] \in JobType
              /\ [job[j] EXCEPT !.status = Worker.out].status = Worker.out
          BY <1>0, <2>1 DEF JobType
        <4>2. job' = [job EXCEPT ![j] = [job[j] EXCEPT !.status = Worker.out]]
          BY <3>2
        <4> QED
          BY <1>0, <2>1, <4>1, <4>2 DEF Active, Terminal
      <3> QED
        BY <1>11, <3>1, <3>2 DEF FinishJob, Worker
    <2> QED
      BY <1>0, <1>a, <2>0, <2>2, <2>3, <2>4, <2>5, NoneActivated
  <1>12. ASSUME Stop PROVE Goal
    <2>0. /\ UNCHANGED <<now, published, klines, gaps, job, lost, faults, runs>>
          /\ im' = [im EXCEPT !["worker"] = Idle] /\ up' = FALSE
          /\ stops < MaxStops /\ stops' = stops + 1
      BY <1>12 DEF Stop
    <2>1. stops' \in 0 .. MaxStops
      BY <1>0, <2>0, DataImportAssumption
    <2>2. Typed /\ Worker' = Idle
      BY <1>b, <2>0, ImKept DEF Worker
    <2>3. Rests /\ WorkerJob'
      BY <1>b, <2>0, <2>2, IdleType DEF Rests, WorkerJob, Worker
    <2> QED
      BY <1>0, <1>a, <1>d, <2>0, <2>1, <2>2, <2>3
  <1>13. ASSUME Restart PROVE Goal
    <2>0. UNCHANGED <<now, published, klines, gaps, im, stops, runs>> /\ ~up /\ up' = TRUE
      BY <1>13 DEF Restart
    <2>1. Worker' = Worker /\ Worker.pc = "idle"
      BY <2>0 DEF WorkerJob, Worker
    <2>2. Apart
      BY <1>b, <2>0, <2>1 DEF Apart, Grows
    <2>3. WorkerJob'
      BY <2>1 DEF WorkerJob, Worker
    <2>4. faults' \in 0 .. MaxFaults /\ lost' \subseteq Jobs
      BY <1>0, <1>13, <1>c DEF Restart
    <2>5. /\ job' \in [Jobs -> JobType]
          /\ \A i \in Jobs : job'[i].status \in Active => job[i].status \in Active
      <3>1. CASE UNCHANGED job
        BY <1>0, <3>1
      <3>2. CASE job' = Sweep
        <4>1. \A i \in Jobs : /\ [job[i] EXCEPT !.status = "failed"] \in JobType
                              /\ [job[i] EXCEPT !.status = "failed"].status = "failed"
          BY <1>0 DEF JobType, Terminal
        <4> QED
          BY <1>0, <3>2, <4>1 DEF Sweep, Active
      <3> QED
        BY <1>13, <3>1, <3>2 DEF Restart
    <2> QED
      BY <1>0, <1>a, <2>0, <2>2, <2>3, <2>4, <2>5, NoneActivated, ImKept
  <1> QED
    BY <1>1, <1>2, <1>3, <1>4, <1>5, <1>6, <1>7, <1>8, <1>9, <1>10, <1>11, <1>12, <1>13
       DEF Next, WorkerStep

-----------------------------------------------------------------------------
(* The worker's import *)

\* The types and the job of the worker along its import.
LEMMA WorkerImportStep ==
    ASSUME TypeOK, OneActive, WorkerJob, ImportStep("worker")
    PROVE  OneActive' /\ WorkerJob'
  <1>0. /\ UNCHANGED <<job, up>> /\ Worker.pc \notin {"idle", "mark", "finish"}
        /\ \/ Returns("worker") \/ Fetches("worker") \/ Inserts("worker") \/ MovesOn("worker")
           \/ Reads("worker") \/ Deletes("worker") \/ Completes("worker")
    BY ImportEffect DEF Importers, Worker
  <1>1. /\ Worker'.job = Worker.job /\ Worker'.pc \notin {"idle", "mark"}
        /\ Worker'.pc = "finish" => Worker'.out \in Terminal
    BY <1>0 DEF Returns, Fetches, Inserts, MovesOn, Reads, Deletes, Completes, Same, Worker,
                Terminal
  <1>2. up /\ Worker.job \in Jobs /\ job[Worker.job].status = "running"
    BY <1>0 DEF WorkerJob, Worker
  <1>3. WorkerJob'
    BY <1>0, <1>1, <1>2 DEF WorkerJob, Worker
  <1>4. OneActive'
    BY <1>0 DEF OneActive
  <1> QED
    BY <1>3, <1>4

\* All types are kept.
LEMMA TypeStep ==
    ASSUME TypeOK, OneActive, WorkerJob, [Next]_vars
    PROVE  TypeOK' /\ OneActive' /\ WorkerJob' /\ Grows
  <1>1. CASE ImportStep("worker")
    <2>1. OneActive' /\ WorkerJob'
      BY <1>1, WorkerImportStep
    <2>2. Cardinality({j \in Jobs : job[j].status \in Active})' <= 1
      BY <2>1, OneIsFew DEF OneActive
    <2>3. /\ Typed /\ faults' \in 0 .. MaxFaults
          /\ UNCHANGED <<now, published, job, up, lost, stops, runs>>
      BY <1>1, ImportEffect DEF Importers
    <2>4. /\ klines' \in [Bars -> {"none", "partial", "final"}] /\ Grows
          /\ gaps' \subseteq Bars \X Bars \X Importers
      BY <1>1, TablesStep DEF Importers
    <2> QED
      BY <2>1, <2>2, <2>3, <2>4 DEF TypeOK, Typed
  <1>2. CASE ~ImportStep("worker")
    <2>1. OneActive'
      BY <1>2, OtherStep
    <2>2. Cardinality({j \in Jobs : job[j].status \in Active})' <= 1
      BY <2>1, OneIsFew DEF OneActive
    <2> QED
      BY <1>2, <2>2, OtherStep DEF TypeOK, Typed
  <1> QED
    BY <1>1, <1>2

\* The numbers of the worker's import.
LEMMA WorkerNumbers ==
    ASSUME TypeOK
    PROVE  /\ Worker \in ImporterType /\ Worker.from \in Bars /\ Worker.to \in Bars
           /\ Worker.month \in Nat /\ Worker.began \in Nat /\ now \in Nat
           /\ \A b \in Worker.from .. Worker.to : b \in Bars /\ b \in Nat /\ MonthOf[b] \in Nat
                                                  /\ Worker.from <= b /\ b <= Worker.to
  <1>1. Worker \in ImporterType
    BY DEF TypeOK, Worker, Importers
  <1>2. Worker.from \in Bars /\ Worker.to \in Bars /\ Worker.month \in Nat /\ Worker.began \in Nat
    BY <1>1, Consts DEF ImporterType
  <1>3. now \in Nat
    BY Consts DEF TypeOK
  <1>4. Worker.from .. Worker.to \subseteq Bars
    BY <1>2, Consts
  <1>5. ASSUME NEW b \in Worker.from .. Worker.to
        PROVE  b \in Bars /\ b \in Nat /\ MonthOf[b] \in Nat /\ Worker.from <= b /\ b <= Worker.to
    <2>1. b \in Bars
      BY <1>4, <1>5
    <2> QED
      BY <1>2, <1>5, <2>1, Consts
  <1> QED
    BY <1>1, <1>2, <1>3, <1>5

\* The bars of the range that the import must have.
Due(b) == b \in Worker.from .. Worker.to /\ b < Worker.began /\ b \notin Missing

\* What Covered says of one bar.
Held(b) ==
    /\ Worker.pc \in {"fetch", "insert"} /\ MonthOf[b] < Worker.month => klines[b] # "none"
    /\ Worker.pc = "insert" /\ MonthOf[b] = Worker.month => b \in Worker.rows
    /\ Worker.pc = "month" /\ MonthOf[b] <= Worker.month => klines[b] # "none"
    /\ \/ Worker.pc \in {"gapread", "gapdelete", "gapinsert"}
       \/ Worker.pc = "finish" /\ Worker.out = "succeeded"
       => klines[b] # "none"

\* Month after month, every bar that was closed is stored.
LEMMA CoveredStep ==
    ASSUME TypeOK, TypeOK', OneActive, WorkerJob, Covered, [Next]_vars
    PROVE  Covered'
  <1>0. Worker.began <= now /\ \A b : Due(b) => Held(b)
    BY DEF Covered, Due, Held, Worker
  <1>a. /\ Worker \in ImporterType /\ Worker.from \in Bars /\ Worker.to \in Bars
        /\ Worker.month \in Nat /\ Worker.began \in Nat /\ now \in Nat
        /\ \A b \in Worker.from .. Worker.to : b \in Bars /\ b \in Nat /\ MonthOf[b] \in Nat
                                               /\ Worker.from <= b /\ b <= Worker.to
    BY WorkerNumbers
  <1>b. Grows
    BY TypeStep
  <1>c. Worker' \in ImporterType /\ Worker'.began \in Nat /\ Worker'.from \in Bars /\ now' \in Nat
        /\ \A b \in Worker'.from .. Worker'.to : b \in Bars
    <2>1. Worker' \in ImporterType
      BY DEF TypeOK, Worker, Importers
    <2> QED
      <3>1. /\ Worker'.from \in Bars /\ Worker'.to \in Bars
            /\ Worker'.began \in 0 .. MaxBar + 1
        BY <2>1 DEF ImporterType
      <3>2. now' \in Nat
        BY Consts DEF TypeOK
      <3>3. Worker'.from .. Worker'.to \subseteq Bars
        BY <3>1, Consts
      <3> QED
        BY <2>1, <3>1, <3>2, <3>3, Consts
  <1>1. ASSUME Worker'.began <= now', \A b : Due(b)' => Held(b)' PROVE Covered'
    BY <1>1 DEF Covered, Due, Held, Worker
  <1>2. CASE Apart
    <2>1. /\ Worker'.pc = Worker.pc /\ Worker'.from = Worker.from /\ Worker'.to = Worker.to
          /\ Worker'.month = Worker.month /\ Worker'.began = Worker.began
          /\ Worker'.rows = Worker.rows /\ Worker'.out = Worker.out
      BY <1>2, <1>a DEF Apart, ImporterType
    <2>2. Worker'.began <= now'
      BY <1>0, <1>2, <1>a, <2>1 DEF Apart
    <2>3. ASSUME NEW b, Due(b)' PROVE Held(b)'
      <3>1. Due(b) /\ b \in Bars
        BY <1>a, <2>1, <2>3 DEF Due
      <3>2. Held(b)
        BY <1>0, <3>1
      <3> QED
        BY <1>b, <2>1, <3>1, <3>2 DEF Held, Grows
    <2> QED
      BY <1>1, <2>2, <2>3
  <1>3. CASE Rests \/ Picks
    <2>1. Worker'.pc \in {"idle", "mark"} /\ Worker'.began = 0
      BY <1>3, IdleType DEF Rests, Picks
    <2> QED
      BY <1>1, <1>c, <2>1 DEF Held
  <1>4. CASE Begins
    <2>1. Worker'.pc = "fetch" /\ Worker'.began <= now' /\ Worker'.month = MonthOf[Worker'.from]
      BY <1>4 DEF Begins
    <2>2. ASSUME NEW b, Due(b)' PROVE Held(b)'
      <3>1. b \in Bars /\ Worker'.from <= b
        BY <1>c, <2>2, Consts DEF Due
      <3>2. MonthOf[Worker'.from] <= MonthOf[b] /\ MonthOf[b] \in Nat
            /\ MonthOf[Worker'.from] \in Nat
        BY <1>c, <3>1, Consts
      <3>3. ~(MonthOf[b] < Worker'.month)
        BY <2>1, <3>2
      <3> QED
        BY <2>1, <3>3 DEF Held
    <2> QED
      BY <1>1, <2>1, <2>2
  <1>5. CASE ImportStep("worker")
    <2>0. UNCHANGED <<now, published>> /\ "worker" \in Importers
      BY <1>5, ImportEffect DEF Importers
    <2>1. /\ Worker'.from = Worker.from /\ Worker'.to = Worker.to /\ Worker'.began = Worker.began
      BY <1>5, <2>0, ImportEffect DEF Returns, Fetches, Inserts, MovesOn, Reads, Deletes,
                                      Completes, Same, Worker
    <2>2. Worker'.began <= now'
      BY <1>0, <2>0, <2>1
    <2>3. ASSUME NEW b, Due(b)' PROVE Held(b)'
      <3>1. Due(b) /\ Held(b) /\ b \in Bars /\ b \in Nat /\ MonthOf[b] \in Nat /\ b <= Worker.to
        BY <1>0, <1>a, <2>1, <2>3 DEF Due
      <3>2. klines[b] # "none" => klines'[b] # "none"
        BY <1>b, <3>1 DEF Grows
      <3>3. CASE Returns("worker")
        BY <3>3 DEF Returns, Held, Worker
      <3>4. CASE Fetches("worker")
        <4>1. /\ Worker.pc = "fetch" /\ Worker'.pc = "insert" /\ Worker'.month = Worker.month
              /\ Worker'.rows = (Available("worker") \ Missing) \cap Worker.from .. Worker.to
          BY <3>4 DEF Fetches, Worker
        <4>2. MonthOf[b] = Worker.month => b \in Worker'.rows
          <5> SUFFICES ASSUME MonthOf[b] = Worker.month PROVE b \in Worker'.rows
            OBVIOUS
          <5>1. b < now
            BY <1>0, <1>a, <3>1 DEF Due
          <5>2. b \in Available("worker")
            BY <1>a, <3>1, <5>1 DEF Available, ArchiveRows, APIRows, Worker
          <5> QED
            BY <3>1, <4>1, <5>2 DEF Due
        <4> QED
          BY <3>1, <3>2, <4>1, <4>2 DEF Held
      <3>5. CASE Inserts("worker")
        <4>1. /\ Worker.pc = "insert" /\ Worker'.pc = "month" /\ Worker'.month = Worker.month
              /\ klines' = [c \in Bars |-> Stored("worker", c)]
          BY <3>5 DEF Inserts, Worker
        <4>2. MonthOf[b] <= Worker.month => klines'[b] # "none"
          <5>1. CASE MonthOf[b] < Worker.month
            BY <3>1, <3>2, <4>1, <5>1 DEF Held
          <5>2. CASE MonthOf[b] = Worker.month
            <6>1. b \in Worker.rows
              BY <3>1, <4>1, <5>2 DEF Held
            <6>2. Stored("worker", b) # "none"
              BY <6>1 DEF Stored, Worker
            <6> QED
              BY <3>1, <4>1, <6>2
          <5> QED
            BY <1>a, <3>1, <5>1, <5>2
        <4> QED
          BY <4>1, <4>2 DEF Held
      <3>6. CASE MovesOn("worker")
        <4>1. /\ Worker.pc = "month" /\ Worker'.month = Worker.month + 1
              /\ Worker'.pc = IF Worker.month = MonthOf[Worker.to] THEN "gapread" ELSE "fetch"
          BY <3>6 DEF MovesOn, Worker
        <4>2. MonthOf[b] <= Worker.month => klines'[b] # "none"
          BY <3>1, <3>2, <4>1 DEF Held
        <4>3. MonthOf[b] <= MonthOf[Worker.to]
          BY <1>a, <3>1, Consts
        <4>4. MonthOf[b] < Worker'.month => MonthOf[b] <= Worker.month
          BY <1>a, <3>1, <4>1
        <4> QED
          BY <4>1, <4>2, <4>3, <4>4 DEF Held
      <3>7. CASE Reads("worker") \/ Deletes("worker") \/ Completes("worker")
        <4>1. /\ Worker.pc \in {"gapread", "gapdelete", "gapinsert"}
              /\ Worker'.pc \in {"gapdelete", "gapinsert", "finish"}
          BY <3>7 DEF Reads, Deletes, Completes, Worker
        <4>2. klines'[b] # "none"
          BY <3>1, <3>2, <4>1 DEF Held
        <4> QED
          BY <4>1, <4>2 DEF Held
      <3> QED
        BY <1>5, <2>0, <3>3, <3>4, <3>5, <3>6, <3>7, ImportEffect
    <2> QED
      BY <1>1, <2>2, <2>3
  <1> QED
    BY <1>2, <1>3, <1>4, <1>5, OtherStep

\* The gap rows inside the worker's range, and the holes there.
Rows == {g \in gaps : Worker.from <= g[1] /\ g[2] <= Worker.to}
Now == Holes(Worker.from, Worker.to)

\* What CleanSound says of an undisturbed rewrite.
Rewritten ==
    /\ Worker.pc \in {"gapdelete", "gapinsert"} => Worker.found = Now
    /\ Worker.pc = "gapinsert" => Rows = {}
    /\ Worker.pc = "finish" /\ Worker.out = "succeeded" =>
         Rows = {<<g[1], g[2], "worker">> : g \in Now}

\* An undisturbed gap rewrite leaves the holes that are there.
LEMMA CleanStep ==
    ASSUME TypeOK, TypeOK', OneActive, WorkerJob, CleanSound, [Next]_vars
    PROVE  CleanSound'
  <1> SUFFICES ASSUME Worker'.clean PROVE Rewritten'
    BY DEF CleanSound, Worker, Rewritten, Rows, Now, Inside
  <1>0. Worker.clean => Rewritten
    BY DEF CleanSound, Worker, Rewritten, Rows, Now, Inside
  <1>a. Worker \in ImporterType /\ Worker.from \in Bars /\ Worker.to \in Bars
    BY WorkerNumbers
  <1>1. CASE Apart
    <2>1. Worker' = Worker /\ UNCHANGED <<klines, gaps>>
      BY <1>1, <1>a DEF Apart, ImporterType
    <2>2. Rows' = Rows /\ Now' = Now
      BY <2>1 DEF Rows, Now, Holes
    <2> QED
      BY <1>0, <2>1, <2>2 DEF Rewritten
  <1>2. CASE Rests \/ Picks \/ Begins
    BY <1>2, IdleType DEF Rests, Picks, Begins
  <1>3. CASE ImportStep("worker")
    <2>1. CASE \/ Returns("worker") \/ Fetches("worker") \/ Inserts("worker") \/ MovesOn("worker")
      <3>1. /\ Worker'.pc \notin {"gapdelete", "gapinsert"}
            /\ Worker'.pc = "finish" => Worker'.out # "succeeded"
        BY <2>1 DEF Returns, Fetches, Inserts, MovesOn, Worker
      <3> QED
        BY <3>1 DEF Rewritten
    <2>2. CASE Reads("worker")
      <3>1. /\ Worker'.pc = "gapdelete" /\ Worker'.found = Now /\ Worker'.from = Worker.from
            /\ Worker'.to = Worker.to /\ UNCHANGED klines
        BY <2>2 DEF Reads, Same, Worker, Now
      <3>2. Now' = Now
        BY <3>1 DEF Now, Holes
      <3> QED
        BY <3>1, <3>2 DEF Rewritten
    <2>3. CASE Deletes("worker")
      <3>1. /\ Worker.pc = "gapdelete" /\ Worker'.pc = "gapinsert"
            /\ Worker'.from = Worker.from /\ Worker'.to = Worker.to
            /\ Worker'.found = Worker.found /\ Worker.clean
            /\ gaps' = gaps \ Rows /\ UNCHANGED klines
        BY <2>3 DEF Deletes, Same, Worker, StaleGaps, Rows, Inside
      <3>2. Now' = Now
        BY <3>1 DEF Now, Holes
      <3>3. Rows' = {}
        BY <3>1 DEF Rows
      <3> QED
        BY <1>0, <3>1, <3>2, <3>3 DEF Rewritten
    <2>4. CASE Completes("worker")
      <3>1. /\ Worker.pc = "gapinsert" /\ Worker'.pc = "finish"
            /\ Worker'.from = Worker.from /\ Worker'.to = Worker.to /\ Worker.clean
            /\ gaps' = gaps \cup {<<g[1], g[2], "worker">> : g \in Worker.found}
            /\ UNCHANGED klines
        BY <2>4 DEF Completes, Same, Worker
      <3>2. Now' = Now
        BY <3>1 DEF Now, Holes
      <3>3. Worker.found = Now /\ Rows = {}
        BY <1>0, <3>1 DEF Rewritten
      <3>4. \A g \in Now : Worker.from <= g[1] /\ g[2] <= Worker.to
        <4> SUFFICES ASSUME NEW g \in Now PROVE Worker.from <= g[1] /\ g[2] <= Worker.to
          OBVIOUS
        <4>1. g[1] \in Bars /\ g[2] \in Bars /\ Worker.from < g[1] /\ g[2] < Worker.to
          BY DEF Now, Holes
        <4>2. Worker.from \in Nat /\ Worker.to \in Nat /\ g[1] \in Nat /\ g[2] \in Nat
          BY <1>a, <4>1, Consts
        <4> QED
          BY <4>1, <4>2
      <3>5. Rows' = {<<g[1], g[2], "worker">> : g \in Now}
        BY <3>1, <3>3, <3>4 DEF Rows
      <3> QED
        BY <3>1, <3>2, <3>5 DEF Rewritten
    <2> QED
      BY <1>3, <2>1, <2>2, <2>3, <2>4, ImportEffect DEF Importers
  <1> QED
    BY <1>1, <1>2, <1>3, OtherStep

-----------------------------------------------------------------------------
(* The inductive invariant *)

\* It holds at the start.
LEMMA InitInv ==
    Init => IInv
  <1> SUFFICES ASSUME Init PROVE IInv
    OBVIOUS
  <1>1. /\ now = StartNow /\ published = {} /\ klines = [b \in Bars |-> "none"] /\ gaps = {}
        /\ job = [j \in Jobs |-> NoJob] /\ im = [k \in Importers |-> Idle]
        /\ up = TRUE /\ lost = {} /\ faults = 0 /\ stops = 0 /\ runs = 0
    BY DEF Init
  <1>2. \A k \in Importers : im[k] = Idle /\ im[k].rows \subseteq im[k].from .. im[k].to
    BY <1>1, IdleType
  <1>3. im \in [Importers -> ImporterType]
    BY <1>1, IdleType
  <1>4. NoJob \in JobType /\ NoJob.status = "none"
    BY DEF NoJob, JobType
  <1>5. job \in [Jobs -> JobType] /\ \A j \in Jobs : job[j].status = "none"
    BY <1>1, <1>4
  <1>6. OneActive
    BY <1>5 DEF OneActive, Active
  <1>7. Cardinality({j \in Jobs : job[j].status \in Active}) <= 1
    BY <1>6, OneIsFew DEF OneActive
  <1>8. now \in 1 .. MaxBar + 1 /\ 0 \in 0 .. MaxFaults /\ 0 \in 0 .. MaxStops /\ 0 \in 0 .. MaxCLI
    BY <1>1, DataImportAssumption DEF Bars
  <1>9. TypeOK
    BY <1>1, <1>2, <1>3, <1>5, <1>7, <1>8 DEF TypeOK
  <1>10. Worker = Idle
    BY <1>2 DEF Worker, Importers
  <1>11. WorkerJob /\ Covered /\ CleanSound
    <2>1. 0 <= now
      BY <1>8, Consts
    <2> QED
      BY <1>10, <2>1, IdleType DEF WorkerJob, Covered, CleanSound, Worker
  <1> QED
    BY <1>6, <1>9, <1>11 DEF IInv

\* Every step keeps it.
LEMMA Inductive ==
    IInv /\ [Next]_vars => IInv'
  <1> SUFFICES ASSUME IInv, [Next]_vars PROVE IInv'
    OBVIOUS
  <1> USE DEF IInv
  <1>1. TypeOK' /\ OneActive' /\ WorkerJob'
    BY TypeStep
  <1> QED
    BY <1>1, CoveredStep, CleanStep

\* The invariant holds throughout.
LEMMA Invariance ==
    Spec => []IInv
  BY InitInv, Inductive, PTL DEF Spec

\* Types, and one active job at most whatever the requests, stops and failed sweeps do
\* (uq_import_jobs_active, CreateImport, MarkRunning).
THEOREM Typing == Spec => []TypeOK
  <1>1. IInv => TypeOK
    BY DEF IInv
  <1> QED
    BY Invariance, <1>1, PTL

\* A succeeded import has stored every bar that was closed when it began, and its gap
\* rows are the holes unless the other importer wrote meanwhile (ImportSymbol).
THEOREM SuccessComplete == Spec => []SuccessIsComplete
  <1>1. IInv => SuccessIsComplete
    BY DEF IInv, Covered, CleanSound, SuccessIsComplete
  <1> QED
    BY Invariance, <1>1, PTL

\* No step of any importer changes a final bar (bulkInsert).
THEOREM BarsKept == Spec => StoredBarsKept
  <1>1. IInv /\ [Next]_vars => [\A b \in Bars : klines[b] = "final" => klines'[b] = "final"]_vars
    BY TypeStep DEF IInv, Grows
  <1> QED
    BY Invariance, <1>1, PTL DEF Spec, StoredBarsKept
=============================================================================
