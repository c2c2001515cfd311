--------------------------- MODULE LiveTickProofs ---------------------------
(***************************************************************************)
(* TLAPS proofs about LiveTick: typing, the distance of deadline buys, the *)
(* monthly buy and recording before sending, for any instances, calendar,  *)
(* price path and window, and any number of faults and crashes.            *)
(***************************************************************************)
EXTENDS LiveTick, TLAPS

-----------------------------------------------------------------------------
(* The stages of a Tick *)

\* The least element of a set of naturals.
LEMMA MinIs ==
    ASSUME NEW S, S \subseteq Nat, NEW m \in S, \A n \in S : m <= n
    PROVE  Min(S) = m
  <1> DEFINE x == Min(S)
  <1>1. x \in S /\ \A n \in S : x <= n
    BY DEF Min
  <1> HIDE DEF x
  <1>2. x <= m /\ m <= x /\ x \in Nat /\ m \in Nat
    BY <1>1
  <1>3. x = m
    BY <1>2
  <1> QED
    BY <1>3 DEF x

\* The stage a Tick enters: the dispatcher is skipped without orders.
LEMMA EnterEffect ==
    ASSUME NEW t
    PROVE  /\ Enter(t, 0) = [t EXCEPT !.pc = "append", !.at = 1]
           /\ Enter(t, 1) = [t EXCEPT !.pc = "upsert", !.at = 1]
           /\ Enter(t, 2) = IF t.orders = <<>> THEN NoTick
                            ELSE [t EXCEPT !.pc = "record", !.at = 1]
           /\ Enter(t, 3) = IF t.orders = <<>> THEN NoTick
                            ELSE [t EXCEPT !.pc = "send", !.at = 1]
           /\ Enter(t, 4) = NoTick
  <1> DEFINE Left(k) == {n \in k + 1 .. Len(Stages) :
                           Stages[n] \in {"append", "upsert"} \/ t.orders # <<>>}
  <1>1. /\ Len(Stages) = 4 /\ Stages[1] = "append" /\ Stages[2] = "upsert"
        /\ Stages[3] = "record" /\ Stages[4] = "send"
    BY DEF Stages
  <1>3. \A k : Enter(t, k) = IF Left(k) = {} THEN NoTick
                             ELSE [t EXCEPT !.pc = Stages[Min(Left(k))], !.at = 1]
    BY DEF Enter
  <1>4. 1 \in Left(0) /\ Left(0) \subseteq Nat /\ \A n \in Left(0) : 1 <= n
    BY <1>1
  <1>5. 2 \in Left(1) /\ Left(1) \subseteq Nat /\ \A n \in Left(1) : 2 <= n
    BY <1>1
  <1>6. /\ t.orders # <<>> => 3 \in Left(2) /\ 4 \in Left(3)
        /\ t.orders = <<>> => Left(2) = {} /\ Left(3) = {}
        /\ Left(2) \subseteq Nat /\ Left(3) \subseteq Nat /\ Left(4) = {}
        /\ \A n \in Left(2) : 3 <= n
        /\ \A n \in Left(3) : 4 <= n
    BY <1>1
  <1> HIDE DEF Left
  <1>7. Min(Left(0)) = 1 /\ Min(Left(1)) = 2
    BY MinIs, <1>4, <1>5
  <1>8. t.orders # <<>> => Min(Left(2)) = 3 /\ Min(Left(3)) = 4
    BY MinIs, <1>6
  <1>9. Enter(t, 0) = [t EXCEPT !.pc = "append", !.at = 1]
    <2>1. Left(0) # {} /\ Stages[Min(Left(0))] = "append"
      BY <1>1, <1>4, <1>7
    <2> QED
      BY <1>3, <2>1, Zenon
  <1>10. Enter(t, 1) = [t EXCEPT !.pc = "upsert", !.at = 1]
    <2>1. Left(1) # {} /\ Stages[Min(Left(1))] = "upsert"
      BY <1>1, <1>5, <1>7
    <2> QED
      BY <1>3, <2>1, Zenon
  <1>11. Enter(t, 2) = IF t.orders = <<>> THEN NoTick ELSE [t EXCEPT !.pc = "record", !.at = 1]
    <2>1. /\ t.orders = <<>> => Left(2) = {}
          /\ t.orders # <<>> => Left(2) # {} /\ Stages[Min(Left(2))] = "record"
      BY <1>1, <1>6, <1>8
    <2> QED
      BY <1>3, <2>1, Zenon
  <1>12. Enter(t, 3) = IF t.orders = <<>> THEN NoTick ELSE [t EXCEPT !.pc = "send", !.at = 1]
    <2>1. /\ t.orders = <<>> => Left(3) = {}
          /\ t.orders # <<>> => Left(3) # {} /\ Stages[Min(Left(3))] = "send"
      BY <1>1, <1>6, <1>8
    <2> QED
      BY <1>3, <2>1, Zenon
  <1>13. Enter(t, 4) = NoTick
    BY <1>3, <1>6
  <1> QED
    BY <1>9, <1>10, <1>11, <1>12, <1>13

\* What follows a write: the next order, the next stage, or the end.
LEMMA AfterEffect ==
    ASSUME NEW t \in TickType
    PROVE  /\ t.pc = "append" => After(t) = [t EXCEPT !.pc = "upsert", !.at = 1]
           /\ t.pc = "upsert" => After(t) = IF t.orders = <<>> THEN NoTick
                                            ELSE [t EXCEPT !.pc = "record", !.at = 1]
           /\ t.pc = "record" => After(t) = IF t.at < Len(t.orders) THEN [t EXCEPT !.at = @ + 1]
                                            ELSE IF t.orders = <<>> THEN NoTick
                                            ELSE [t EXCEPT !.pc = "send", !.at = 1]
           /\ t.pc = "send" => After(t) = IF t.at < Len(t.orders) THEN [t EXCEPT !.at = @ + 1]
                                          ELSE NoTick
  <1> DEFINE At == CHOOSE k \in DOMAIN Stages : Stages[k] = t.pc
  <1>1. /\ DOMAIN Stages = 1 .. 4 /\ Stages[1] = "append" /\ Stages[2] = "upsert"
        /\ Stages[3] = "record" /\ Stages[4] = "send"
    BY DEF Stages
  <1>2. /\ t.pc = "append" => At = 1
        /\ t.pc = "upsert" => At = 2
        /\ t.pc = "record" => At = 3
        /\ t.pc = "send" => At = 4
    BY <1>1
  <1>3. After(t) = IF t.pc \in {"record", "send"} /\ t.at < Len(t.orders)
                   THEN [t EXCEPT !.at = @ + 1] ELSE Enter(t, At)
    BY DEF After
  <1> HIDE DEF At
  <1> QED
    BY <1>2, <1>3, EnterEffect

-----------------------------------------------------------------------------
(* Typing *)

\* No Tick in flight, and a Tick that is about to start.
LEMMA NoTickType ==
    /\ NoTick \in TickType /\ NoTick.pc = "idle" /\ NoTick.at = 1 /\ NoTick.orders = <<>>
    /\ [NoTick EXCEPT !.pc = "start"] \in TickType
    /\ [NoTick EXCEPT !.pc = "start"].pc = "start"
    /\ [NoTick EXCEPT !.pc = "start"].at = 1 /\ [NoTick EXCEPT !.pc = "start"].orders = <<>>
  <1>1. FreshRuntime \in RuntimeType
    BY LiveTickAssumption DEF FreshRuntime, RuntimeType
  <1>2. <<>> \in Seq(OrderIDs) /\ 0 \in 0 .. MaxTime
    BY LiveTickAssumption
  <1> HIDE DEF FreshRuntime
  <1>3. NoTick \in TickType
    BY <1>1, <1>2 DEF NoTick, TickType
  <1>4. NoTick.pc = "idle" /\ NoTick.at = 1 /\ NoTick.orders = <<>>
    BY DEF NoTick
  <1>5. [NoTick EXCEPT !.pc = "start"] \in TickType
    BY <1>3 DEF TickType
  <1>6. /\ [NoTick EXCEPT !.pc = "start"].pc = "start"
        /\ [NoTick EXCEPT !.pc = "start"].at = 1 /\ [NoTick EXCEPT !.pc = "start"].orders = <<>>
    BY DEF NoTick
  <1> QED
    BY <1>3, <1>4, <1>5, <1>6

\* What a Tick keeps from one write to the next.
SameTick(u, t) ==
    /\ u.now = t.now /\ u.bar = t.bar /\ u.next = t.next
    /\ u.reason = t.reason /\ u.orders = t.orders

\* A Tick moved to the first order of a stage.
LEMMA MovedType ==
    ASSUME NEW t \in TickType, NEW p \in {"append", "upsert", "record", "send"}
    PROVE  /\ [t EXCEPT !.pc = p, !.at = 1] \in TickType
           /\ SameTick([t EXCEPT !.pc = p, !.at = 1], t)
           /\ [t EXCEPT !.pc = p, !.at = 1].pc = p /\ [t EXCEPT !.pc = p, !.at = 1].at = 1
  <1> DEFINE v == [t EXCEPT !.pc = p]
             u == [v EXCEPT !.at = 1]
  <1>1. v \in TickType /\ SameTick(v, t) /\ v.pc = p
    BY DEF TickType, SameTick
  <1>2. [t EXCEPT !.pc = p, !.at = 1] = u
    OBVIOUS
  <1> HIDE DEF v
  <1>3. u \in TickType /\ SameTick(u, v) /\ u.pc = v.pc /\ u.at = 1
    BY <1>1 DEF TickType, SameTick
  <1> HIDE DEF u
  <1>4. u \in TickType /\ SameTick(u, t) /\ u.pc = p /\ u.at = 1
    BY <1>1, <1>3 DEF SameTick
  <1> QED
    BY <1>2, <1>4, Zenon

\* After a write the Tick is over, or goes on with what it decided.
LEMMA AfterFields ==
    ASSUME NEW t \in TickType, t.pc \in Decided
    PROVE  /\ After(t) \in TickType
           /\ \/ After(t) = NoTick /\ t.pc # "append" /\ (t.pc = "record" => t.orders = <<>>)
              \/ /\ SameTick(After(t), t) /\ After(t).at <= Len(t.orders) + 1
                 /\ After(t).pc \in {"record", "send"} => After(t).at <= Len(t.orders)
                 /\ \/ t.pc = "append" /\ After(t).pc = "upsert"
                    \/ t.pc = "upsert" /\ After(t).pc = "record" /\ After(t).at = 1
                    \/ t.pc = "record" /\ After(t).pc = "record" /\ After(t).at = t.at + 1
                    \/ t.pc = "record" /\ After(t).pc = "send" /\ ~(t.at < Len(t.orders))
                    \/ t.pc = "send" /\ After(t).pc = "send"
  <1>0. Len(t.orders) \in Nat /\ t.at \in Nat \ {0} /\ (t.orders # <<>> => Len(t.orders) >= 1)
    BY DEF TickType
  <1>1. CASE t.pc = "append"
    <2>1. After(t) = [t EXCEPT !.pc = "upsert", !.at = 1]
      BY <1>1, AfterEffect
    <2>2. /\ After(t) \in TickType /\ SameTick(After(t), t) /\ After(t).pc = "upsert"
          /\ After(t).at = 1
      <3> DEFINE u == [t EXCEPT !.pc = "upsert", !.at = 1]
      <3>1. u \in TickType /\ SameTick(u, t) /\ u.pc = "upsert" /\ u.at = 1
        BY MovedType
      <3> QED
        BY <2>1, <3>1
    <2> QED
      BY <1>0, <1>1, <2>2
  <1>2. CASE t.pc = "upsert" /\ t.orders # <<>>
    <2>1. After(t) = [t EXCEPT !.pc = "record", !.at = 1]
      BY <1>2, AfterEffect
    <2>2. /\ After(t) \in TickType /\ SameTick(After(t), t) /\ After(t).pc = "record"
          /\ After(t).at = 1
      BY <2>1, MovedType, ZenonT(30)
    <2> QED
      BY <1>0, <1>2, <2>2
  <1>3. CASE t.pc = "upsert" /\ t.orders = <<>>
    BY <1>3, AfterEffect, NoTickType
  <1>4. CASE t.pc \in {"record", "send"} /\ t.at < Len(t.orders)
    <2>1. After(t) = [t EXCEPT !.at = @ + 1]
      BY <1>4, AfterEffect
    <2>2. After(t) \in TickType /\ SameTick(After(t), t) /\ After(t).at = t.at + 1
          /\ After(t).pc = t.pc
      BY <2>1 DEF TickType, SameTick
    <2> QED
      BY <1>0, <1>4, <2>2
  <1>5. CASE t.pc = "record" /\ ~(t.at < Len(t.orders)) /\ t.orders # <<>>
    <2>1. After(t) = [t EXCEPT !.pc = "send", !.at = 1]
      BY <1>5, AfterEffect
    <2>2. /\ After(t) \in TickType /\ SameTick(After(t), t) /\ After(t).pc = "send"
          /\ After(t).at = 1
      BY <2>1, MovedType, ZenonT(30)
    <2> QED
      BY <1>0, <1>5, <2>2
  <1>6. CASE t.pc = "record" /\ ~(t.at < Len(t.orders)) /\ t.orders = <<>>
    BY <1>6, AfterEffect, NoTickType
  <1>7. CASE t.pc = "send" /\ ~(t.at < Len(t.orders))
    BY <1>7, AfterEffect, NoTickType
  <1> QED
    BY <1>1, <1>2, <1>3, <1>4, <1>5, <1>6, <1>7 DEF Decided

\* The orders of a Tick are of its interval.
LEMMA OrdersType ==
    ASSUME NEW now \in Times, NEW ms \in Offsets, NEW reason, NEW micro \in BOOLEAN
    PROVE  /\ Orders(now, ms, reason, micro) \in Seq(OrderIDs)
           /\ \A k \in DOMAIN Orders(now, ms, reason, micro) :
                Orders(now, ms, reason, micro)[k][2] = now
  <1> DEFINE p == IF reason = "none" THEN <<>> ELSE <<<<"macro", now, ms>>>>
             q == IF micro THEN <<<<"micro", now, ms>>>> ELSE <<>>
  <1>1. <<"macro", now, ms>> \in OrderIDs /\ <<"micro", now, ms>> \in OrderIDs
    BY DEF OrderIDs, Kinds
  <1>2. p \in Seq(OrderIDs) /\ \A k \in 1 .. Len(p) : p[k][2] = now
    BY <1>1
  <1>3. q \in Seq(OrderIDs) /\ \A k \in 1 .. Len(q) : q[k][2] = now
    BY <1>1
  <1>4. Orders(now, ms, reason, micro) = p \o q
    BY DEF Orders
  <1> HIDE DEF p, q
  <1>5. p \o q \in Seq(OrderIDs) /\ \A k \in DOMAIN (p \o q) : (p \o q)[k][2] = now
    BY <1>2, <1>3
  <1> QED
    BY <1>4, <1>5

\* Step: the peak window is rolled, a macro buy is stamped, a monthly one is of another
\* month than the last bar, and a deadline one is that far from the last stamp.
Outcome(out, r, now, lastBar, nav) ==
    /\ out.next \in RuntimeType /\ out.reason \in {"none", "monthly", "deadline"}
    /\ out.next.peak = RollPeakWindow(r.peak, now, nav)
    /\ out.next.macro = IF out.reason = "none" THEN r.macro ELSE now
    /\ out.reason = "monthly" => lastBar > 0 /\ MonthOf[now] # MonthOf[lastBar]
    /\ out.reason = "deadline" => r.macro = 0 \/ now - r.macro >= Deadline

\* That is what stepCore returns.
LEMMA StepEffect ==
    ASSUME NEW r \in RuntimeType, NEW now \in Times, NEW lastBar \in 0 .. MaxTime,
           NEW nav \in Navs, NEW cash \in BOOLEAN
    PROVE  Outcome(Step(r, now, lastBar, nav, cash), r, now, lastBar, nav)
  <1> DEFINE reason == MacroDecision(r, now, lastBar, cash)
             peak == RollPeakWindow(r.peak, now, nav)
             m == StampMacro(r, now, reason)
             next == [m EXCEPT !.peak = peak]
  <1>1. /\ reason \in {"none", "monthly", "deadline"}
        /\ reason = "monthly" => lastBar > 0 /\ MonthOf[now] # MonthOf[lastBar]
        /\ reason = "deadline" => r.macro = 0 \/ now - r.macro >= Deadline
    BY DEF MacroDecision, MacroReason
  <1>2. peak \in SUBSET (Times \X Navs)
    BY DEF RollPeakWindow, RuntimeType
  <1>3. Step(r, now, lastBar, nav, cash) = [reason |-> reason, next |-> next]
    BY DEF Step
  <1> HIDE DEF reason, peak
  <1>4. m \in RuntimeType /\ m.macro = IF reason = "none" THEN r.macro ELSE now
    <2>1. CASE reason = "none"
      BY <2>1 DEF RuntimeType, StampMacro
    <2>2. CASE reason # "none"
      <3>1. now \in 0 .. MaxTime
        BY LiveTickAssumption DEF Times
      <3>2. StampMacro(r, now, reason) = [r EXCEPT !.macro = now]
        BY <2>2 DEF StampMacro
      <3> QED
        BY <2>2, <3>1, <3>2 DEF RuntimeType
    <2> QED
      BY <2>1, <2>2
  <1> HIDE DEF m
  <1>5. next \in RuntimeType /\ next.peak = peak /\ next.macro = m.macro
    BY <1>2, <1>4 DEF RuntimeType
  <1> HIDE DEF next
  <1> QED
    BY <1>1, <1>3, <1>4, <1>5 DEF peak, Outcome

-----------------------------------------------------------------------------
(* What a step does *)

Others(i) == \A j \in Instances \ {i} : tick'[j] = tick[j]

\* Bars arrive, or nothing happens.
Waits ==
    /\ feed' \in Nat /\ feed <= feed' /\ (feed' <= clock \/ feed' = feed)
    /\ UNCHANGED <<clock, ps, rs, tick, records, sent>>

\* An interval passes, for better (a scan) or worse (a crash).
Passes ==
    /\ clock' = clock + 1
    /\ \A j \in Instances : \/ tick'[j] = tick[j] /\ tick[j].pc # "start"
                            \/ tick'[j].pc \in {"idle", "start"}
    /\ UNCHANGED <<feed, ps, rs, records, sent>>

\* The Tick of i ends without a write.
Drops(i) ==
    /\ tick'[i].pc = "idle" /\ Others(i)
    /\ UNCHANGED <<clock, feed, ps, rs, records, sent>>

Decides(i) ==
    /\ tick[i].pc = "start" /\ Others(i) /\ feed \in Times
    /\ LET u == tick'[i] IN
         /\ u.pc = "append" /\ u.now = clock /\ u.bar = feed
         /\ \A k \in DOMAIN u.orders : u.orders[k][2] = u.now
         /\ \E nav \in Navs : u.next.peak = RollPeakWindow(rs[i].peak, clock, nav)
         /\ u.next.macro = IF u.reason = "none" THEN rs[i].macro ELSE clock
         /\ u.reason = "monthly" => ps[i] > 0 /\ MonthOf[clock] # MonthOf[ps[i]]
         /\ u.reason = "deadline" => rs[i].macro = 0 \/ clock - rs[i].macro >= Deadline
    /\ UNCHANGED <<clock, feed, ps, rs, records, sent>>

Appends(i) ==
    /\ tick[i].pc = "append" /\ tick'[i].pc = "upsert" /\ SameTick(tick'[i], tick[i]) /\ Others(i)
    /\ ps' = [ps EXCEPT ![i] = tick[i].bar]
    /\ UNCHANGED <<clock, feed, rs, records, sent>>

Upserts(i) ==
    /\ tick[i].pc = "upsert" /\ Others(i)
    /\ \/ tick'[i].pc = "idle"
       \/ /\ tick'[i].pc = "record" /\ tick'[i].at = 1 /\ SameTick(tick'[i], tick[i])
          /\ tick'[i].at <= Len(tick[i].orders)
    /\ rs' = [rs EXCEPT ![i] = tick[i].next]
    /\ UNCHANGED <<clock, feed, ps, records, sent>>

Records(i) ==
    LET o == tick[i].orders[tick[i].at] IN
    /\ tick[i].pc = "record" /\ Others(i) /\ tick[i].orders # <<>> /\ o \in OrderIDs
    /\ SameTick(tick'[i], tick[i]) /\ tick'[i].at <= Len(tick[i].orders)
    /\ \/ tick'[i].pc = "record" /\ tick'[i].at = tick[i].at + 1
       \/ tick'[i].pc = "send" /\ ~(tick[i].at < Len(tick[i].orders))
    /\ records[o] = "none" /\ records' = [records EXCEPT ![o] = i]
    /\ UNCHANGED <<clock, feed, ps, rs, sent>>

Sends(i) ==
    LET o == tick[i].orders[tick[i].at] IN
    /\ tick[i].pc = "send" /\ Others(i) /\ o \in OrderIDs
    /\ tick[i].at \in DOMAIN tick[i].orders
    /\ \/ tick'[i].pc = "idle"
       \/ /\ tick'[i].pc = "send" /\ SameTick(tick'[i], tick[i])
          /\ tick'[i].at <= Len(tick[i].orders)
    /\ sent' = sent \cup {Command(i, tick[i], o)}
    /\ UNCHANGED <<clock, feed, ps, rs, records>>

\* The order a dispatching Tick has in hand.
LEMMA OrderInHand ==
    ASSUME TypeOK, TickSound, NEW i \in Instances, tick[i].pc \in {"record", "send"}
    PROVE  /\ tick[i].at \in DOMAIN tick[i].orders
           /\ tick[i].orders[tick[i].at] \in OrderIDs /\ tick[i].orders # <<>>
           /\ tick[i].orders[tick[i].at][2] = tick[i].now
  <1>1. tick[i].at \in Nat \ {0} /\ tick[i].orders \in Seq(OrderIDs)
    BY DEF TypeOK, TickType
  <1>2. tick[i].at <= Len(tick[i].orders)
    BY DEF TickSound, TickOK, Decided
  <1>3. tick[i].at \in DOMAIN tick[i].orders
    BY <1>1, <1>2
  <1>4. tick[i].orders[tick[i].at] \in OrderIDs /\ tick[i].orders # <<>>
    BY <1>1, <1>3
  <1>5. tick[i].orders[tick[i].at][2] = tick[i].now
    BY <1>3 DEF TickSound, TickOK, Decided
  <1> QED
    BY <1>3, <1>4, <1>5

\* Decide keeps the types and has one of two outcomes.
LEMMA DecideEffect ==
    ASSUME TypeOK, NEW i \in Instances, Decide(i)
    PROVE  /\ tick' \in [Instances -> TickType] /\ faults' \in 0 .. MaxFaults
           /\ tick'[i].at <= Len(tick'[i].orders) + 1
           /\ UNCHANGED <<clock, close, feed, tables>> /\ (Decides(i) \/ Drops(i))
  <1>0. UNCHANGED <<clock, close, feed, ps, rs, records, sent>> /\ tick[i].pc = "start"
    BY DEF Decide, tables
  <1>1. CASE tick' = [tick EXCEPT ![i] = NoTick] /\ (UNCHANGED faults \/ Fault)
    <2>1. faults' \in 0 .. MaxFaults
      BY <1>1, LiveTickAssumption DEF TypeOK, Fault
    <2> QED
      BY <1>0, <1>1, <2>1, NoTickType DEF TypeOK, Drops, Others, tables
  <1>2. ASSUME ~BarsStale, UNCHANGED faults, NEW ms \in Offsets, NEW cash \in BOOLEAN,
               NEW micro \in BOOLEAN, NEW out, out = Step(rs[i], clock, ps[i], close[feed], cash),
               tick' = [tick EXCEPT ![i] = Enter(
                    [pc |-> "start", now |-> clock, bar |-> feed, next |-> out.next,
                     reason |-> out.reason, at |-> 1,
                     orders |-> Orders(clock, ms, out.reason, micro)], 0)]
        PROVE  /\ tick' \in [Instances -> TickType] /\ tick'[i].at <= Len(tick'[i].orders) + 1
               /\ Decides(i)
    <2> DEFINE q == Orders(clock, ms, out.reason, micro)
               s == [pc |-> "start", now |-> clock, bar |-> feed, next |-> out.next,
                     reason |-> out.reason, at |-> 1, orders |-> q]
               u == [s EXCEPT !.pc = "append", !.at = 1]
    <2>1. feed \in Times /\ close[feed] \in Navs /\ clock \in Times
      BY <1>2, LiveTickAssumption DEF BarsStale, TypeOK, Times
    <2>2. /\ out.next \in RuntimeType /\ out.reason \in {"none", "monthly", "deadline"}
          /\ out.next.peak = RollPeakWindow(rs[i].peak, clock, close[feed])
          /\ out.next.macro = IF out.reason = "none" THEN rs[i].macro ELSE clock
          /\ out.reason = "monthly" => ps[i] > 0 /\ MonthOf[clock] # MonthOf[ps[i]]
          /\ out.reason = "deadline" => rs[i].macro = 0 \/ clock - rs[i].macro >= Deadline
      <3>1. rs[i] \in RuntimeType /\ ps[i] \in 0 .. MaxTime
        BY DEF TypeOK
      <3>2. out = Step(rs[i], clock, ps[i], close[feed], cash)
        BY <1>2
      <3>3. Outcome(Step(rs[i], clock, ps[i], close[feed], cash), rs[i], clock, ps[i], close[feed])
        BY <2>1, <3>1, StepEffect
      <3> QED
        BY <3>2, <3>3 DEF Outcome
    <2>3. q \in Seq(OrderIDs) /\ \A k \in DOMAIN q : q[k][2] = clock
      BY <2>1, OrdersType
    <2>4. clock \in 0 .. MaxTime /\ feed \in 0 .. MaxTime
      BY <2>1, LiveTickAssumption DEF Times
    <2>5. tick' = [tick EXCEPT ![i] = u]
      BY <1>2, EnterEffect
    <2> HIDE DEF q
    <2>6. s \in TickType /\ s.now = clock /\ s.bar = feed
          /\ s.next = out.next /\ s.reason = out.reason /\ s.orders = q
      BY <2>2, <2>3, <2>4 DEF TickType
    <2> HIDE DEF s
    <2>7. u \in TickType /\ SameTick(u, s) /\ u.pc = "append" /\ u.at = 1
      BY <2>6, MovedType
    <2> HIDE DEF u
    <2>8. tick'[i] = u /\ tick' \in [Instances -> TickType] /\ Others(i)
      BY <2>5, <2>7 DEF TypeOK, Others
    <2>9. u.at <= Len(u.orders) + 1
      BY <2>3, <2>6, <2>7 DEF SameTick
    <2>10. /\ u.pc = "append" /\ u.now = clock /\ u.bar = feed
           /\ \A k \in DOMAIN u.orders : u.orders[k][2] = u.now
           /\ u.next = out.next /\ u.reason = out.reason
      BY <2>3, <2>6, <2>7 DEF SameTick
    <2> QED
      BY <1>0, <2>1, <2>2, <2>8, <2>9, <2>10 DEF Decides
  <1>3. CASE tick' # [tick EXCEPT ![i] = NoTick]
    <2>1. ~BarsStale /\ UNCHANGED faults
      BY <1>3 DEF Decide
    <2>2. PICK ms \in Offsets, cash \in BOOLEAN, micro \in BOOLEAN :
             LET out == Step(rs[i], clock, ps[i], close[feed], cash)
             IN tick' = [tick EXCEPT ![i] = Enter(
                  [pc |-> "start", now |-> clock, bar |-> feed, next |-> out.next,
                   reason |-> out.reason, at |-> 1,
                   orders |-> Orders(clock, ms, out.reason, micro)], 0)]
      BY <1>3 DEF Decide
    <2>3. /\ tick' \in [Instances -> TickType] /\ tick'[i].at <= Len(tick'[i].orders) + 1
          /\ Decides(i)
      BY <1>2, <2>1, <2>2
    <2> QED
      BY <1>0, <2>1, <2>3 DEF TypeOK, tables
  <1>4. CASE tick' = [tick EXCEPT ![i] = NoTick]
    BY <1>1, <1>4 DEF Decide
  <1> QED
    BY <1>3, <1>4

\* A Tick that ends early: a statement or a send failed, or an id was taken.
LEMMA EndEffect ==
    ASSUME TypeOK, NEW i \in Instances, tick' = [tick EXCEPT ![i] = NoTick],
           Fault \/ UNCHANGED faults
    PROVE  /\ tick' \in [Instances -> TickType] /\ faults' \in 0 .. MaxFaults
           /\ tick'[i].at <= Len(tick'[i].orders) + 1
           /\ tick'[i].pc = "idle" /\ Others(i)
  <1>1. faults' \in 0 .. MaxFaults
    BY LiveTickAssumption DEF Fault, TypeOK
  <1>2. tick' \in [Instances -> TickType] /\ tick'[i] = NoTick /\ Others(i)
    BY NoTickType DEF TypeOK, Others
  <1> QED
    BY <1>1, <1>2, NoTickType

\* A Tick that wrote.
LEMMA MoveEffect ==
    ASSUME TypeOK, NEW i \in Instances, tick[i].pc \in Decided,
           tick' = [tick EXCEPT ![i] = After(tick[i])]
    PROVE  /\ tick' \in [Instances -> TickType] /\ tick'[i] = After(tick[i]) /\ Others(i)
           /\ tick'[i].at <= Len(tick'[i].orders) + 1
  <1>1. tick[i] \in TickType
    BY DEF TypeOK
  <1>2. /\ After(tick[i]) \in TickType
        /\ After(tick[i]).at <= Len(After(tick[i]).orders) + 1
    BY <1>1, AfterFields, NoTickType DEF SameTick
  <1>3. tick' \in [Instances -> TickType] /\ tick'[i] = After(tick[i]) /\ Others(i)
    BY <1>2 DEF TypeOK, Others
  <1> QED
    BY <1>2, <1>3

\* A scheduled start of a Tick keeps the types.
LEMMA FireType ==
    ASSUME NEW i \in Instances, NEW t, NEW tk \in TickType, tk.at <= Len(tk.orders) + 1
    PROVE  /\ Fire(i, t, tk) \in TickType
           /\ Fire(i, t, tk).at <= Len(Fire(i, t, tk).orders) + 1
           /\ Fire(i, t, tk) = tk \/ (tk.pc = "idle" /\ Fire(i, t, tk).pc = "start")
  <1> DEFINE s == [NoTick EXCEPT !.pc = "start"]
  <1>1. s \in TickType /\ s.pc = "start" /\ s.at <= Len(s.orders) + 1
    BY NoTickType
  <1>2. Fire(i, t, tk) = IF LiveFrom[i] <= t /\ tk.pc = "idle" THEN s ELSE tk
    BY DEF Fire
  <1> HIDE DEF s
  <1> QED
    BY <1>1, <1>2

\* Every step is of one of these kinds, and keeps the types of the Ticks in flight.
LEMMA NextEffect ==
    ASSUME TypeOK, TickSound, [Next]_vars
    PROVE  /\ tick' \in [Instances -> TickType] /\ faults' \in 0 .. MaxFaults
           /\ \A j \in Instances : tick'[j].at <= Len(tick'[j].orders) + 1
           /\ clock' \in Times /\ UNCHANGED close /\ feed' \in 0 .. MaxTime
           /\ \/ Waits \/ Passes
              \/ \E i \in Instances : \/ Drops(i) \/ Decides(i) \/ Appends(i)
                                      \/ Upserts(i) \/ Records(i) \/ Sends(i)
  <1> DEFINE Typed ==
        /\ tick' \in [Instances -> TickType] /\ faults' \in 0 .. MaxFaults
        /\ \A j \in Instances : tick'[j].at <= Len(tick'[j].orders) + 1
        /\ clock' \in Times /\ UNCHANGED close /\ feed' \in 0 .. MaxTime
  <1> USE DEF tables
  <1>0. /\ tick \in [Instances -> TickType] /\ faults \in 0 .. MaxFaults /\ clock \in Times
        /\ \A j \in Instances : tick[j].at <= Len(tick[j].orders) + 1
        /\ feed \in 0 .. MaxTime
    BY DEF TypeOK
  <1>1. CASE UNCHANGED vars
    BY <1>0, <1>1 DEF vars, Waits
  <1>2. ASSUME NEW b \in Times, FeedBars(b) PROVE Typed /\ Waits
    BY <1>0, <1>2, LiveTickAssumption DEF FeedBars, Waits, Times
  <1>3. ASSUME ScanAndTick PROVE Typed /\ Passes
    <2>1. clock' \in Times /\ clock' = clock + 1
      BY <1>0, <1>3, LiveTickAssumption DEF ScanAndTick, Times
    <2>2. \A j \in Instances : tick'[j] = Fire(j, clock', tick[j])
      BY <1>3 DEF ScanAndTick
    <2>3. \A j \in Instances : tick'[j] \in TickType /\ tick'[j].at <= Len(tick'[j].orders) + 1
                               /\ \/ tick'[j] = tick[j]
                                  \/ tick[j].pc = "idle" /\ tick'[j].pc = "start"
      BY <1>0, <2>2, FireType
    <2>4. tick' \in [Instances -> TickType]
      BY <1>3, <2>3 DEF ScanAndTick
    <2> QED
      BY <1>0, <1>3, <2>1, <2>3, <2>4 DEF ScanAndTick, Passes
  <1>4. ASSUME Crash PROVE Typed /\ Passes
    <2>1. clock' \in Times /\ clock' = clock + 1 /\ faults' \in 0 .. MaxFaults
      BY <1>0, <1>4, LiveTickAssumption DEF Crash, Fault, Times
    <2>2. \A j \in Instances : tick'[j] = Fire(j, clock', NoTick)
      BY <1>4 DEF Crash
    <2>3. \A j \in Instances : tick'[j] \in TickType /\ tick'[j].at <= Len(tick'[j].orders) + 1
                               /\ tick'[j].pc \in {"idle", "start"}
      <3>1. NoTick \in TickType /\ NoTick.at <= Len(NoTick.orders) + 1 /\ NoTick.pc = "idle"
        BY NoTickType
      <3> QED
        BY <2>2, <3>1, FireType
    <2>4. tick' \in [Instances -> TickType]
      BY <1>4, <2>3 DEF Crash
    <2> QED
      BY <1>0, <1>4, <2>1, <2>3, <2>4 DEF Crash, Passes
  <1>5. ASSUME NEW i \in Instances, Decide(i) PROVE Typed /\ (Drops(i) \/ Decides(i))
    <2>1. \A j \in Instances : tick'[j].at <= Len(tick'[j].orders) + 1
      BY <1>0, <1>5, DecideEffect DEF Drops, Decides, Others
    <2> QED
      BY <1>0, <1>5, <2>1, DecideEffect
  <1>6. ASSUME NEW i \in Instances, tick' = [tick EXCEPT ![i] = NoTick],
               Fault \/ UNCHANGED faults,
               UNCHANGED <<clock, close, feed, ps, rs, records, sent>>
        PROVE  Typed /\ Drops(i)
    <2>1. \A j \in Instances : tick'[j].at <= Len(tick'[j].orders) + 1
      BY <1>0, <1>6, EndEffect DEF Others
    <2> QED
      BY <1>0, <1>6, <2>1, EndEffect DEF Drops
  <1>7. ASSUME NEW i \in Instances, tick[i].pc \in Decided,
               tick' = [tick EXCEPT ![i] = After(tick[i])],
               UNCHANGED <<faults, clock, close, feed>>
        PROVE  Typed
    <2>1. \A j \in Instances : tick'[j].at <= Len(tick'[j].orders) + 1
      BY <1>0, <1>7, MoveEffect DEF Others
    <2> QED
      BY <1>0, <1>7, <2>1, MoveEffect
  <1>8. ASSUME NEW i \in Instances, AppendPortfolio(i) PROVE Typed /\ (Drops(i) \/ Appends(i))
    <2>0. tick[i].pc = "append" /\ UNCHANGED <<clock, close, feed, rs, records, sent>>
      BY <1>8 DEF AppendPortfolio
    <2>1. CASE GiveUp(i) /\ UNCHANGED ps
      BY <1>6, <2>0, <2>1 DEF GiveUp
    <2>2. CASE /\ ps' = [ps EXCEPT ![i] = tick[i].bar]
               /\ tick' = [tick EXCEPT ![i] = After(tick[i])] /\ UNCHANGED faults
      <3>1. Typed
        BY <1>7, <2>0, <2>2 DEF Decided
      <3>2. tick'[i] = After(tick[i]) /\ Others(i)
        BY <2>0, <2>2, MoveEffect DEF Decided
      <3>3. tick'[i].pc = "upsert" /\ SameTick(tick'[i], tick[i])
        BY <1>0, <2>0, <3>2, AfterFields DEF Decided
      <3> QED
        BY <2>0, <2>2, <3>1, <3>2, <3>3 DEF Appends
    <2> QED
      BY <1>8, <2>1, <2>2 DEF AppendPortfolio
  <1>9. ASSUME NEW i \in Instances, UpsertRuntime(i) PROVE Typed /\ (Drops(i) \/ Upserts(i))
    <2>0. tick[i].pc = "upsert" /\ UNCHANGED <<clock, close, feed, ps, records, sent>>
      BY <1>9 DEF UpsertRuntime
    <2>1. CASE GiveUp(i) /\ UNCHANGED rs
      BY <1>6, <2>0, <2>1 DEF GiveUp
    <2>2. CASE /\ rs' = [rs EXCEPT ![i] = tick[i].next]
               /\ tick' = [tick EXCEPT ![i] = After(tick[i])] /\ UNCHANGED faults
      <3>1. Typed
        BY <1>7, <2>0, <2>2 DEF Decided
      <3>2. tick'[i] = After(tick[i]) /\ Others(i)
        BY <2>0, <2>2, MoveEffect DEF Decided
      <3>3. \/ tick'[i].pc = "idle"
            \/ /\ tick'[i].pc = "record" /\ tick'[i].at = 1 /\ SameTick(tick'[i], tick[i])
               /\ tick'[i].at <= Len(tick[i].orders)
        BY <1>0, <2>0, <3>2, AfterFields, NoTickType DEF Decided
      <3> QED
        BY <2>0, <2>2, <3>1, <3>2, <3>3 DEF Upserts
    <2> QED
      BY <1>9, <2>1, <2>2 DEF UpsertRuntime
  <1>10. ASSUME NEW i \in Instances, RecordOrder(i) PROVE Typed /\ (Drops(i) \/ Records(i))
    <2> DEFINE o == tick[i].orders[tick[i].at]
    <2>0. tick[i].pc = "record" /\ UNCHANGED <<clock, close, feed, ps, rs, sent>>
      BY <1>10 DEF RecordOrder
    <2>1. CASE GiveUp(i) /\ UNCHANGED records
      BY <1>6, <2>0, <2>1 DEF GiveUp
    <2>2. CASE tick' = [tick EXCEPT ![i] = NoTick] /\ UNCHANGED <<records, faults>>
      BY <1>6, <2>0, <2>2
    <2>3. CASE /\ records[o] = "none" /\ records' = [records EXCEPT ![o] = i]
               /\ tick' = [tick EXCEPT ![i] = After(tick[i])] /\ UNCHANGED faults
      <3>1. Typed
        BY <1>7, <2>0, <2>3 DEF Decided
      <3>2. tick'[i] = After(tick[i]) /\ Others(i)
        BY <2>0, <2>3, MoveEffect DEF Decided
      <3>3. o \in OrderIDs /\ tick[i].orders # <<>>
        BY <2>0, OrderInHand
      <3>4. /\ SameTick(tick'[i], tick[i]) /\ tick'[i].at <= Len(tick[i].orders)
            /\ \/ tick'[i].pc = "record" /\ tick'[i].at = tick[i].at + 1
               \/ tick'[i].pc = "send" /\ ~(tick[i].at < Len(tick[i].orders))
        BY <1>0, <2>0, <3>2, <3>3, AfterFields DEF Decided
      <3> QED
        BY <2>0, <2>3, <3>1, <3>2, <3>3, <3>4 DEF Records
    <2> QED
      BY <1>10, <2>1, <2>2, <2>3 DEF RecordOrder
  <1>11. ASSUME NEW i \in Instances, SendOrder(i) PROVE Typed /\ (Drops(i) \/ Sends(i))
    <2> DEFINE o == tick[i].orders[tick[i].at]
    <2>0. tick[i].pc = "send" /\ UNCHANGED <<clock, close, feed, ps, rs, records>>
      BY <1>11 DEF SendOrder
    <2>1. CASE GiveUp(i) /\ UNCHANGED sent
      BY <1>6, <2>0, <2>1 DEF GiveUp
    <2>2. CASE /\ sent' = sent \cup {Command(i, tick[i], o)}
               /\ tick' = [tick EXCEPT ![i] = After(tick[i])] /\ UNCHANGED faults
      <3>1. Typed
        BY <1>7, <2>0, <2>2 DEF Decided
      <3>2. tick'[i] = After(tick[i]) /\ Others(i)
        BY <2>0, <2>2, MoveEffect DEF Decided
      <3>3. o \in OrderIDs /\ tick[i].at \in DOMAIN tick[i].orders
        BY <2>0, OrderInHand
      <3>4. \/ tick'[i].pc = "idle"
            \/ /\ tick'[i].pc = "send" /\ SameTick(tick'[i], tick[i])
               /\ tick'[i].at <= Len(tick[i].orders)
        BY <1>0, <2>0, <3>2, AfterFields, NoTickType DEF Decided
      <3> QED
        BY <2>0, <2>2, <3>1, <3>2, <3>3, <3>4 DEF Sends
    <2> QED
      BY <1>11, <2>1, <2>2 DEF SendOrder
  <1> QED
    BY <1>1, <1>2, <1>3, <1>4, <1>5, <1>8, <1>9, <1>10, <1>11 DEF Next, Tick

-----------------------------------------------------------------------------
(* The parts of the invariant *)

\* The numbers the invariant compares.
LEMMA Numbers ==
    ASSUME TypeOK
    PROVE  /\ clock \in Nat /\ feed \in Nat
           /\ \A j \in Instances : /\ tick[j].now \in Nat /\ tick[j].bar \in Nat
                                   /\ tick[j].at \in Nat /\ ps[j] \in Nat
                                   /\ rs[j].macro \in Nat
           /\ \A j \in Instances : \A e \in rs[j].peak : e[1] \in Nat
           /\ \A j \in Instances : \A e \in tick[j].next.peak : e[1] \in Nat
           /\ \A o \in sent : /\ o.by \in Instances /\ o.id[2] \in Times /\ o.id[2] \in Nat
                              /\ o.bar \in Times /\ o.bar \in Nat /\ o.id \in OrderIDs
  <1>1. Times \subseteq Nat /\ (0 .. MaxTime) \subseteq Nat
    BY LiveTickAssumption DEF Times
  <1>2. clock \in Nat /\ feed \in Nat
    BY <1>1 DEF TypeOK
  <1>3. ASSUME NEW j \in Instances
        PROVE  /\ tick[j].now \in Nat /\ tick[j].bar \in Nat /\ tick[j].at \in Nat
               /\ ps[j] \in Nat /\ rs[j].macro \in Nat
               /\ \A e \in rs[j].peak : e[1] \in Nat
               /\ \A e \in tick[j].next.peak : e[1] \in Nat
    <2>1. tick[j] \in TickType /\ rs[j] \in RuntimeType /\ ps[j] \in 0 .. MaxTime
      BY DEF TypeOK
    <2>2. rs[j].macro \in Nat /\ rs[j].peak \subseteq Times \X Navs
      BY <1>1, <2>1 DEF RuntimeType
    <2>3. /\ tick[j].now \in Nat /\ tick[j].bar \in Nat /\ tick[j].at \in Nat
          /\ tick[j].next \in RuntimeType
      BY <1>1, <2>1 DEF TickType
    <2>4. tick[j].next.peak \subseteq Times \X Navs
      BY <2>3 DEF RuntimeType
    <2> QED
      BY <1>1, <2>1, <2>2, <2>3, <2>4
  <1>5. \A o \in sent : o.by \in Instances /\ o.id \in OrderIDs /\ o.bar \in Times
    BY DEF TypeOK, CommandType
  <1>6. \A o \in sent : o.id[2] \in Times
    BY <1>5 DEF OrderIDs
  <1> QED
    BY <1>1, <1>2, <1>3, <1>5, <1>6

\* No instance forgets how far it has written.
LEMMA LimitGrows ==
    ASSUME TypeOK, TypeOK', TickSound, [Next]_vars, NEW j \in Instances
    PROVE  /\ Limit(j) \in Int /\ Limit(j)' \in Int /\ Limit(j) <= Limit(j)'
           /\ clock <= clock' /\ feed <= feed'
  <1>0. /\ clock \in Nat /\ feed \in Nat /\ tick[j].now \in Nat
        /\ clock' \in Nat /\ tick'[j].now \in Nat
    <2>1. clock \in Nat /\ feed \in Nat /\ tick[j].now \in Nat
      BY Numbers
    <2>2. clock' \in Times /\ tick'[j] \in TickType /\ (0 .. MaxTime) \subseteq Nat
      BY NextEffect, LiveTickAssumption
    <2> QED
      BY <2>1, <2>2, LiveTickAssumption DEF TickType, Times
  <1>1. tick[j].pc \in Decided => tick[j].now <= clock
    BY <1>0 DEF TickSound, TickOK
  <1>2. tick[j].pc \in {"idle", "start"} \cup Decided
        /\ tick'[j].pc \in {"idle", "start"} \cup Decided
    BY DEF TypeOK, TickType, Decided
  <1> USE DEF Limit
  <1>3. CASE Waits
    BY <1>0, <1>3 DEF Waits
  <1>4. CASE Passes
    <2>1. clock' = clock + 1 /\ UNCHANGED feed
      BY <1>4 DEF Passes
    <2>2. CASE tick'[j] = tick[j] /\ tick[j].pc # "start"
      BY <1>0, <2>1, <2>2
    <2>3. CASE tick'[j].pc \in {"idle", "start"}
      <3>1. Limit(j)' >= clock
        BY <1>0, <2>1, <2>3
      <3>2. Limit(j) <= clock
        BY <1>0, <1>1, <1>2 DEF Decided
      <3> QED
        BY <1>0, <2>1, <3>1, <3>2
    <2> QED
      BY <1>4, <2>2, <2>3 DEF Passes
  <1>5. ASSUME NEW i \in Instances, Drops(i)
        PROVE  Limit(j) <= Limit(j)' /\ UNCHANGED <<clock, feed>>
    BY <1>0, <1>1, <1>2, <1>5 DEF Drops, Others, Decided
  <1>6. ASSUME NEW i \in Instances, Decides(i)
        PROVE  Limit(j) <= Limit(j)' /\ UNCHANGED <<clock, feed>>
    BY <1>0, <1>6 DEF Decides, Others
  <1>7. ASSUME NEW i \in Instances, Appends(i)
        PROVE  Limit(j) <= Limit(j)' /\ UNCHANGED <<clock, feed>>
    BY <1>0, <1>7 DEF Appends, Others, SameTick
  <1>8. ASSUME NEW i \in Instances, Upserts(i)
        PROVE  Limit(j) <= Limit(j)' /\ UNCHANGED <<clock, feed>>
    BY <1>0, <1>1, <1>8 DEF Upserts, Others, SameTick, Decided
  <1>9. ASSUME NEW i \in Instances, Records(i)
        PROVE  Limit(j) <= Limit(j)' /\ UNCHANGED <<clock, feed>>
    BY <1>0, <1>9 DEF Records, Others, SameTick
  <1>10. ASSUME NEW i \in Instances, Sends(i)
        PROVE  Limit(j) <= Limit(j)' /\ UNCHANGED <<clock, feed>>
    BY <1>0, <1>1, <1>10 DEF Sends, Others, SameTick, Decided
  <1> QED
    BY <1>0, <1>3, <1>4, <1>5, <1>6, <1>7, <1>8, <1>9, <1>10, NextEffect DEF Waits, Passes

\* Only Upserts changes runtime states, only Appends the ledger, only Records and
\* Sends what their names say.
LEMMA TableEffect ==
    ASSUME TypeOK, TickSound, [Next]_vars
    PROVE  /\ UNCHANGED rs \/ \E i \in Instances : Upserts(i)
           /\ UNCHANGED ps \/ \E i \in Instances : Appends(i)
           /\ UNCHANGED records \/ \E i \in Instances : Records(i)
           /\ UNCHANGED sent \/ \E i \in Instances : Sends(i)
  BY NextEffect DEF Waits, Passes, Drops, Decides, Appends, Upserts, Records, Sends

\* A command carries the interval, the bar and the reason of its Tick.
LEMMA CommandFields ==
    ASSUME TypeOK, TickSound, NEW i \in Instances, tick[i].pc = "send",
           NEW o, o = tick[i].orders[tick[i].at]
    PROVE  LET c == Command(i, tick[i], o) IN
           /\ c \in CommandType /\ c.by = i /\ c.id = o /\ c.bar = tick[i].bar
           /\ c.id[2] = tick[i].now /\ c.reason \in {tick[i].reason, "micro"}
  <1>1. o \in OrderIDs /\ o[2] = tick[i].now
    BY OrderInHand
  <1>2. tick[i].bar \in Times /\ tick[i].reason \in {"none", "monthly", "deadline"}
    BY LiveTickAssumption DEF TypeOK, TickType, TickSound, TickOK, Decided, Times
  <1> QED
    BY <1>1, <1>2 DEF Command, CommandType

\* A record keeps its owner.
LEMMA RecordsKept ==
    ASSUME TypeOK, TickSound, [Next]_vars, NEW o \in OrderIDs, records[o] # "none"
    PROVE  records'[o] = records[o]
  <1>1. CASE UNCHANGED records
    BY <1>1
  <1>2. ASSUME NEW i \in Instances, Records(i) PROVE records'[o] = records[o]
    BY <1>2 DEF Records, TypeOK
  <1> QED
    BY <1>1, <1>2, TableEffect

\* Types are kept; the stored peak window is the one the Tick decided on.
LEMMA TypeStep ==
    ASSUME TypeOK, TickSound, [Next]_vars
    PROVE  TypeOK'
  <1>1. ps' \in [Instances -> 0 .. MaxTime]
    <2>1. ASSUME NEW i \in Instances, Appends(i) PROVE ps' \in [Instances -> 0 .. MaxTime]
      <3>1. tick[i].bar \in 0 .. MaxTime
        BY DEF TypeOK, TickType
      <3> QED
        BY <2>1, <3>1 DEF Appends, TypeOK
    <2> QED
      BY <2>1, TableEffect DEF TypeOK
  <1>2. rs' \in [Instances -> RuntimeType] /\ \A j \in Instances : PeakSound(rs'[j].peak)
    <2>1. ASSUME NEW i \in Instances, Upserts(i)
          PROVE  rs' \in [Instances -> RuntimeType] /\ \A j \in Instances : PeakSound(rs'[j].peak)
      <3>1. tick[i].next \in RuntimeType
        BY DEF TypeOK, TickType
      <3>2. PeakSound(tick[i].next.peak)
        BY <2>1 DEF Upserts, TickSound, TickOK, Decided
      <3> QED
        BY <2>1, <3>1, <3>2 DEF Upserts, TypeOK
    <2> QED
      BY <2>1, TableEffect DEF TypeOK
  <1>3. records' \in [OrderIDs -> Instances \cup {"none"}]
    <2>1. ASSUME NEW i \in Instances, Records(i)
          PROVE  records' \in [OrderIDs -> Instances \cup {"none"}]
      BY <2>1 DEF Records, TypeOK
    <2> QED
      BY <2>1, TableEffect DEF TypeOK
  <1>4. sent' \subseteq CommandType
    <2>1. ASSUME NEW i \in Instances, Sends(i) PROVE sent' \subseteq CommandType
      <3>1. Command(i, tick[i], tick[i].orders[tick[i].at]) \in CommandType
        BY <2>1, CommandFields DEF Sends
      <3> QED
        BY <2>1, <3>1 DEF Sends, TypeOK
    <2> QED
      BY <2>1, TableEffect DEF TypeOK
  <1>6. close' \in Closes
    BY NextEffect DEF TypeOK
  <1> QED
    BY <1>1, <1>2, <1>3, <1>4, <1>6, NextEffect DEF TypeOK

\* Nothing is written ahead of its time.
LEMMA PastStep ==
    ASSUME TypeOK, TypeOK', PastSound, TickSound, [Next]_vars
    PROVE  PastSound'
  <1> SUFFICES ASSUME NEW j \in Instances PROVE PastOK(j)'
    BY DEF PastSound
  <1>0. Limit(j) \in Int /\ Limit(j)' \in Int /\ Limit(j) <= Limit(j)'
    BY LimitGrows
  <1>1. PastOK(j)
    BY DEF PastSound
  <1>2. ASSUME NEW e \in rs'[j].peak PROVE e[1] <= Limit(j)'
    <2>1. CASE e \in rs[j].peak
      <3>1. e[1] \in Nat /\ e[1] <= Limit(j)
        BY <1>1, <2>1, Numbers DEF PastOK
      <3> QED
        BY <1>0, <3>1
    <2>2. ASSUME NEW i \in Instances, Upserts(i), e \notin rs[j].peak PROVE e[1] <= Limit(j)'
      <3>1. i = j /\ e \in tick[j].next.peak /\ tick[j].pc = "upsert"
        BY <1>2, <2>2 DEF Upserts, TypeOK
      <3>2. e[1] \in Nat /\ e[1] <= tick[j].now /\ tick[j].now \in Nat
        BY <3>1, Numbers DEF TickSound, TickOK, Decided
      <3>3. Limit(j) = tick[j].now
        BY <3>1 DEF Limit
      <3> QED
        BY <1>0, <3>2, <3>3
    <2> QED
      BY <1>2, <2>1, <2>2, TableEffect
  <1>3. rs'[j].macro <= Limit(j)'
    <2>0. rs[j].macro \in Nat /\ rs[j].macro <= Limit(j)
      BY <1>1, Numbers DEF PastOK
    <2>1. CASE rs'[j] = rs[j]
      BY <1>0, <2>0, <2>1
    <2>2. ASSUME NEW i \in Instances, Upserts(i), rs'[j] # rs[j] PROVE rs'[j].macro <= Limit(j)'
      <3>1. rs'[j] = tick[j].next /\ tick[j].pc = "upsert"
        BY <2>2 DEF Upserts, TypeOK
      <3>2. /\ tick[j].next.macro = IF tick[j].reason = "none" THEN rs[j].macro ELSE tick[j].now
            /\ tick[j].now \in Nat
        BY <3>1, Numbers DEF TickSound, TickOK, Decided
      <3>3. Limit(j) = tick[j].now
        BY <3>1 DEF Limit
      <3> QED
        BY <1>0, <2>0, <3>1, <3>2, <3>3
    <2> QED
      BY <2>1, <2>2, TableEffect
  <1>4. ASSUME NEW o \in sent', o.by = j PROVE o.id[2] <= Limit(j)'
    <2>1. CASE o \in sent
      <3>1. o.id[2] \in Nat /\ o.id[2] <= Limit(j)
        BY <1>1, <1>4, <2>1, Numbers DEF PastOK
      <3> QED
        BY <1>0, <3>1
    <2>2. ASSUME NEW i \in Instances, Sends(i), o \notin sent PROVE o.id[2] <= Limit(j)'
      <3>1. o = Command(i, tick[i], tick[i].orders[tick[i].at]) /\ tick[i].pc = "send"
        BY <1>4, <2>2 DEF Sends
      <3>2. o.by = i /\ o.id[2] = tick[i].now
        BY <3>1, CommandFields
      <3>3. Limit(j) = tick[j].now /\ tick[j].now \in Nat
        BY <1>4, <3>1, <3>2, Numbers DEF Limit
      <3> QED
        BY <1>0, <1>4, <3>2, <3>3
    <2> QED
      BY <2>1, <2>2, TableEffect
  <1> QED
    BY <1>2, <1>3, <1>4 DEF PastOK

\* A Tick that waits, while others write and time passes, stays sound.
LEMMA TickKept ==
    ASSUME TypeOK, TypeOK', TickSound, [Next]_vars, NEW j \in Instances,
           tick'[j] = tick[j], ps'[j] = ps[j], rs'[j] = rs[j]
    PROVE  TickOK(j)'
  <1> SUFFICES ASSUME tick[j].pc \in Decided PROVE TickOK(j)'
    BY DEF TickOK
  <1>1. TickOK(j)
    BY DEF TickSound
  <1>2. clock <= clock' /\ feed <= feed'
    BY LimitGrows
  <1>3. clock \in Nat /\ feed \in Nat /\ tick[j].now \in Nat /\ tick[j].bar \in Nat
    BY Numbers
  <1>4. clock' \in Nat /\ feed' \in Nat
    BY LiveTickAssumption DEF TypeOK, Times
  <1>5. tick[j].now \in 1 .. clock' /\ tick[j].bar <= feed'
    BY <1>1, <1>2, <1>3, <1>4 DEF TickOK
  <1>6. tick[j].pc = "record" => \A k \in 1 .. tick[j].at - 1 : records'[tick[j].orders[k]] = j
    <2> SUFFICES ASSUME tick[j].pc = "record", NEW k \in 1 .. tick[j].at - 1
                 PROVE  records'[tick[j].orders[k]] = j
      OBVIOUS
    <2>1. records[tick[j].orders[k]] = j /\ tick[j].at <= Len(tick[j].orders)
      BY <1>1 DEF TickOK, Decided
    <2>2. tick[j].orders[k] \in OrderIDs
      BY <2>1 DEF TypeOK, TickType
    <2> QED
      BY <2>1, <2>2, RecordsKept, LiveTickAssumption
  <1> QED
    BY <1>1, <1>5, <1>6 DEF TickOK

\* The rolled peak window has one entry per Tick and holds none that is too old.
LEMMA PeakRolled ==
    ASSUME NEW peak \in SUBSET (Times \X Navs), NEW now \in Times, NEW nav \in Navs,
           PeakSound(peak), \A e \in peak : e[1] < now
    PROVE  /\ PeakSound(RollPeakWindow(peak, now, nav))
           /\ \A e \in RollPeakWindow(peak, now, nav) : e[1] <= now
  <1>1. Times \subseteq Nat /\ PeakWindow \in Nat
    BY LiveTickAssumption DEF Times
  <1>2. ASSUME NEW e \in RollPeakWindow(peak, now, nav)
        PROVE  /\ e[1] \in Nat /\ e[1] <= now /\ e[1] >= now - PeakWindow
               /\ e \in peak \/ e = <<now, nav>>
               /\ e \in peak => e[1] < now
    <2>0. now \in Nat /\ PeakWindow \in Nat
      BY <1>1
    <2>1. CASE e \in peak /\ e[1] >= now - PeakWindow
      <3>1. e[1] \in Nat /\ e[1] < now
        BY <1>1, <2>1
      <3> QED
        BY <2>0, <2>1, <3>1
    <2>2. CASE e = <<now, nav>> /\ e \notin peak
      BY <2>0, <2>2
    <2>3. <<now, nav>> \notin peak
      <3>1. ~(now < now)
        BY <2>0
      <3> QED
        BY <3>1
    <2> QED
      BY <1>2, <2>1, <2>2, <2>3 DEF RollPeakWindow
  <1>3. ASSUME NEW e \in RollPeakWindow(peak, now, nav), NEW f \in RollPeakWindow(peak, now, nav)
        PROVE  (e[1] = f[1] => e = f) /\ e[1] - f[1] <= PeakWindow
    <2>0. now \in Nat /\ PeakWindow \in Nat
      BY <1>1
    <2>1. /\ e[1] \in Nat /\ e[1] <= now /\ e[1] >= now - PeakWindow
          /\ f[1] \in Nat /\ f[1] <= now /\ f[1] >= now - PeakWindow
      BY <1>2, <1>3
    <2>2. e[1] - f[1] <= PeakWindow
      BY <2>0, <2>1
    <2>3. e[1] = f[1] => e = f
      <3>1. CASE e \in peak /\ f \in peak
        BY <3>1 DEF PeakSound
      <3>2. CASE e \in peak /\ f = <<now, nav>>
        BY <1>2, <2>0, <2>1, <3>2
      <3>3. CASE f \in peak /\ e = <<now, nav>>
        BY <1>2, <2>0, <2>1, <3>3
      <3> QED
        BY <1>2, <3>1, <3>2, <3>3
    <2> QED
      BY <2>2, <2>3
  <1> QED
    BY <1>2, <1>3 DEF PeakSound

\* The Ticks in flight stay sound.
LEMMA TickStep ==
    ASSUME TypeOK, TypeOK', PastSound, TickSound, BarsAdvance, [Next]_vars
    PROVE  TickSound'
  <1> SUFFICES ASSUME NEW j \in Instances PROVE TickOK(j)'
    BY DEF TickSound
  <1>0. /\ clock \in Nat /\ feed \in Nat /\ tick[j].now \in Nat /\ tick[j].bar \in Nat
        /\ tick[j].at \in Nat /\ ps[j] \in Nat /\ rs[j].macro \in Nat
    BY Numbers
  <1>1. TickOK(j)
    BY DEF TickSound
  <1>2. tick'[j].pc \in {"idle", "start"} => TickOK(j)'
    BY DEF TickOK, Decided
  <1>3. CASE Waits
    BY <1>3, TickKept DEF Waits
  <1>4. CASE Passes
    BY <1>2, <1>4, TickKept DEF Passes
  <1>5. ASSUME NEW i \in Instances, Drops(i) PROVE TickOK(j)'
    BY <1>2, <1>5, TickKept DEF Drops, Others
  <1>6. ASSUME NEW i \in Instances, Decides(i) PROVE TickOK(j)'
    <2>1. CASE i # j
      BY <1>6, <2>1, TickKept DEF Decides, Others
    <2>2. CASE i = j
      <3> DEFINE u == tick'[j]
      <3>1. /\ u.pc = "append" /\ u.now = clock /\ u.bar = feed /\ feed \in Times
            /\ \A k \in DOMAIN u.orders : u.orders[k][2] = u.now
            /\ u.next.macro = IF u.reason = "none" THEN rs[j].macro ELSE clock
            /\ UNCHANGED <<clock, feed, ps, rs>> /\ tick[j].pc = "start"
        BY <1>6, <2>2 DEF Decides
      <3>2. PICK nav \in Navs : u.next.peak = RollPeakWindow(rs[j].peak, clock, nav)
        BY <1>6, <2>2 DEF Decides
      <3>3. feed \in 1 .. clock /\ clock \in 1 .. clock /\ ps[j] <= feed
        BY <1>0, <3>1 DEF BarsAdvance, Times
      <3>4. PeakSound(u.next.peak) /\ \A e \in u.next.peak : e[1] <= clock
        <4>1. \A e \in rs[j].peak : e[1] <= clock - 1
          BY <3>1 DEF PastSound, PastOK, Limit
        <4>2. \A e \in rs[j].peak : e[1] < clock
          BY <1>0, <4>1, Numbers
        <4>3. rs[j].peak \in SUBSET (Times \X Navs) /\ PeakSound(rs[j].peak) /\ clock \in Times
          BY DEF TypeOK, RuntimeType
        <4> QED
          BY <3>2, <4>2, <4>3, PeakRolled
      <3> HIDE DEF u
      <3>5. TickOK(j)'
        BY <3>1, <3>3, <3>4 DEF TickOK, u
      <3> QED
        BY <3>5
    <2> QED
      BY <2>1, <2>2
  <1>7. ASSUME NEW i \in Instances, Appends(i) PROVE TickOK(j)'
    <2>1. CASE i # j
      BY <1>7, <2>1, TickKept DEF Appends, Others
    <2>2. CASE i = j
      <3>1. /\ tick'[j].pc = "upsert" /\ tick[j].pc = "append" /\ SameTick(tick'[j], tick[j])
            /\ ps'[j] = tick[j].bar /\ UNCHANGED <<clock, feed, rs>>
        BY <1>7, <2>2 DEF Appends, TypeOK
      <3> QED
        BY <1>0, <1>1, <3>1 DEF TickOK, SameTick, Decided
    <2> QED
      BY <2>1, <2>2
  <1>8. ASSUME NEW i \in Instances, Upserts(i) PROVE TickOK(j)'
    <2>1. CASE i # j
      BY <1>8, <2>1, TickKept DEF Upserts, Others
    <2>2. CASE i = j /\ tick'[j].pc # "idle"
      <3>1. /\ tick'[j].pc = "record" /\ tick[j].pc = "upsert" /\ SameTick(tick'[j], tick[j])
            /\ tick'[j].at = 1 /\ tick'[j].at <= Len(tick[j].orders)
            /\ UNCHANGED <<clock, feed, ps>> /\ rs'[j] = tick[j].next
        BY <1>8, <2>2 DEF Upserts, TypeOK
      <3> QED
        BY <1>0, <1>1, <3>1 DEF TickOK, SameTick, Decided
    <2> QED
      BY <1>2, <2>1, <2>2
  <1>9. ASSUME NEW i \in Instances, Records(i) PROVE TickOK(j)'
    <2>1. CASE i # j
      BY <1>9, <2>1, TickKept DEF Records, Others
    <2>2. CASE i = j
      <3> DEFINE o == tick[j].orders[tick[j].at]
      <3>1. /\ tick[j].pc = "record" /\ tick'[j].pc \in {"record", "send"}
            /\ tick'[j].pc = "record" => tick'[j].at = tick[j].at + 1
            /\ SameTick(tick'[j], tick[j]) /\ tick'[j].at <= Len(tick[j].orders)
            /\ UNCHANGED <<clock, feed, ps, rs>> /\ o \in OrderIDs
            /\ records' = [records EXCEPT ![o] = j]
        BY <1>9, <2>2 DEF Records
      <3>2. records'[o] = j
        BY <3>1 DEF TypeOK
      <3>3. tick'[j].pc = "record" =>
              \A k \in 1 .. tick'[j].at - 1 : records'[tick[j].orders[k]] = j
        <4> SUFFICES ASSUME tick'[j].pc = "record", NEW k \in 1 .. tick'[j].at - 1
                     PROVE  records'[tick[j].orders[k]] = j
          OBVIOUS
        <4>1. k = tick[j].at \/ k \in 1 .. tick[j].at - 1
          BY <1>0, <3>1
        <4>2. CASE k \in 1 .. tick[j].at - 1
          <5>1. records[tick[j].orders[k]] = j /\ tick[j].at <= Len(tick[j].orders)
            BY <1>1, <3>1, <4>2 DEF TickOK, Decided
          <5>2. tick[j].orders[k] \in OrderIDs
            <6>1. tick[j].orders \in Seq(OrderIDs)
              BY DEF TypeOK, TickType
            <6>2. k \in 1 .. Len(tick[j].orders)
              BY <1>0, <4>2, <5>1, <6>1
            <6> QED
              BY <6>1, <6>2
          <5> QED
            BY <5>1, <5>2, RecordsKept, LiveTickAssumption
        <4> QED
          BY <3>2, <4>1, <4>2
      <3> QED
        BY <1>0, <1>1, <3>1, <3>3 DEF TickOK, SameTick, Decided
    <2> QED
      BY <2>1, <2>2
  <1>10. ASSUME NEW i \in Instances, Sends(i) PROVE TickOK(j)'
    <2>1. CASE i # j
      BY <1>10, <2>1, TickKept DEF Sends, Others
    <2>2. CASE i = j /\ tick'[j].pc # "idle"
      <3>1. /\ tick'[j].pc = "send" /\ tick[j].pc = "send" /\ SameTick(tick'[j], tick[j])
            /\ tick'[j].at <= Len(tick[j].orders) /\ UNCHANGED <<clock, feed, ps, rs>>
        BY <1>10, <2>2 DEF Sends
      <3> QED
        BY <1>0, <1>1, <3>1 DEF TickOK, SameTick, Decided
    <2> QED
      BY <1>2, <2>1, <2>2
  <1> QED
    BY <1>3, <1>4, <1>5, <1>6, <1>7, <1>8, <1>9, <1>10, NextEffect

\* A Tick that has decided did so in this step, or goes on with what it decided before.
LEMMA Carried ==
    ASSUME TypeOK, TickSound, [Next]_vars, NEW j \in Instances, tick'[j].pc \in Decided
    PROVE  \/ Decides(j)
           \/ /\ tick[j].pc \in Decided /\ SameTick(tick'[j], tick[j])
              /\ tick'[j].pc = "send" => tick[j].pc = "send" \/ Records(j)
  <1> DEFINE Same ==
        /\ tick[j].pc \in Decided /\ SameTick(tick'[j], tick[j])
        /\ tick'[j].pc = "send" => tick[j].pc = "send" \/ Records(j)
  <1>1. tick'[j] = tick[j] => Same
    BY DEF SameTick
  <1>2. CASE Waits
    BY <1>1, <1>2 DEF Waits
  <1>3. CASE Passes
    BY <1>1, <1>3 DEF Passes, Decided
  <1>4. ASSUME NEW i \in Instances, Drops(i) PROVE Same
    BY <1>1, <1>4 DEF Drops, Others, Decided
  <1>5. ASSUME NEW i \in Instances, Decides(i) PROVE Same \/ Decides(j)
    <2>1. CASE i # j
      BY <1>1, <1>5, <2>1 DEF Decides, Others
    <2> QED
      BY <1>5, <2>1
  <1>6. ASSUME NEW i \in Instances, Appends(i) PROVE Same
    BY <1>1, <1>6 DEF Appends, Others, Decided
  <1>7. ASSUME NEW i \in Instances, Upserts(i) PROVE Same
    BY <1>1, <1>7 DEF Upserts, Others, Decided
  <1>8. ASSUME NEW i \in Instances, Records(i) PROVE Same
    <2>1. CASE i # j
      BY <1>1, <1>8, <2>1 DEF Records, Others
    <2>2. CASE i = j
      <3>1. Records(j) /\ tick[j].pc = "record" /\ SameTick(tick'[j], tick[j])
        BY <1>8, <2>2 DEF Records
      <3> QED
        BY <3>1 DEF Decided
    <2> QED
      BY <2>1, <2>2
  <1>9. ASSUME NEW i \in Instances, Sends(i) PROVE Same
    BY <1>1, <1>9 DEF Sends, Others, Decided
  <1> QED
    BY <1>2, <1>3, <1>4, <1>5, <1>6, <1>7, <1>8, <1>9, NextEffect

\* A macro buy that was sent is stamped, and stamps only grow.
LEMMA StampStep ==
    ASSUME TypeOK, PastSound, TickSound, StampSound, [Next]_vars
    PROVE  StampSound'
  <1> SUFFICES ASSUME NEW o \in sent', Macro(o) PROVE o.id[2] <= rs'[o.by].macro
    BY DEF StampSound
  <1>1. ASSUME NEW j \in Instances
        PROVE  /\ rs[j].macro \in Nat /\ rs'[j].macro \in Nat
               /\ rs[j].macro <= rs'[j].macro
    <2>0. rs[j].macro \in Nat /\ tick[j].now \in Nat
      BY Numbers
    <2>1. CASE rs'[j] = rs[j]
      BY <2>0, <2>1
    <2>2. ASSUME NEW i \in Instances, Upserts(i), rs'[j] # rs[j]
          PROVE  rs'[j].macro \in Nat /\ rs[j].macro <= rs'[j].macro
      <3>1. rs'[j] = tick[j].next /\ tick[j].pc = "upsert"
        BY <2>2 DEF Upserts, TypeOK
      <3>2. tick[j].next.macro = IF tick[j].reason = "none" THEN rs[j].macro ELSE tick[j].now
        BY <3>1 DEF TickSound, TickOK, Decided
      <3>3. rs[j].macro <= tick[j].now
        BY <3>1 DEF PastSound, PastOK, Limit
      <3> QED
        BY <2>0, <3>1, <3>2, <3>3
    <2> QED
      BY <2>0, <2>1, <2>2, TableEffect
  <1>2. CASE o \in sent
    <2>1. o.by \in Instances /\ o.id[2] \in Nat /\ o.id[2] <= rs[o.by].macro
      BY <1>2, Numbers DEF StampSound
    <2> QED
      BY <1>1, <2>1
  <1>3. ASSUME NEW i \in Instances, Sends(i), o \notin sent PROVE o.id[2] <= rs'[o.by].macro
    <2>1. /\ o = Command(i, tick[i], tick[i].orders[tick[i].at]) /\ tick[i].pc = "send"
          /\ UNCHANGED rs
      BY <1>3 DEF Sends
    <2>2. o.by = i /\ o.id[2] = tick[i].now /\ o.reason \in {tick[i].reason, "micro"}
      BY <2>1, CommandFields
    <2>3. tick[i].reason # "none"
      BY <2>2 DEF Macro
    <2>4. rs[i].macro = tick[i].now /\ tick[i].now \in Nat
      BY <2>1, <2>3, Numbers DEF TickSound, TickOK, Decided
    <2> QED
      BY <2>1, <2>2, <2>4
  <1> QED
    BY <1>2, <1>3, TableEffect

\* A deadline buy in flight: the macro buys sent before are that far back.
LEMMA DeadlineStep ==
    ASSUME TypeOK, TickSound, StampSound, DeadlineSound, [Next]_vars
    PROVE  DeadlineSound'
  <1> SUFFICES ASSUME NEW j \in Instances, tick'[j].pc \in Decided, tick'[j].reason = "deadline",
                      NEW o \in sent', o.by = j, Macro(o), o.id[2] < tick'[j].now
               PROVE  tick'[j].now - o.id[2] >= Deadline
    BY DEF DeadlineSound, DeadlineOK
  <1>0. clock \in Nat /\ tick[j].now \in Nat /\ rs[j].macro \in Nat /\ Deadline \in Nat
    BY Numbers, LiveTickAssumption
  <1>1. CASE Decides(j)
    <2>1. /\ o \in sent /\ tick'[j].now = clock
          /\ rs[j].macro = 0 \/ clock - rs[j].macro >= Deadline
      BY <1>1 DEF Decides
    <2>2. o.id[2] <= rs[j].macro /\ o.id[2] \in Nat /\ o.id[2] > 0
      BY <2>1, Numbers DEF StampSound, Times
    <2> QED
      BY <1>0, <2>1, <2>2
  <1>2. CASE /\ tick[j].pc \in Decided /\ tick'[j].now = tick[j].now
             /\ tick'[j].reason = tick[j].reason
    <2>1. CASE o \in sent
      BY <1>2, <2>1 DEF DeadlineSound, DeadlineOK
    <2>2. ASSUME NEW i \in Instances, Sends(i), o \notin sent PROVE FALSE
      <3>1. o = Command(i, tick[i], tick[i].orders[tick[i].at]) /\ tick[i].pc = "send"
        BY <2>2 DEF Sends
      <3>2. o.by = i /\ o.id[2] = tick[i].now
        BY <3>1, CommandFields
      <3> QED
        BY <1>0, <1>2, <3>2
    <2> QED
      BY <2>1, <2>2, TableEffect
  <1>3. Decides(j) \/ (/\ tick[j].pc \in Decided /\ tick'[j].now = tick[j].now
                       /\ tick'[j].reason = tick[j].reason)
    BY Carried DEF SameTick
  <1> QED
    BY <1>1, <1>2, <1>3

\* Bars only advance.
LEMMA BarsStep ==
    ASSUME TypeOK, TypeOK', TickSound, BarsAdvance, [Next]_vars
    PROVE  BarsAdvance'
  <1>0. clock \in Nat /\ feed \in Nat /\ \A j \in Instances : ps[j] \in Nat /\ tick[j].bar \in Nat
    BY Numbers
  <1>1. clock' \in Nat /\ feed' \in Nat /\ \A j \in Instances : ps'[j] \in Nat
    BY LiveTickAssumption DEF TypeOK, Times
  <1>2. clock <= clock' /\ feed <= feed'
    <2>1. CASE Instances = {}
      BY <1>0, <2>1, NextEffect DEF Waits, Passes
    <2> QED
      BY <2>1, LimitGrows
  <1>3. feed' <= clock'
    <2>1. feed' <= clock \/ feed' = feed
      BY NextEffect DEF Waits, Passes, Drops, Decides, Appends, Upserts, Records, Sends
    <2> QED
      BY <1>0, <1>1, <1>2, <2>1 DEF BarsAdvance
  <1>4. ASSUME NEW j \in Instances PROVE ps[j] <= ps'[j] /\ ps'[j] <= feed'
    <2>1. CASE UNCHANGED ps
      BY <1>0, <1>1, <1>2, <2>1 DEF BarsAdvance
    <2>2. ASSUME NEW i \in Instances, Appends(i) PROVE ps[j] <= ps'[j] /\ ps'[j] <= feed'
      <3>1. UNCHANGED feed /\ tick[i].pc = "append" /\ ps' = [ps EXCEPT ![i] = tick[i].bar]
        BY <2>2 DEF Appends
      <3>2. ps[i] <= tick[i].bar /\ tick[i].bar <= feed
        BY <3>1 DEF TickSound, TickOK, Decided
      <3> QED
        BY <1>0, <3>1, <3>2 DEF BarsAdvance, TypeOK
    <2> QED
      BY <2>1, <2>2, TableEffect
  <1>5. ASSUME NEW o \in sent' PROVE o.bar <= ps'[o.by] /\ o.bar <= o.id[2]
    <2>1. CASE o \in sent
      <3>1. o.by \in Instances /\ o.bar \in Nat /\ o.bar <= ps[o.by] /\ o.bar <= o.id[2]
        BY <2>1, Numbers DEF BarsAdvance
      <3> QED
        BY <1>0, <1>1, <1>4, <3>1
    <2>2. ASSUME NEW i \in Instances, Sends(i), o \notin sent
          PROVE  o.bar <= ps'[o.by] /\ o.bar <= o.id[2]
      <3>1. /\ o = Command(i, tick[i], tick[i].orders[tick[i].at]) /\ tick[i].pc = "send"
            /\ UNCHANGED ps
        BY <1>5, <2>2 DEF Sends
      <3>2. o.by = i /\ o.id[2] = tick[i].now /\ o.bar = tick[i].bar
        BY <3>1, CommandFields
      <3>3. tick[i].bar <= ps[i] /\ tick[i].bar <= tick[i].now
        BY <3>1, Numbers DEF TickSound, TickOK, Decided
      <3> QED
        BY <3>1, <3>2, <3>3
    <2> QED
      BY <2>1, <2>2, TableEffect
  <1> QED
    BY <1>3, <1>4, <1>5 DEF BarsAdvance

\* A monthly buy in flight: the earlier ones of its month were decided on older bars.
LEMMA MonthStep ==
    ASSUME TypeOK, TickSound, BarsAdvance, MonthSound, [Next]_vars
    PROVE  MonthSound'
  <1> SUFFICES ASSUME NEW j \in Instances, tick'[j].pc \in Decided, tick'[j].reason = "monthly",
                      NEW o \in sent', o.by = j, o.reason = "monthly", o.id[2] < tick'[j].now,
                      MonthOf[o.id[2]] = MonthOf[tick'[j].now]
               PROVE  MonthOf[o.bar] # MonthOf[o.id[2]]
    BY DEF MonthSound, MonthOK
  <1>0. clock \in Nat /\ feed \in Nat /\ tick[j].now \in Nat /\ ps[j] \in Nat
    BY Numbers
  <1>1. CASE Decides(j)
    <2>1. o \in sent /\ tick'[j].now = clock /\ ps[j] > 0 /\ MonthOf[clock] # MonthOf[ps[j]]
      BY <1>1 DEF Decides
    <2>2. o.bar \in Times /\ o.bar \in Nat /\ o.bar <= ps[j] /\ ps[j] <= clock
      BY <1>0, <2>1, Numbers DEF BarsAdvance
    <2>3. clock \in Times /\ ps[j] \in Times
      BY <1>0, <2>1 DEF TypeOK, Times
    <2>4. MonthOf[o.bar] <= MonthOf[ps[j]] /\ MonthOf[ps[j]] <= MonthOf[clock]
      <3>1. \A s, t \in Times : s <= t => MonthOf[s] <= MonthOf[t]
        <4> SUFFICES ASSUME NEW s \in Times, NEW t \in Times, s <= t PROVE MonthOf[s] <= MonthOf[t]
          OBVIOUS
        <4>1. s \in Nat /\ t \in Nat /\ MonthOf[s] \in Nat
          BY LiveTickAssumption DEF Times
        <4>2. s = t \/ s < t
          BY <4>1
        <4> QED
          BY <4>1, <4>2, LiveTickAssumption
      <3> QED
        BY <2>2, <2>3, <3>1
    <2>5. MonthOf[o.bar] \in Nat /\ MonthOf[ps[j]] \in Nat /\ MonthOf[clock] \in Nat
      BY <2>2, <2>3, LiveTickAssumption
    <2>6. MonthOf[o.bar] # MonthOf[clock]
      BY <2>1, <2>4, <2>5
    <2> QED
      BY <2>1, <2>6
  <1>2. CASE /\ tick[j].pc \in Decided /\ tick'[j].now = tick[j].now
             /\ tick'[j].reason = tick[j].reason
    <2>1. CASE o \in sent
      BY <1>2, <2>1 DEF MonthSound, MonthOK
    <2>2. ASSUME NEW i \in Instances, Sends(i), o \notin sent PROVE FALSE
      <3>1. o = Command(i, tick[i], tick[i].orders[tick[i].at]) /\ tick[i].pc = "send"
        BY <2>2 DEF Sends
      <3>2. o.by = i /\ o.id[2] = tick[i].now
        BY <3>1, CommandFields
      <3> QED
        BY <1>0, <1>2, <3>2
    <2> QED
      BY <2>1, <2>2, TableEffect
  <1>3. Decides(j) \/ (/\ tick[j].pc \in Decided /\ tick'[j].now = tick[j].now
                       /\ tick'[j].reason = tick[j].reason)
    BY Carried DEF SameTick
  <1> QED
    BY <1>1, <1>2, <1>3

\* The distance of deadline buys.
LEMMA SpacedStep ==
    ASSUME TypeOK, PastSound, TickSound, DeadlineSound, DeadlineSpaced, [Next]_vars
    PROVE  DeadlineSpaced'
  <1> SUFFICES ASSUME NEW o \in sent', NEW p \in sent', o.by = p.by, Macro(o),
                      p.reason = "deadline", o.id[2] < p.id[2]
               PROVE  p.id[2] - o.id[2] >= Deadline
    BY DEF DeadlineSpaced
  <1>1. CASE o \in sent /\ p \in sent
    BY <1>1 DEF DeadlineSpaced
  <1>2. ASSUME NEW i \in Instances, Sends(i), ~(o \in sent /\ p \in sent)
        PROVE  p.id[2] - o.id[2] >= Deadline
    <2> DEFINE c == Command(i, tick[i], tick[i].orders[tick[i].at])
    <2>1. tick[i].pc = "send" /\ sent' = sent \cup {c}
      BY <1>2 DEF Sends
    <2>2. c.by = i /\ c.id[2] = tick[i].now /\ c.reason \in {tick[i].reason, "micro"}
      BY <2>1, CommandFields
    <2> HIDE DEF c
    <2>3. \A q \in sent : q.by = i => q.id[2] <= tick[i].now
      BY <2>1 DEF PastSound, PastOK, Limit
    <2>4. tick[i].now \in Nat /\ \A q \in sent : q.id[2] \in Nat
      BY Numbers
    <2>5. o \in sent /\ p = c
      <3>1. o # c
        <4>1. CASE o = c /\ p = c
          BY <2>2, <2>4, <4>1
        <4>2. CASE o = c /\ p \in sent
          BY <2>2, <2>3, <2>4, <4>2
        <4> QED
          BY <2>1, <4>1, <4>2
      <3> QED
        BY <1>2, <2>1, <3>1
    <2>6. tick[i].pc \in Decided /\ tick[i].reason = "deadline"
      BY <2>1, <2>2, <2>5 DEF Decided
    <2> QED
      BY <2>2, <2>5, <2>6 DEF DeadlineSound, DeadlineOK
  <1> QED
    BY <1>1, <1>2, TableEffect

\* The monthly buy.
LEMMA RepeatStep ==
    ASSUME TypeOK, PastSound, TickSound, MonthSound, RepeatedOnlyBehind, [Next]_vars
    PROVE  RepeatedOnlyBehind'
  <1> SUFFICES ASSUME NEW o \in sent', NEW p \in sent', Monthly(o, p)
               PROVE  MonthOf[o.bar] # MonthOf[o.id[2]]
    BY DEF RepeatedOnlyBehind, Monthly
  <1>0. /\ o.by = p.by /\ o.reason = "monthly" /\ p.reason = "monthly"
        /\ o.id[2] < p.id[2] /\ MonthOf[o.id[2]] = MonthOf[p.id[2]]
    BY DEF Monthly
  <1>1. CASE o \in sent /\ p \in sent
    BY <1>1 DEF RepeatedOnlyBehind
  <1>2. ASSUME NEW i \in Instances, Sends(i), ~(o \in sent /\ p \in sent)
        PROVE  MonthOf[o.bar] # MonthOf[o.id[2]]
    <2> DEFINE c == Command(i, tick[i], tick[i].orders[tick[i].at])
    <2>1. tick[i].pc = "send" /\ sent' = sent \cup {c}
      BY <1>2 DEF Sends
    <2>2. c.by = i /\ c.id[2] = tick[i].now /\ c.reason \in {tick[i].reason, "micro"}
      BY <2>1, CommandFields
    <2> HIDE DEF c
    <2>3. \A q \in sent : q.by = i => q.id[2] <= tick[i].now
      BY <2>1 DEF PastSound, PastOK, Limit
    <2>4. tick[i].now \in Nat /\ \A q \in sent : q.id[2] \in Nat
      BY Numbers
    <2>5. o \in sent /\ p = c
      <3>1. o # c
        <4>1. CASE o = c /\ p = c
          BY <1>0, <2>2, <2>4, <4>1
        <4>2. CASE o = c /\ p \in sent
          BY <1>0, <2>2, <2>3, <2>4, <4>2
        <4> QED
          BY <2>1, <4>1, <4>2
      <3> QED
        BY <1>2, <2>1, <3>1
    <2>6. tick[i].pc \in Decided /\ tick[i].reason = "monthly"
      BY <1>0, <2>1, <2>2, <2>5 DEF Decided
    <2> QED
      BY <1>0, <2>2, <2>5, <2>6 DEF MonthSound, MonthOK
  <1> QED
    BY <1>1, <1>2, TableEffect

\* Recording before sending.
LEMMA RecordedStep ==
    ASSUME TypeOK, TickSound, SentIsRecorded, [Next]_vars
    PROVE  SentIsRecorded'
  <1>1. ASSUME NEW o \in sent' PROVE records'[o.id] = o.by
    <2>1. CASE o \in sent
      <3>1. o.id \in OrderIDs /\ records[o.id] = o.by /\ o.by \in Instances
        BY <2>1, Numbers DEF SentIsRecorded
      <3> QED
        BY <3>1, RecordsKept, LiveTickAssumption
    <2>2. ASSUME NEW i \in Instances, Sends(i), o \notin sent PROVE records'[o.id] = o.by
      <3> DEFINE q == tick[i].orders[tick[i].at]
      <3>1. /\ o = Command(i, tick[i], q) /\ tick[i].pc = "send" /\ UNCHANGED records
            /\ tick[i].at \in DOMAIN tick[i].orders
        BY <1>1, <2>2 DEF Sends
      <3>2. o.id = q /\ o.by = i
        BY <3>1, CommandFields
      <3>3. records[q] = i
        BY <3>1 DEF SentIsRecorded
      <3> QED
        BY <3>1, <3>2, <3>3
    <2> QED
      BY <2>1, <2>2, TableEffect
  <1>2. ASSUME NEW j \in Instances, tick'[j].pc = "send", NEW k \in DOMAIN tick'[j].orders
        PROVE  records'[tick'[j].orders[k]] = j
    <2>1. CASE tick[j].pc = "send" /\ tick'[j].orders = tick[j].orders
      <3>1. records[tick[j].orders[k]] = j
        BY <1>2, <2>1 DEF SentIsRecorded
      <3>2. tick[j].orders[k] \in OrderIDs
        BY <1>2, <2>1 DEF TypeOK, TickType
      <3> QED
        BY <2>1, <3>1, <3>2, RecordsKept, LiveTickAssumption
    <2>2. CASE Records(j)
      <3> DEFINE q == tick[j].orders[tick[j].at]
      <3>1. /\ tick[j].pc = "record" /\ tick'[j].orders = tick[j].orders /\ q \in OrderIDs
            /\ ~(tick[j].at < Len(tick[j].orders))
            /\ records' = [records EXCEPT ![q] = j]
        BY <1>2, <2>2 DEF Records, SameTick
      <3>2. records'[q] = j
        BY <3>1 DEF TypeOK
      <3>3. tick[j].at \in Nat \ {0} /\ tick[j].orders \in Seq(OrderIDs)
        BY DEF TypeOK, TickType
      <3>4. /\ tick[j].at <= Len(tick[j].orders)
            /\ \A n \in 1 .. tick[j].at - 1 : records[tick[j].orders[n]] = j
        BY <3>1 DEF TickSound, TickOK, Decided
      <3>5. k = tick[j].at \/ k \in 1 .. tick[j].at - 1
        BY <1>2, <3>1, <3>3, <3>4
      <3>6. tick[j].orders[k] \in OrderIDs
        BY <1>2, <3>1, <3>3
      <3> QED
        BY <3>1, <3>2, <3>4, <3>5, <3>6, RecordsKept, LiveTickAssumption
    <2>3. Records(j) \/ (tick[j].pc = "send" /\ tick'[j].orders = tick[j].orders)
      <3>1. tick'[j].pc \in Decided
        BY <1>2 DEF Decided
      <3> QED
        BY <1>2, <3>1, Carried DEF Decides, SameTick
    <2> QED
      BY <2>1, <2>2, <2>3
  <1> QED
    BY <1>1, <1>2 DEF SentIsRecorded
-----------------------------------------------------------------------------
(* The inductive invariant *)

\* It holds when the process starts.
LEMMA InitInv ==
    Init => IInv
  <1> SUFFICES ASSUME Init PROVE IInv
    OBVIOUS
  <1>0. /\ clock = 1 /\ close \in Closes /\ feed = 0 /\ sent = {}
        /\ faults = 0 /\ ps = [i \in Instances |-> 0]
        /\ rs = [i \in Instances |-> FreshRuntime]
        /\ tick = [i \in Instances |-> Fire(i, 1, NoTick)]
        /\ records = [o \in OrderIDs |-> "none"]
    BY DEF Init
  <1>1. FreshRuntime \in RuntimeType /\ FreshRuntime.peak = {} /\ FreshRuntime.macro = 0
    BY LiveTickAssumption DEF FreshRuntime, RuntimeType
  <1>2. \A i \in Instances : /\ rs[i] \in RuntimeType /\ rs[i].peak = {} /\ rs[i].macro = 0
                             /\ ps[i] = 0
    BY <1>0, <1>1
  <1>3. \A i \in Instances : /\ tick[i] \in TickType /\ tick[i].pc \in {"idle", "start"}
                             /\ tick[i].at <= Len(tick[i].orders) + 1
    BY <1>0, NoTickType, FireType
  <1>4. clock \in Times
    BY <1>0, LiveTickAssumption DEF Times
  <1>5. TypeOK
    BY <1>0, <1>2, <1>3, <1>4, LiveTickAssumption DEF TypeOK, PeakSound
  <1>6. PastSound /\ TickSound /\ StampSound /\ DeadlineSound /\ BarsAdvance /\ MonthSound
    BY <1>0, <1>2, <1>3 DEF PastSound, PastOK, Limit, TickSound, TickOK, StampSound,
                            DeadlineSound, DeadlineOK, BarsAdvance, MonthSound, MonthOK, Decided
  <1>7. DeadlineSpaced /\ RepeatedOnlyBehind /\ SentIsRecorded
    BY <1>0, <1>3 DEF DeadlineSpaced, RepeatedOnlyBehind, SentIsRecorded
  <1> QED
    BY <1>5, <1>6, <1>7 DEF IInv

\* Every step keeps it.
LEMMA Inductive ==
    IInv /\ [Next]_vars => IInv'
  <1> SUFFICES ASSUME IInv, [Next]_vars PROVE IInv'
    OBVIOUS
  <1> USE DEF IInv
  <1>1. TypeOK'
    BY TypeStep
  <1>2. PastSound' /\ TickSound' /\ BarsAdvance'
    BY <1>1, PastStep, TickStep, BarsStep
  <1>3. StampSound' /\ DeadlineSound' /\ MonthSound'
    BY StampStep, DeadlineStep, MonthStep
  <1>4. DeadlineSpaced' /\ RepeatedOnlyBehind' /\ SentIsRecorded'
    BY SpacedStep, RepeatStep, RecordedStep
  <1> QED
    BY <1>1, <1>2, <1>3, <1>4

\* The invariant holds throughout.
LEMMA Invariance ==
    Spec => []IInv
  BY InitInv, Inductive, PTL DEF Spec

\* Types, and the window of NAV peaks kept in the runtime state: one entry per Tick, none
\* further apart than the window (rollNAVPeakWindow), whatever the price path.
THEOREM Typing == Spec => []TypeOK
  <1>1. IInv => TypeOK
    BY DEF IInv
  <1> QED
    BY Invariance, <1>1, PTL

\* A deadline buy is sent only a deadline after the last macro buy that was sent: no failed
\* write, failed send or crash loses the stamp of a sent buy (Manager.Tick,
\* applyMacroDecision).
THEOREM DeadlineDistance == Spec => []DeadlineSpaced
  <1>1. IInv => DeadlineSpaced
    BY DEF IInv
  <1> QED
    BY Invariance, <1>1, PTL

\* A second monthly buy in a month follows only one that was decided on bars of the month
\* before: no failed write, failed send or crash repeats it (EvaluateMacroEngine).
THEOREM MonthlyRepeat == Spec => []RepeatedOnlyBehind
  <1>1. IInv => RepeatedOnlyBehind
    BY DEF IInv
  <1> QED
    BY Invariance, <1>1, PTL

\* Every order of a Tick is recorded for its instance before the first is sent, and no
\* command is sent under an id whose record is of another instance (recordingDispatcher).
THEOREM Recorded == Spec => []SentIsRecorded
  <1>1. IInv => SentIsRecorded
    BY DEF IInv
  <1> QED
    BY Invariance, <1>1, PTL
=============================================================================
