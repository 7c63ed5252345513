-------------------------- MODULE InvestmentProofs --------------------------
(***************************************************************************)
(* Theorems about the plans and the positions: that a confirmed execution  *)
(* has its buy and that every other buy is accounted for, for any plans,   *)
(* schedules, days and request threads; and that the lots of a FIFO        *)
(* account and the replay of its rows stay with its position, for any      *)
(* trades, clients and bounds.                                             *)
(***************************************************************************)
EXTENDS Dca, Positions, SumsProofs, FiniteSetTheorems, SequenceTheorems

-----------------------------------------------------------------------------
(* The plans *)

PlanRow == [status : {"none", "deleted"}]
           \cup [status : {"active", "paused", "completed"}, sched : Schedules]
ExecRow == [status : {"none", "pending", "confirmed", "skipped"}, tx : Nat]
Read    == Plans \X Days \X {"pending"}

DcaTypes ==
    /\ day \in Days
    /\ plan \in [Plans -> PlanRow]
    /\ exec \in [Executions -> ExecRow]
    /\ \E n \in Nat : trade \in [1 .. n -> Executions \cup {Nothing}]
    /\ confirming \in [Confirmers -> {Nothing} \cup Read]
    /\ due \subseteq Plans

(* What an execution names was bought for it; one that is confirmed names     *)
(* something, one that is pending or not there does not.                      *)
Named(e) ==
    /\ exec[e].tx # NoTrade => exec[e].tx \in Buys(e)
    /\ exec[e].status = "confirmed" => exec[e].tx # NoTrade
    /\ exec[e].status \in {"none", "pending"} => exec[e].tx = NoTrade

(* A buy the execution does not name comes of a race or a failed mark; where  *)
(* the execution is gone, of a plan that was deleted and never comes back.    *)
Accounted(e) ==
    \/ e \in raced \cup unmarked
    \/ exec[e].status = "none" /\ plan[e[1]].status = "deleted"
    \/ Buys(e) \subseteq {exec[e].tx}

DcaInv == DcaTypes /\ \A e \in Executions : Named(e) /\ Accounted(e)

-----------------------------------------------------------------------------
LEMMA Pairs == \A e \in Executions : e # Nothing /\ e[1] \in Plans /\ e[2] \in Days
                                       /\ e = <<e[1], e[2]>>
  BY DEF Executions, Nothing

LEMMA Sizes == ASSUME DcaTypes PROVE NextTrade \in Nat \ {0} /\ DOMAIN trade = 1 .. NextTrade - 1
  <1>1. PICK n \in Nat : trade \in [1 .. n -> Executions \cup {Nothing}]
    BY DEF DcaTypes
  <1>2. DOMAIN trade = 1 .. n /\ Cardinality(1 .. n) = n
    BY <1>1, FS_Interval
  <1> QED BY <1>2 DEF NextTrade

LEMMA DcaStart == DcaInit => DcaInv
  <1> SUFFICES ASSUME DcaInit PROVE DcaInv
    OBVIOUS
  <1>1. trade \in [1 .. 0 -> Executions \cup {Nothing}] /\ DOMAIN trade = {}
    BY DEF DcaInit
  <1>2. DcaTypes
    BY <1>1, DcaAssumption DEF DcaInit, DcaTypes, PlanRow, ExecRow, NoRow, NoTrade, Days
  <1>3. ASSUME NEW e \in Executions PROVE Named(e) /\ Accounted(e)
    BY <1>1 DEF DcaInit, Named, Accounted, Buys, NoRow, NoTrade
  <1> QED BY <1>2, <1>3 DEF DcaInv

(* Steps that leave executions and buys alone and revive no deleted plan.     *)
LEMMA BooksKept ==
  ASSUME DcaInv, DcaTypes', exec' = exec, trade' = trade,
         raced' = raced, unmarked' = unmarked,
         \A p \in Plans : plan[p].status = "deleted" => plan'[p].status = "deleted"
  PROVE  DcaInv'
  <1>1. ASSUME NEW e \in Executions PROVE Named(e)' /\ Accounted(e)'
    BY Pairs DEF DcaInv, Named, Accounted, Buys
  <1> QED BY <1>1 DEF DcaInv

LEMMA PlansKeep ==
  ASSUME DcaInv, NEW p \in Plans, NEW s \in Schedules,
         CreatePlan(p, s) \/ UpdatePlan(p, s)
  PROVE  DcaInv'
  <1>1. DcaTypes'
    BY DEF CreatePlan, UpdatePlan, Exists, DcaInv, DcaTypes, PlanRow
  <1>2. \A q \in Plans : plan[q].status = "deleted" => plan'[q].status = "deleted"
    BY DEF CreatePlan, UpdatePlan, Exists, DcaInv, DcaTypes, PlanRow
  <1> QED BY <1>1, <1>2, BooksKept DEF CreatePlan, UpdatePlan

LEMMA StatusKeeps ==
  ASSUME DcaInv, NEW p \in Plans, NEW st \in {"active", "paused", "completed"},
         SetPlanStatus(p, st)
  PROVE  DcaInv'
  <1>1. DcaTypes'
    BY DEF SetPlanStatus, Exists, DcaInv, DcaTypes, PlanRow
  <1>2. \A q \in Plans : plan[q].status = "deleted" => plan'[q].status = "deleted"
    BY DEF SetPlanStatus, Exists, DcaInv, DcaTypes, PlanRow
  <1> QED BY <1>1, <1>2, BooksKept DEF SetPlanStatus

LEMMA DeletePlanKeeps ==
  ASSUME DcaInv, NEW p \in Plans, DeletePlan(p)
  PROVE  DcaInv'
  <1>1. DcaTypes'
    BY DEF DeletePlan, DcaInv, DcaTypes, PlanRow, ExecRow, NoRow, NoTrade
  <1>2. ASSUME NEW e \in Executions PROVE Named(e)' /\ Accounted(e)'
    <2>1. CASE e[1] = p
      BY <2>1 DEF DeletePlan, DcaInv, DcaTypes, Named, Accounted, NoRow, NoTrade
    <2>2. CASE e[1] # p
      BY <2>2, Pairs DEF DeletePlan, DcaInv, DcaTypes, Named, Accounted, Buys
    <2> QED BY <2>1, <2>2
  <1> QED BY <1>1, <1>2 DEF DcaInv

LEMMA GenerateKeeps ==
  ASSUME DcaInv, NEW p \in Plans, Generate(p)
  PROVE  DcaInv'
  <1> DEFINE g == <<p, day>>
  <1>1. g \in Executions /\ g[1] = p
    BY DEF DcaInv, DcaTypes, Executions
  <1>2. DcaTypes'
    BY <1>1 DEF Generate, DcaInv, DcaTypes, ExecRow
  <1>3. ASSUME NEW e \in Executions PROVE Named(e)' /\ Accounted(e)'
    <2>1. CASE e = g /\ Exists(p) /\ exec[g].status = "none"
      <3>1. exec'[e].status = "pending" /\ exec'[e].tx = exec[e].tx
        BY <1>1, <2>1 DEF Generate, DcaInv, DcaTypes, ExecRow
      <3>2. Buys(e)' = Buys(e)
        BY DEF Generate, Buys
      <3>3. plan[e[1]].status # "deleted"
        BY <1>1, <2>1 DEF Exists
      <3>4. Named(e) /\ Accounted(e)
        BY DEF DcaInv
      <3>5. Named(e)'
        BY <2>1, <3>1, <3>2, <3>4 DEF Named
      <3>6. Accounted(e)'
        BY <3>1, <3>2, <3>3, <3>4 DEF Accounted, Generate
      <3> QED BY <3>5, <3>6
    <2>2. CASE ~(e = g /\ Exists(p) /\ exec[g].status = "none")
      <3>1. exec'[e] = exec[e]
        BY <1>1, <2>2 DEF Generate, DcaInv, DcaTypes
      <3> QED BY <3>1 DEF Generate, DcaInv, Named, Accounted, Buys
    <2> QED BY <2>1, <2>2
  <1> QED BY <1>2, <1>3 DEF DcaInv

LEMMA SchedulerKeeps == ASSUME DcaInv, ListPlans \/ NextDay PROVE DcaInv'
  <1>1. DcaTypes'
    BY DcaAssumption DEF ListPlans, NextDay, DcaInv, DcaTypes, Days
  <1> QED BY <1>1, BooksKept DEF ListPlans, NextDay

LEMMA ReadingKeeps ==
  ASSUME DcaInv, NEW t \in Confirmers, NEW e \in Executions, ReadPending(t, e)
  PROVE  DcaInv'
  <1>1. <<e[1], e[2], exec[e].status>> \in Read
    BY Pairs DEF ReadPending, Read
  <1>2. DcaTypes'
    BY <1>1 DEF ReadPending, DcaInv, DcaTypes
  <1> QED BY <1>2, BooksKept DEF ReadPending

LEMMA FailureKeeps ==
  ASSUME DcaInv, NEW t \in Confirmers, ConfirmFails(t)
  PROVE  DcaInv'
  <1>1. DcaTypes'
    BY DEF ConfirmFails, DcaInv, DcaTypes
  <1> QED BY <1>1, BooksKept DEF ConfirmFails

(* A buy is new: it is added to those of its execution, and to no other's.    *)
LEMMA BuyKeeps ==
  ASSUME DcaInv, NEW t \in Confirmers, BuyAndMark(t)
  PROVE  DcaInv'
  <1> PICK e : e = <<confirming[t][1], confirming[t][2]>>
    OBVIOUS
  <1> PICK x : x = NextTrade
    OBVIOUS
  <1>1. e \in Executions /\ confirming[t][3] = "pending"
    BY DEF BuyAndMark, DcaInv, DcaTypes, Read, Executions
  <1>2. x \in Nat \ {0} /\ DOMAIN trade = 1 .. x - 1
    BY Sizes DEF DcaInv
  <1>3. /\ trade' = [i \in 1 .. x |-> IF i = x THEN e ELSE trade[i]]
        /\ exec[e].status # "pending" => e \in raced'
        /\ raced \subseteq raced' /\ unmarked \subseteq unmarked'
        /\ \/ exec[e].status # "none" /\ exec' = Marked(e, x)
           \/ exec' = exec /\ e \in unmarked'
        /\ confirming' = [confirming EXCEPT ![t] = Nothing]
        /\ day' = day /\ plan' = plan /\ due' = due
    BY <1>1 DEF BuyAndMark
  <1>4. \A i \in 1 .. x - 1 : trade[i] \in Executions \cup {Nothing}
    BY <1>2 DEF DcaInv, DcaTypes
  <1>5. DcaTypes'
    <2>1. trade' \in [1 .. x -> Executions \cup {Nothing}]
      BY <1>1, <1>2, <1>3, <1>4
    <2>2. exec' \in [Executions -> ExecRow]
      <3>1. [status |-> "confirmed", tx |-> x] \in ExecRow
        BY <1>2 DEF ExecRow
      <3> QED BY <1>3, <3>1 DEF Marked, DcaInv, DcaTypes
    <2>3. confirming' \in [Confirmers -> {Nothing} \cup Read]
      BY <1>3 DEF DcaInv, DcaTypes
    <2> QED BY <1>2, <1>3, <2>1, <2>2, <2>3 DEF DcaInv, DcaTypes
  <1>6. ASSUME NEW f \in Executions
        PROVE  Buys(f)' = IF f = e THEN Buys(f) \cup {x} ELSE Buys(f)
    BY <1>2, <1>3 DEF Buys
  <1>7. ASSUME NEW f \in Executions PROVE Named(f)' /\ Accounted(f)'
    <2>0. Named(f) /\ Accounted(f)
      BY DEF DcaInv
    <2>1. CASE f # e
      <3>1. exec'[f] = exec[f]
        BY <1>1, <1>3, <2>1 DEF Marked, DcaInv, DcaTypes
      <3> QED BY <1>3, <1>6, <2>0, <2>1, <3>1 DEF Named, Accounted
    <2>2. CASE f = e /\ exec' = exec /\ e \in unmarked'
      BY <1>6, <2>0, <2>2 DEF Named, Accounted
    <2>3. CASE f = e /\ exec' = Marked(e, x)
      <3>1. exec'[f].status = "confirmed" /\ exec'[f].tx = x
        BY <1>1, <2>3 DEF Marked, DcaInv, DcaTypes
      <3>2. Named(f)'
        BY <1>2, <1>6, <2>3, <3>1 DEF Named, NoTrade
      <3>3. Accounted(f)'
        <4>1. CASE exec[e].status # "pending"
          BY <1>3, <2>3, <4>1 DEF Accounted
        <4>2. CASE exec[e].status = "pending"
          <5>1. NoTrade \notin DOMAIN trade
            BY <1>2 DEF NoTrade
          <5>2. f \in raced \cup unmarked \/ Buys(f) = {}
            BY <2>0, <2>3, <4>2, <5>1 DEF Named, Accounted, Buys
          <5> QED BY <1>3, <1>6, <2>3, <3>1, <5>2 DEF Accounted
        <4> QED BY <4>1, <4>2
      <3> QED BY <3>2, <3>3
    <2> QED BY <1>3, <2>1, <2>2, <2>3
  <1> QED BY <1>5, <1>7 DEF DcaInv

LEMMA SkipKeeps ==
  ASSUME DcaInv, NEW e \in Executions, Skip(e)
  PROVE  DcaInv'
  <1>1. DcaTypes'
    BY DEF Skip, DcaInv, DcaTypes, ExecRow
  <1>2. ASSUME NEW f \in Executions PROVE Named(f)' /\ Accounted(f)'
    <2>1. exec'[f].tx = exec[f].tx
      BY DEF Skip, DcaInv, DcaTypes, ExecRow
    <2>2. exec'[f].status = IF f = e THEN "skipped" ELSE exec[f].status
      BY DEF Skip, DcaInv, DcaTypes, ExecRow
    <2>3. Named(f) /\ Accounted(f) /\ exec[e].status # "none"
      BY DEF DcaInv, Skip
    <2>4. Buys(f)' = Buys(f)
      BY DEF Skip, Buys
    <2>5. Named(f)'
      BY <2>1, <2>2, <2>3, <2>4 DEF Named
    <2>6. Accounted(f)'
      BY <2>1, <2>2, <2>3, <2>4 DEF Accounted, Skip
    <2> QED BY <2>5, <2>6
  <1> QED BY <1>1, <1>2 DEF DcaInv

(* A deleted buy was named by nobody.                                         *)
LEMMA DeleteTradeKeeps ==
  ASSUME DcaInv, NEW x \in 1 .. MaxTrades, DeleteTrade(x)
  PROVE  DcaInv'
  <1>1. DcaTypes'
    BY DEF DeleteTrade, DcaInv, DcaTypes
  <1>2. ASSUME NEW f \in Executions PROVE Named(f)' /\ Accounted(f)'
    <2>1. Buys(f)' = Buys(f) \ {x}
      BY Pairs DEF DeleteTrade, DcaInv, DcaTypes, Buys
    <2>2. Named(f) /\ Accounted(f) /\ exec[f].tx # x
      BY DEF DcaInv, DeleteTrade
    <2> QED BY <2>1, <2>2 DEF Named, Accounted, DeleteTrade
  <1> QED BY <1>1, <1>2 DEF DcaInv

LEMMA DcaKept == DcaInv /\ [DcaNext]_dcaVars => DcaInv'
  <1> SUFFICES ASSUME DcaInv, [DcaNext]_dcaVars PROVE DcaInv'
    OBVIOUS
  <1>1. CASE UNCHANGED dcaVars
    <2>1. DcaTypes'
      BY <1>1 DEF dcaVars, DcaInv, DcaTypes
    <2> QED BY <1>1, <2>1, BooksKept DEF dcaVars
  <1> QED BY <1>1, PlansKeep, StatusKeeps, DeletePlanKeeps, GenerateKeeps, SchedulerKeeps,
             ReadingKeeps, FailureKeeps, BuyKeeps, SkipKeeps, DeleteTradeKeeps
          DEF DcaNext, Generate, DcaInv, DcaTypes

(* A confirmed execution names a buy that was made for it and is still in the *)
(* books (the scope that buys also marks; the foreign key keeps the buy).     *)
THEOREM ConfirmedIsBought == DcaSpec => []ConfirmedHasBuy
  <1>1. DcaInv => ConfirmedHasBuy
    BY DEF DcaInv, Named, ConfirmedHasBuy
  <1> QED BY DcaStart, DcaKept, <1>1, PTL DEF DcaSpec

(* A buy its execution does not name was made by a confirmation that lost a   *)
(* race after its check, or whose mark failed.                                *)
THEOREM EveryBuyAccounted == DcaSpec => []BuysAccounted
  <1>1. DcaInv => BuysAccounted
    BY DEF DcaInv, Accounted, BuysAccounted
  <1> QED BY DcaStart, DcaKept, <1>1, PTL DEF DcaSpec

-----------------------------------------------------------------------------
(* The positions: what rounding returns, what a sale takes from the lots, where *)
(* a new lot goes, what a book with lots stands for, and the replay of rows.    *)
(* Rounding *)

LEMMA Quotient ==
    ASSUME NEW a \in Int, NEW d \in Nat \ {0}
    PROVE  a \div d \in Int /\ d * (a \div d) <= a /\ a < d * (a \div d) + d
  OBVIOUS

\* What RoundHalfUp returns is off by at most a half.
LEMMA Rounded ==
    ASSUME NEW m \in Nat, NEW q \in Nat \ {0}
    PROVE  /\ RoundHalfUp(m, q) \in Nat
           /\ 2 * (q * RoundHalfUp(m, q)) <= 2 * m + q
           /\ 2 * m + q < 2 * (q * RoundHalfUp(m, q)) + 2 * q
<1>1. PICK a, d, h : a = 2 * m + q /\ d = 2 * q /\ h = a \div d
  OBVIOUS
<1>2. a \in Nat /\ d \in Nat \ {0} /\ h = RoundHalfUp(m, q)
  BY <1>1 DEF RoundHalfUp
<1>3. h \in Int /\ d * h <= a /\ a < d * h + d
  <2>1. a \in Int
    BY <1>2
  <2>2. a \div d \in Int /\ d * (a \div d) <= a /\ a < d * (a \div d) + d
    BY ONLY <2>1, <1>2, Quotient
  <2>3. h = a \div d
    BY <1>1
  <2> QED  BY ONLY <2>2, <2>3
<1>4. d * h = 2 * (q * h)
  BY <1>1, <1>3
<1>5. h >= 0
  BY <1>2, <1>3
<1> QED  BY <1>1, <1>2, <1>3, <1>4, <1>5

LEMMA RoundedZero == ASSUME NEW q \in Nat \ {0} PROVE RoundHalfUp(0, q) = 0
<1>1. PICK h : h = RoundHalfUp(0, q)
  OBVIOUS
<1>2. h \in Nat /\ 2 * (q * h) <= q
  BY <1>1, Rounded
<1>3. h >= 1 => q * h >= q
  BY <1>2
<1> QED  BY <1>1, <1>2, <1>3

\* A fraction of at most one stays one.
LEMMA RoundedPart ==
    ASSUME NEW q \in Nat, NEW all \in Nat \ {0}, NEW u \in Nat, q <= all
    PROVE  RoundHalfUp(q * u, all) <= u
<1>1. PICK h, a : h = RoundHalfUp(q * u, all) /\ a = q * u
  OBVIOUS
<1>2. a \in Nat
  BY <1>1
<1>3. h \in Nat /\ 2 * (all * h) <= 2 * a + all
  BY <1>1, <1>2, Rounded
<1>4. a <= all * u
  BY <1>1
<1>5. h >= u + 1 => all * h >= all * u + all
  BY <1>3
<1>6. PICK x, y : x = all * h /\ y = all * u
  OBVIOUS
<1>7. x \in Nat /\ y \in Nat
  BY <1>3, <1>6
<1>8. ~ (h >= u + 1)
  BY <1>2, <1>3, <1>4, <1>5, <1>6, <1>7
<1> QED  BY <1>1, <1>3, <1>8

\* A sale takes no more than all of the cost.
LEMMA ShareIsPart ==
    ASSUME NEW m \in Nat, NEW q \in Nat, NEW all \in Nat \ {0}, q <= all
    PROVE  Share(m, q, all) \in 0 .. m
<1>1. PICK h : h = RoundHalfUp(q * RatioUnit, all)
  OBVIOUS
<1>2. RatioUnit \in Nat \ {0} /\ q * RatioUnit \in Nat
  BY PositionConstants
<1>3. h \in Nat
  BY <1>1, <1>2, Rounded
<1>4. h <= RatioUnit
  BY <1>1, <1>2, RoundedPart
<1>5. PICK s : s = RoundHalfUp(h * m, RatioUnit)
  OBVIOUS
<1>6. h * m \in Nat /\ h * m = m * h
  BY <1>3
<1>7. s \in Nat /\ s <= m
  BY <1>2, <1>3, <1>4, <1>5, <1>6, Rounded, RoundedPart
<1>8. Share(m, q, all) = s
  BY <1>1, <1>5, <1>6 DEF Share
<1> QED  BY <1>7, <1>8

LEMMA GrossIsNat == ASSUME NEW p \in Nat, NEW q \in Nat PROVE Gross(p, q) \in Nat
<1>1. p * q \in Nat /\ PriceUnit \in Nat \ {0}
  BY PositionConstants
<1> QED  BY <1>1, Rounded DEF Gross

LEMMA GrossOfNone == ASSUME NEW p \in Nat PROVE Gross(p, 0) = 0
<1>1. p * 0 = 0 /\ PriceUnit \in Nat \ {0}
  BY PositionConstants
<1> QED  BY <1>1, RoundedZero DEF Gross

\* A lot sold in two parts is worth what it was up to one unit.
LEMMA GrossSplits ==
    ASSUME NEW c \in Nat, NEW t \in Nat, NEW u \in Nat
    PROVE  Gross(c, t + u) - Gross(c, t) - Gross(c, u) \in -1 .. 1
<1>1. PICK P, x, y, z, f, g, h : /\ P = PriceUnit /\ x = c * t /\ y = c * u /\ z = c * (t + u)
                                /\ f = Gross(c, t + u) /\ g = Gross(c, t) /\ h = Gross(c, u)
  OBVIOUS
<1>2. x \in Nat /\ y \in Nat /\ z \in Nat /\ z = x + y /\ P \in Nat \ {0}
  BY <1>1, PositionConstants
<1>3. /\ f = RoundHalfUp(z, P) /\ g = RoundHalfUp(x, P) /\ h = RoundHalfUp(y, P)
  BY <1>1 DEF Gross
<1>4. f \in Nat /\ 2 * (P * f) <= 2 * z + P /\ 2 * z + P < 2 * (P * f) + 2 * P
  BY ONLY <1>2, <1>3, Rounded
<1>5. g \in Nat /\ 2 * (P * g) <= 2 * x + P /\ 2 * x + P < 2 * (P * g) + 2 * P
  BY ONLY <1>2, <1>3, Rounded
<1>6. h \in Nat /\ 2 * (P * h) <= 2 * y + P /\ 2 * y + P < 2 * (P * h) + 2 * P
  BY ONLY <1>2, <1>3, Rounded
<1>7. PICK d, D : d = f - g - h /\ D = P * d
  OBVIOUS
<1>8. d \in Int /\ D = P * f - P * g - P * h
  BY ONLY <1>2, <1>4, <1>5, <1>6, <1>7
<1>9. D < 2 * P /\ - D < 2 * P
  BY ONLY <1>2, <1>4, <1>5, <1>6, <1>8
<1>10. (d >= 2 => D >= 2 * P) /\ (d <= -2 => D <= - (2 * P))
  BY ONLY <1>2, <1>7, <1>8
<1>11. D \in Int
  BY ONLY <1>2, <1>7, <1>8
<1>12. d \in -1 .. 1
  BY ONLY <1>2, <1>8, <1>9, <1>10, <1>11
<1> QED  BY <1>1, <1>7, <1>12

\* A buy of q units that costs m is worth m up to rounding.
LEMMA BuyRounds ==
    ASSUME NEW m \in Nat, NEW q \in Nat \ {0}
    PROVE  /\ PerUnit(m, q) \in Nat
           /\ m - Gross(PerUnit(m, q), q) \in - (1 + q \div PriceUnit) .. 1 + q \div PriceUnit
<1>1. PICK P, u, g, x, y, w : /\ P = PriceUnit /\ u = PerUnit(m, q) /\ g = Gross(u, q)
                             /\ x = m * P /\ y = u * q /\ w = q \div P
  OBVIOUS
<1>2. P \in Nat \ {0} /\ x \in Nat
  BY <1>1, PositionConstants
<1>3. u = RoundHalfUp(x, q)
  BY <1>1 DEF PerUnit
<1>4. u \in Nat /\ 2 * (q * u) <= 2 * x + q /\ 2 * x + q < 2 * (q * u) + 2 * q
  BY ONLY <1>2, <1>3, Rounded, q \in Nat \ {0}
<1>5. y \in Nat /\ y = q * u
  BY <1>1, <1>4
<1>6. g = RoundHalfUp(y, P)
  BY <1>1 DEF Gross
<1>7. g \in Nat /\ 2 * (P * g) <= 2 * y + P /\ 2 * y + P < 2 * (P * g) + 2 * P
  BY ONLY <1>2, <1>5, <1>6, Rounded
<1>8. w \in Int /\ q < P * w + P /\ w >= 0
  BY <1>1, <1>2, Quotient
<1>9. PICK d, D, W : d = m - g /\ D = P * d /\ W = P * w
  OBVIOUS
<1>10. d \in Int /\ D \in Int /\ W \in Int /\ D = x - P * g
  BY <1>1, <1>2, <1>7, <1>8, <1>9
<1>11. 2 * D < 2 * W + 4 * P /\ - (2 * D) < 2 * W + 4 * P
  BY ONLY <1>2, <1>4, <1>5, <1>7, <1>8, <1>9, <1>10, q \in Nat \ {0}
<1>12. /\ d >= w + 2 => D >= W + 2 * P
       /\ d <= - (w + 2) => D <= - (W + 2 * P)
  BY ONLY <1>2, <1>8, <1>9, <1>10
<1>13. d \in - (1 + w) .. 1 + w
  BY ONLY <1>2, <1>8, <1>10, <1>11, <1>12
<1> QED  BY <1>1, <1>4, <1>9, <1>13

-----------------------------------------------------------------------------
(* What a sale takes from the lots *)

LotWorth(ls) == [k \in DOMAIN ls |-> Gross(ls[k].cpu, ls[k].rem)]
LotSold(ls, q) == [k \in DOMAIN ls |-> Gross(ls[k].cpu, Taken(ls, q)[k])]
LotRounding(ls) == [k \in DOMAIN ls |-> 1 + ls[k].qty \div PriceUnit]

\* The lots drawn on so far.
Ahead(ls, k) == Total(Rem(ls), k)

LEMMA LotTypes ==
    ASSUME NEW ls \in Seq(Lot)
    PROVE  /\ Len(ls) \in Nat /\ DOMAIN ls = 1 .. Len(ls)
           /\ \A k \in 1 .. Len(ls) : /\ ls[k] \in Lot /\ ls[k].rem \in Nat /\ ls[k].qty \in Nat
                                      /\ ls[k].cpu \in Nat /\ ls[k].date \in Nat
<1>1. \A l \in Lot : l.rem \in Nat /\ l.qty \in Nat /\ l.cpu \in Nat /\ l.date \in Nat
  BY DEF Lot
<1>2. Len(ls) \in Nat /\ DOMAIN ls = 1 .. Len(ls) /\ \A k \in 1 .. Len(ls) : ls[k] \in Lot
  OBVIOUS
<1> QED  BY <1>1, <1>2

LEMMA LotTotals ==
    ASSUME NEW ls \in Seq(Lot)
    PROVE  /\ \A k \in 1 .. Len(ls) : Rem(ls)[k] = ls[k].rem /\ Rem(ls)[k] \in Nat
           /\ \A k \in 1 .. Len(ls) : LotWorth(ls)[k] = Gross(ls[k].cpu, ls[k].rem) /\ LotWorth(ls)[k] \in Nat
           /\ \A k \in 1 .. Len(ls) : LotRounding(ls)[k] = 1 + ls[k].qty \div PriceUnit
                                      /\ LotRounding(ls)[k] \in Nat \ {0}
           /\ Held(ls) = Ahead(ls, Len(ls)) /\ Worth(ls) = Total(LotWorth(ls), Len(ls))
           /\ Rounding(ls) = Total(LotRounding(ls), Len(ls))
           /\ Held(ls) \in Nat /\ Worth(ls) \in Nat /\ Rounding(ls) \in Nat
<1>1. /\ Len(ls) \in Nat /\ DOMAIN ls = 1 .. Len(ls)
      /\ \A k \in 1 .. Len(ls) : ls[k].rem \in Nat /\ ls[k].qty \in Nat /\ ls[k].cpu \in Nat
  BY LotTypes
<1>2. \A k \in 1 .. Len(ls) : Rem(ls)[k] = ls[k].rem /\ Rem(ls)[k] \in Nat
  BY <1>1 DEF Rem
<1>3. \A k \in 1 .. Len(ls) : LotWorth(ls)[k] = Gross(ls[k].cpu, ls[k].rem) /\ LotWorth(ls)[k] \in Nat
  BY <1>1, GrossIsNat DEF LotWorth
<1>4. ASSUME NEW k \in 1 .. Len(ls)
      PROVE  LotRounding(ls)[k] = 1 + ls[k].qty \div PriceUnit /\ LotRounding(ls)[k] \in Nat \ {0}
  <2>1. PICK q, P, w : q = ls[k].qty /\ P = PriceUnit /\ w = q \div P
    OBVIOUS
  <2>2. q \in Nat /\ P \in Nat \ {0}
    BY <1>1, <2>1, PositionConstants
  <2>3. w \in Nat
    BY ONLY <2>1, <2>2
  <2>4. LotRounding(ls)[k] = 1 + w
    BY <1>1, <2>1 DEF LotRounding
  <2> QED  BY <2>1, <2>3, <2>4
<1>5. /\ Held(ls) = Ahead(ls, Len(ls)) /\ Worth(ls) = Total(LotWorth(ls), Len(ls))
      /\ Rounding(ls) = Total(LotRounding(ls), Len(ls))
  BY DEF Held, Ahead, Worth, LotWorth, Rounding, LotRounding
<1>6. Held(ls) \in Nat
  BY <1>1, <1>2, <1>5, TotalIsNat DEF Ahead
<1>7. Worth(ls) \in Nat
  BY <1>1, <1>3, <1>5, TotalIsNat
<1>8. Rounding(ls) \in Nat
  BY <1>1, <1>4, <1>5, TotalIsNat
<1> QED  BY <1>2, <1>3, <1>4, <1>5, <1>6, <1>7, <1>8

LEMMA AheadGrows ==
    ASSUME NEW ls \in Seq(Lot), NEW k \in 0 .. Len(ls)
    PROVE  /\ Ahead(ls, 0) = 0 /\ Ahead(ls, k) \in Nat
           /\ k < Len(ls) => Ahead(ls, k + 1) = Ahead(ls, k) + ls[k + 1].rem /\ ls[k + 1].rem \in Nat
<1>1. Len(ls) \in Nat /\ \A j \in 1 .. Len(ls) : Rem(ls)[j] = ls[j].rem /\ Rem(ls)[j] \in Nat
  BY LotTypes, LotTotals
<1>2. k \in Nat /\ \A j \in 1 .. k : Rem(ls)[j] \in Nat
  BY <1>1
<1>3. Ahead(ls, k) \in Nat
  BY <1>2, TotalIsNat DEF Ahead
<1>4. ASSUME k < Len(ls)
      PROVE  Ahead(ls, k + 1) = Ahead(ls, k) + ls[k + 1].rem /\ ls[k + 1].rem \in Nat
  <2>1. k + 1 \in 1 .. Len(ls) /\ \A j \in 1 .. k + 1 : Rem(ls)[j] \in Int
    BY <1>1, <1>2, <1>4
  <2>2. Total(Rem(ls), k + 1) = Total(Rem(ls), k) + Rem(ls)[k + 1]
    BY ONLY <1>2, <2>1, TotalStep
  <2> QED  BY <1>1, <2>1, <2>2 DEF Ahead
<1> QED  BY <1>3, <1>4, TotalOfNone DEF Ahead

LEMMA MinOfTwo ==
    ASSUME NEW a \in Int, NEW b \in Int
    PROVE  Min({a, b}) = IF a <= b THEN a ELSE b
<1>1. \E x \in {a, b} : \A y \in {a, b} : x <= y
  OBVIOUS
<1>2. Min({a, b}) \in {a, b} /\ \A y \in {a, b} : Min({a, b}) <= y
  BY <1>1 DEF Min
<1> QED  BY <1>2

\* Lot k gives what the lots before it leave of the sale, up to all it has.
LEMMA TakenIs ==
    ASSUME NEW ls \in Seq(Lot), NEW q \in Nat, NEW k \in 1 .. Len(ls)
    PROVE  /\ Taken(ls, q)[k] \in 0 .. ls[k].rem
           /\ q <= Ahead(ls, k - 1) => Taken(ls, q)[k] = 0
           /\ Ahead(ls, k) <= q => Taken(ls, q)[k] = ls[k].rem
           /\ Ahead(ls, k - 1) <= q /\ q <= Ahead(ls, k) => Taken(ls, q)[k] = q - Ahead(ls, k - 1)
<1>1. PICK a, c, r, t : /\ a = Ahead(ls, k - 1) /\ c = Ahead(ls, k) /\ r = ls[k].rem
                        /\ t = Taken(ls, q)[k]
  OBVIOUS
<1>2. Len(ls) \in Nat /\ DOMAIN ls = 1 .. Len(ls)
  BY LotTypes
<1>3. a \in Nat /\ c = a + r /\ r \in Nat
  <2>1. k - 1 \in 0 .. Len(ls) /\ k - 1 < Len(ls) /\ (k - 1) + 1 = k
    BY <1>2
  <2> QED  BY <1>1, <2>1, AheadGrows
<1>4. t = Min({r, Floor0(q - a)})
  BY <1>1, <1>2 DEF Taken, Ahead
<1>5. PICK z : z = Floor0(q - a)
  OBVIOUS
<1>6. z \in Nat /\ z = IF q - a > 0 THEN q - a ELSE 0
  BY <1>3, <1>5 DEF Floor0
<1>7. t = IF r <= z THEN r ELSE z
  BY ONLY <1>3, <1>4, <1>5, <1>6, MinOfTwo
<1>8. /\ t \in 0 .. r
      /\ q <= a => t = 0
      /\ c <= q => t = r
      /\ a <= q /\ q <= c => t = q - a
  BY ONLY <1>3, <1>6, <1>7, q \in Nat
<1> QED  BY <1>1, <1>8

\* A lot that is drawn on loses what is taken and nothing else.
LEMMA DrawnLots ==
    ASSUME NEW ls \in Seq(Lot), NEW q \in Nat
    PROVE  /\ Drawn(ls, q) \in Seq(Lot) /\ Len(Drawn(ls, q)) = Len(ls)
           /\ \A k \in 1 .. Len(ls) :
                LET l == Drawn(ls, q)[k]
                IN  /\ l.tx = ls[k].tx /\ l.date = ls[k].date /\ l.qty = ls[k].qty
                    /\ l.cpu = ls[k].cpu /\ l.rem = ls[k].rem - Taken(ls, q)[k]
<1>1. /\ Len(ls) \in Nat /\ DOMAIN ls = 1 .. Len(ls)
      /\ \A k \in 1 .. Len(ls) : ls[k] \in Lot
  BY LotTypes
<1>2. PICK ms : ms = Drawn(ls, q)
  OBVIOUS
<1>3. ms = [k \in 1 .. Len(ls) |-> [ls[k] EXCEPT !.rem = @ - Taken(ls, q)[k]]]
  BY <1>1, <1>2 DEF Drawn
<1>4. ASSUME NEW k \in 1 .. Len(ls)
      PROVE  /\ ms[k] \in Lot
             /\ ms[k].tx = ls[k].tx /\ ms[k].date = ls[k].date /\ ms[k].qty = ls[k].qty
             /\ ms[k].cpu = ls[k].cpu /\ ms[k].rem = ls[k].rem - Taken(ls, q)[k]
  <2>1. PICK l, t, m : l = ls[k] /\ t = Taken(ls, q)[k] /\ m = ms[k]
    OBVIOUS
  <2>2. l \in Lot /\ m = [l EXCEPT !.rem = @ - t]
    BY <1>1, <1>3, <2>1
  <2>3. t \in 0 .. l.rem
    BY <2>1, TakenIs
  <2>4. l.rem \in Nat
    BY <2>2 DEF Lot
  <2>5. l.rem - t \in Nat
    BY <2>3, <2>4
  <2>6. /\ m \in Lot
        /\ m.tx = l.tx /\ m.date = l.date /\ m.qty = l.qty /\ m.cpu = l.cpu /\ m.rem = l.rem - t
    BY ONLY <2>2, <2>5 DEF Lot
  <2> QED  BY <2>1, <2>6
<1>5. ms \in Seq(Lot) /\ Len(ms) = Len(ls)
  <2>1. PICK n : n = Len(ls)
    OBVIOUS
  <2>2. n \in Nat /\ DOMAIN ms = 1 .. n
    BY <1>1, <1>3, <2>1
  <2>3. ms \in [1 .. n -> Lot]
    BY <1>3, <1>4, <2>1
  <2>4. ms \in Seq(Lot) /\ Len(ms) = n
    BY ONLY <2>2, <2>3
  <2> QED  BY <2>1, <2>4
<1> QED  BY <1>2, <1>4, <1>5

LEMMA DrawnAhead ==
    ASSUME NEW ls \in Seq(Lot), NEW q \in Nat
    PROVE  \A k \in 0 .. Len(ls) :
             Ahead(Drawn(ls, q), k) = IF Ahead(ls, k) <= q THEN 0 ELSE Ahead(ls, k) - q
<1>1. PICK ms : ms = Drawn(ls, q)
  OBVIOUS
<1>2. /\ ms \in Seq(Lot) /\ Len(ms) = Len(ls) /\ Len(ls) \in Nat
      /\ \A k \in 1 .. Len(ls) : ms[k].rem = ls[k].rem - Taken(ls, q)[k]
  BY <1>1, LotTypes, DrawnLots
<1> DEFINE S == {m \in Nat : m <= Len(ls) =>
                   Ahead(ms, m) = IF Ahead(ls, m) <= q THEN 0 ELSE Ahead(ls, m) - q}
<1>3. 0 \in S
  BY TotalOfNone DEF Ahead
<1>4. ASSUME NEW m \in S PROVE m + 1 \in S
  <2> SUFFICES ASSUME m + 1 <= Len(ls)
               PROVE  Ahead(ms, m + 1) = IF Ahead(ls, m + 1) <= q THEN 0 ELSE Ahead(ls, m + 1) - q
    BY <1>4
  <2>0. m \in 0 .. Len(ls) /\ m < Len(ls) /\ m + 1 \in 1 .. Len(ls) /\ (m + 1) - 1 = m
    BY <1>2, <1>4
  <2>1. PICK a, c, r, t, b, d : /\ a = Ahead(ls, m) /\ c = Ahead(ls, m + 1) /\ r = ls[m + 1].rem
                                /\ t = Taken(ls, q)[m + 1] /\ b = Ahead(ms, m) /\ d = Ahead(ms, m + 1)
    OBVIOUS
  <2>2. a \in Nat /\ c = a + r /\ r \in Nat
    BY <2>0, <2>1, AheadGrows
  <2>3. b \in Nat /\ d = b + (r - t)
    BY <1>2, <2>0, <2>1, AheadGrows
  <2>4. b = IF a <= q THEN 0 ELSE a - q
    BY <1>4, <2>0, <2>1
  <2>5. /\ t \in 0 .. r
        /\ q <= a => t = 0
        /\ c <= q => t = r
        /\ a <= q /\ q <= c => t = q - a
    BY <2>0, <2>1, TakenIs
  <2>6. d = IF c <= q THEN 0 ELSE c - q
    BY ONLY <2>2, <2>3, <2>4, <2>5, q \in Nat
  <2> QED  BY <2>1, <2>6
<1>5. Nat \subseteq S
  <2>1. S \in SUBSET Nat
    OBVIOUS
  <2> HIDE DEF S
  <2> QED  BY <1>3, <1>4, <2>1, CountUp
<1> QED  BY <1>1, <1>5

\* The lots hold what is left.
LEMMA DrawnHeld ==
    ASSUME NEW ls \in Seq(Lot), NEW q \in Nat, q <= Held(ls)
    PROVE  Held(Drawn(ls, q)) = Held(ls) - q
<1>1. Len(ls) \in 0 .. Len(ls) /\ Len(Drawn(ls, q)) = Len(ls) /\ Drawn(ls, q) \in Seq(Lot)
  BY LotTypes, DrawnLots
<1>2. Held(ls) = Ahead(ls, Len(ls)) /\ Held(ls) \in Nat /\ Held(Drawn(ls, q)) = Ahead(Drawn(ls, q), Len(ls))
  BY <1>1, LotTotals
<1>3. Held(Drawn(ls, q)) = IF Held(ls) <= q THEN 0 ELSE Held(ls) - q
  BY <1>1, <1>2, DrawnAhead
<1> QED  BY <1>2, <1>3

\* Only one lot is drawn on in part, so rounding shows once.
LEMMA DrawnWorth ==
    ASSUME NEW ls \in Seq(Lot), NEW q \in Nat
    PROVE  /\ Sold(ls, q) \in Nat
           /\ Worth(ls) - Sold(ls, q) - Worth(Drawn(ls, q)) \in -1 .. 1
<1>1. PICK ms, f, g, h : /\ ms = Drawn(ls, q) /\ f = LotWorth(ls) /\ g = LotSold(ls, q)
                         /\ h = LotWorth(ms)
  OBVIOUS
<1>2. /\ ms \in Seq(Lot) /\ Len(ms) = Len(ls) /\ Len(ls) \in Nat /\ DOMAIN ls = 1 .. Len(ls)
      /\ \A k \in 1 .. Len(ls) : ms[k].cpu = ls[k].cpu /\ ms[k].rem = ls[k].rem - Taken(ls, q)[k]
  BY <1>1, LotTypes, DrawnLots
<1>3. ASSUME NEW k \in 1 .. Len(ls)
      PROVE  /\ f[k] \in Nat /\ g[k] \in Nat /\ h[k] \in Nat /\ f[k] - g[k] - h[k] \in -1 .. 1
             /\ Ahead(ls, k) <= q \/ q <= Ahead(ls, k - 1) => f[k] - g[k] - h[k] = 0
  <2>1. PICK c, r, t, u : c = ls[k].cpu /\ r = ls[k].rem /\ t = Taken(ls, q)[k] /\ u = r - t
    OBVIOUS
  <2>2. c \in Nat /\ r \in Nat
    BY <2>1, LotTypes
  <2>3. /\ t \in 0 .. r
        /\ q <= Ahead(ls, k - 1) => t = 0
        /\ Ahead(ls, k) <= q => t = r
    BY <2>1, TakenIs
  <2>4. t \in Nat /\ u \in Nat /\ r = t + u
    BY <2>1, <2>2, <2>3
  <2>5. f[k] = Gross(c, t + u)
    BY <1>1, <2>1, <2>4, LotTotals
  <2>6. g[k] = Gross(c, t)
    BY <1>1, <1>2, <2>1 DEF LotSold
  <2>7. h[k] = Gross(c, u)
    <3>1. LotWorth(ms)[k] = Gross(ms[k].cpu, ms[k].rem)
      BY ONLY <1>2, LotTotals, k \in 1 .. Len(ls)
    <3> QED  BY <1>1, <1>2, <2>1, <3>1
  <2>8. Gross(c, t + u) \in Nat /\ Gross(c, t) \in Nat /\ Gross(c, u) \in Nat
    BY <2>2, <2>4, GrossIsNat
  <2>9. Gross(c, t + u) - Gross(c, t) - Gross(c, u) \in -1 .. 1
    BY <2>2, <2>4, GrossSplits
  <2>10. Gross(c, 0) = 0
    BY <2>2, GrossOfNone
  <2>11. t = 0 \/ t = r => Gross(c, t + u) - Gross(c, t) - Gross(c, u) = 0
    <3>1. CASE t = 0
      <4>1. t + u = u
        BY <2>4, <3>1
      <4> QED  BY <2>8, <2>10, <3>1, <4>1
    <3>2. CASE t = r
      <4>1. u = 0 /\ t + u = t
        BY <2>4, <3>2
      <4> QED  BY <2>8, <2>10, <4>1
    <3> QED  BY <3>1, <3>2
  <2> QED  BY <2>3, <2>5, <2>6, <2>7, <2>8, <2>9, <2>11
<1> DEFINE Off(m) == Total(f, m) - Total(g, m) - Total(h, m)
<1> DEFINE S == {m \in Nat : m <= Len(ls) =>
                   Off(m) \in -1 .. 1 /\ (Ahead(ls, m) <= q => Off(m) = 0)}
<1>4. 0 \in S
  BY TotalOfNone
<1>5. ASSUME NEW m \in S PROVE m + 1 \in S
  <2> SUFFICES ASSUME m + 1 <= Len(ls)
               PROVE  Off(m + 1) \in -1 .. 1 /\ (Ahead(ls, m + 1) <= q => Off(m + 1) = 0)
    BY <1>5
  <2>0. /\ m \in Nat /\ m \in 0 .. Len(ls) /\ m < Len(ls) /\ m + 1 \in 1 .. Len(ls) /\ (m + 1) - 1 = m
        /\ \A k \in 1 .. m + 1 : k \in 1 .. Len(ls)
    BY <1>2, <1>5
  <2>1. \A k \in 1 .. m + 1 : f[k] \in Int /\ g[k] \in Int /\ h[k] \in Int
    BY <1>3, <2>0
  <2>2. Total(f, m + 1) = Total(f, m) + f[m + 1] /\ Total(f, m) \in Int
    BY ONLY <2>0, <2>1, TotalStep
  <2>3. Total(g, m + 1) = Total(g, m) + g[m + 1] /\ Total(g, m) \in Int
    BY ONLY <2>0, <2>1, TotalStep
  <2>4. Total(h, m + 1) = Total(h, m) + h[m + 1] /\ Total(h, m) \in Int
    BY ONLY <2>0, <2>1, TotalStep
  <2>5. PICK a, c, d, x, y, z : /\ a = Ahead(ls, m) /\ c = Ahead(ls, m + 1) /\ d = f[m + 1] - g[m + 1] - h[m + 1]
                                /\ x = f[m + 1] /\ y = g[m + 1] /\ z = h[m + 1]
    OBVIOUS
  <2>6. a \in Nat /\ c \in Nat /\ a <= c
    BY <2>0, <2>5, AheadGrows
  <2>7. x \in Nat /\ y \in Nat /\ z \in Nat /\ d = x - y - z /\ d \in -1 .. 1 /\ (c <= q \/ q <= a => d = 0)
    BY <1>3, <2>0, <2>5
  <2>8. PICK o, p : o = Off(m) /\ p = Off(m + 1)
    OBVIOUS
  <2>9. o \in -1 .. 1 /\ (a <= q => o = 0)
    BY <1>5, <2>0, <2>5, <2>8
  <2>10. p = o + d
    <3>1. PICK F, G, H : F = Total(f, m) /\ G = Total(g, m) /\ H = Total(h, m)
      OBVIOUS
    <3>2. o = F - G - H /\ p = (F + x) - (G + y) - (H + z)
      BY <2>2, <2>3, <2>4, <2>5, <2>8, <3>1
    <3>3. F \in Int /\ G \in Int /\ H \in Int
      BY <2>2, <2>3, <2>4, <3>1
    <3> QED  BY ONLY <2>7, <3>2, <3>3
  <2>11. p \in -1 .. 1 /\ (c <= q => p = 0)
    BY ONLY <2>6, <2>7, <2>9, <2>10, q \in Nat
  <2> QED  BY <2>5, <2>8, <2>11
<1>6. Nat \subseteq S
  <2>1. S \in SUBSET Nat
    OBVIOUS
  <2> HIDE DEF S
  <2> QED  BY <1>4, <1>5, <2>1, CountUp
<1>7. Off(Len(ls)) \in -1 .. 1
  BY <1>2, <1>6
<1>8. Worth(ls) = Total(f, Len(ls)) /\ Worth(ms) = Total(h, Len(ls))
  BY <1>1, <1>2, LotTotals
<1>9. Sold(ls, q) = Total(g, Len(ls))
  BY <1>1 DEF Sold, LotSold
<1>10. Total(g, Len(ls)) \in Nat
  BY <1>2, <1>3, TotalIsNat
<1> QED  BY <1>1, <1>7, <1>8, <1>9, <1>10

-----------------------------------------------------------------------------
(* A new lot *)

InLine(ls) == \A j, k \in DOMAIN ls : j <= k => ls[j].date <= ls[k].date

LEMMA PlaceFound ==
    ASSUME NEW ls \in Seq(Lot), NEW l \in Lot, InLine(ls)
    PROVE  /\ Place(ls, l) \in 1 .. Len(ls) + 1
           /\ \A k \in 1 .. Len(ls) : k < Place(ls, l) <=> ls[k].date <= l.date
<1>1. /\ Len(ls) \in Nat /\ DOMAIN ls = 1 .. Len(ls) /\ l.date \in Nat
      /\ \A k \in 1 .. Len(ls) : ls[k].date \in Nat
  BY LotTypes DEF Lot
<1> DEFINE S == {m \in Nat : m <= Len(ls) =>
                   \E p \in 1 .. m + 1 : \A k \in 1 .. m : k < p <=> ls[k].date <= l.date}
<1>2. 0 \in S
  <2>1. 1 \in 1 .. 0 + 1 /\ \A k \in 1 .. 0 : k < 1 <=> ls[k].date <= l.date
    OBVIOUS
  <2> QED  BY <2>1
<1>3. ASSUME NEW m \in S PROVE m + 1 \in S
  <2> SUFFICES ASSUME m + 1 <= Len(ls)
               PROVE  \E p \in 1 .. (m + 1) + 1 :
                         \A k \in 1 .. m + 1 : k < p <=> ls[k].date <= l.date
    BY <1>3
  <2>0. m \in Nat /\ m <= Len(ls) /\ m + 1 \in 1 .. Len(ls)
    BY <1>1, <1>3
  <2>1. PICK p \in 1 .. m + 1 : \A k \in 1 .. m : k < p <=> ls[k].date <= l.date
    BY <1>3, <2>0
  <2>2. CASE ls[m + 1].date <= l.date
    <3>1. ASSUME NEW k \in 1 .. m + 1 PROVE k < m + 2 /\ ls[k].date <= l.date
      <4>1. k \in 1 .. Len(ls) /\ k <= m + 1 /\ ls[k].date \in Nat /\ ls[m + 1].date \in Nat
        BY <1>1, <2>0
      <4>2. ls[k].date <= ls[m + 1].date
        BY <1>1, <2>0, <4>1 DEF InLine
      <4> QED  BY <1>1, <2>0, <2>2, <4>1, <4>2
    <3>2. m + 2 \in 1 .. (m + 1) + 1
      BY <2>0
    <3> QED  BY <3>1, <3>2
  <2>3. CASE ~ (ls[m + 1].date <= l.date)
    <3>1. ASSUME NEW k \in 1 .. m + 1 PROVE k < p <=> ls[k].date <= l.date
      <4>1. CASE k = m + 1
        BY <2>0, <2>3, <4>1
      <4>2. CASE k # m + 1
        <5>1. k \in 1 .. m
          BY <2>0, <4>2
        <5> QED  BY <2>1, <5>1
      <4> QED  BY <4>1, <4>2
    <3>2. p \in 1 .. (m + 1) + 1
      BY <2>0
    <3> QED  BY <3>1, <3>2
  <2> QED  BY <2>2, <2>3
<1>4. Nat \subseteq S
  <2>1. S \in SUBSET Nat
    OBVIOUS
  <2> HIDE DEF S
  <2> QED  BY <1>2, <1>3, <2>1, CountUp
<1>5. \E p \in 1 .. Len(ls) + 1 : \A k \in DOMAIN ls : k < p <=> ls[k].date <= l.date
  <2>0. Len(ls) \in Nat /\ Len(ls) <= Len(ls)
    BY <1>1
  <2>1. Len(ls) \in S
    BY <1>4, <2>0
  <2>2. \E p \in 1 .. Len(ls) + 1 : \A k \in 1 .. Len(ls) : k < p <=> ls[k].date <= l.date
    BY <2>0, <2>1
  <2> QED  BY <1>1, <2>2
<1>6. /\ Place(ls, l) \in 1 .. Len(ls) + 1
      /\ \A k \in DOMAIN ls : k < Place(ls, l) <=> ls[k].date <= l.date
  BY <1>5 DEF Place
<1> QED  BY <1>1, <1>6

\* ms is ls with l put in at p.
Inserted(ls, p, l, ms) ==
    /\ ms \in Seq(Lot) /\ Len(ms) = Len(ls) + 1
    /\ ms[p] = l
    /\ \A k \in 1 .. Len(ls) + 1 : /\ k < p => ms[k] = ls[k]
                                   /\ p < k => ms[k] = ls[k - 1]

LEMMA InsertIs ==
    ASSUME NEW ls \in Seq(Lot), NEW l \in Lot, NEW p \in 1 .. Len(ls) + 1
    PROVE  Inserted(ls, p, l, InsertAt(ls, p, l))
<1>1. Len(ls) \in Nat /\ \A k \in 1 .. Len(ls) : ls[k] \in Lot
  BY LotTypes
<1>2. PICK n, a, b, c, d : /\ n = Len(ls) /\ a = SubSeq(ls, 1, p - 1) /\ b = <<l>>
                           /\ c = SubSeq(ls, p, n) /\ d = a \o b
  OBVIOUS
<1>3. n \in Nat /\ p \in 1 .. n + 1 /\ \A k \in 1 .. n : ls[k] \in Lot
  BY <1>1, <1>2
<1>4. /\ a \in Seq(Lot) /\ Len(a) = p - 1
      /\ \A i \in 1 .. p - 1 : a[i] = ls[i]
  <2>1. 1 \in Int /\ p - 1 \in Int /\ \A i \in 1 .. p - 1 : ls[i] \in Lot
    BY <1>3
  <2>2. /\ SubSeq(ls, 1, p - 1) \in Seq(Lot)
        /\ Len(SubSeq(ls, 1, p - 1)) = IF 1 <= p - 1 THEN (p - 1) - 1 + 1 ELSE 0
        /\ \A i \in 1 .. (p - 1) - 1 + 1 : SubSeq(ls, 1, p - 1)[i] = ls[1 + i - 1]
    BY ONLY <2>1, SubSeqProperties
  <2>3. (IF 1 <= p - 1 THEN (p - 1) - 1 + 1 ELSE 0) = p - 1
    BY <1>3
  <2>4. \A i \in 1 .. p - 1 : i \in 1 .. (p - 1) - 1 + 1 /\ 1 + i - 1 = i
    BY <1>3
  <2> QED  BY <1>2, <2>2, <2>3, <2>4
<1>5. /\ c \in Seq(Lot) /\ Len(c) = n - p + 1
      /\ \A i \in 1 .. n - p + 1 : c[i] = ls[p + i - 1]
  <2>1. p \in Int /\ n \in Int /\ \A i \in p .. n : ls[i] \in Lot
    BY <1>3
  <2>2. /\ SubSeq(ls, p, n) \in Seq(Lot)
        /\ Len(SubSeq(ls, p, n)) = IF p <= n THEN n - p + 1 ELSE 0
        /\ \A i \in 1 .. n - p + 1 : SubSeq(ls, p, n)[i] = ls[p + i - 1]
    BY ONLY <2>1, SubSeqProperties
  <2>3. (IF p <= n THEN n - p + 1 ELSE 0) = n - p + 1
    BY <1>3
  <2> QED  BY <1>2, <2>2, <2>3
<1>6. b \in Seq(Lot) /\ Len(b) = 1 /\ b[1] = l
  BY <1>2
<1>7. /\ d \in Seq(Lot) /\ Len(d) = Len(a) + Len(b)
      /\ \A i \in 1 .. Len(a) + Len(b) : d[i] = IF i <= Len(a) THEN a[i] ELSE b[i - Len(a)]
  <2>1. /\ a \o b \in Seq(Lot) /\ Len(a \o b) = Len(a) + Len(b)
        /\ \A i \in 1 .. Len(a) + Len(b) : (a \o b)[i] = IF i <= Len(a) THEN a[i] ELSE b[i - Len(a)]
    <3>1. a \in Seq(Lot) /\ b \in Seq(Lot)
      BY <1>4, <1>6
    <3> QED  BY ONLY <3>1, ConcatProperties
  <2> QED  BY <1>2, <2>1
<1>8. PICK e : e = d \o c
  OBVIOUS
<1>9. /\ e \in Seq(Lot) /\ Len(e) = Len(d) + Len(c)
      /\ \A i \in 1 .. Len(d) + Len(c) : e[i] = IF i <= Len(d) THEN d[i] ELSE c[i - Len(d)]
  <2>1. /\ d \o c \in Seq(Lot) /\ Len(d \o c) = Len(d) + Len(c)
        /\ \A i \in 1 .. Len(d) + Len(c) : (d \o c)[i] = IF i <= Len(d) THEN d[i] ELSE c[i - Len(d)]
    <3>1. d \in Seq(Lot) /\ c \in Seq(Lot)
      BY <1>5, <1>7
    <3> QED  BY ONLY <3>1, ConcatProperties
  <2> QED  BY <1>8, <2>1
<1>10. Len(d) = p /\ Len(e) = n + 1
  BY ONLY <1>3, <1>4, <1>5, <1>6, <1>7, <1>9
<1>11. d[p] = l /\ \A i \in 1 .. p - 1 : d[i] = ls[i]
  BY ONLY <1>3, <1>4, <1>6, <1>7
<1>12. e[p] = l
  BY ONLY <1>3, <1>5, <1>9, <1>10, <1>11
<1>13. ASSUME NEW k \in 1 .. n + 1 PROVE (k < p => e[k] = ls[k]) /\ (p < k => e[k] = ls[k - 1])
  <2>1. k < p => k \in 1 .. p - 1 /\ k \in 1 .. Len(d) + Len(c) /\ k <= Len(d)
    BY ONLY <1>3, <1>5, <1>10, k \in 1 .. n + 1
  <2>2. p < k => /\ k - p \in 1 .. n - p + 1 /\ k \in 1 .. Len(d) + Len(c) /\ ~ (k <= Len(d))
                 /\ p + (k - p) - 1 = k - 1
    BY ONLY <1>3, <1>5, <1>10, k \in 1 .. n + 1
  <2>3. k < p => e[k] = ls[k]
    BY ONLY <1>9, <1>11, <2>1
  <2>4. p < k => e[k] = ls[k - 1]
    BY ONLY <1>5, <1>9, <1>10, <2>2
  <2> QED  BY <2>3, <2>4
<1>14. InsertAt(ls, p, l) = e
  BY <1>2, <1>8 DEF InsertAt
<1>15. Inserted(ls, p, l, e)
  BY <1>2, <1>9, <1>10, <1>12, <1>13 DEF Inserted
<1> QED  BY <1>14, <1>15

\* In its place it keeps the line, and every total grows by what it adds.
Joined(ls, l, ms) ==
    /\ ms \in Seq(Lot) /\ Len(ms) = Len(ls) + 1 /\ InLine(ms)
    /\ \A k \in 1 .. Len(ms) : ms[k] = l \/ \E j \in 1 .. Len(ls) : ms[k] = ls[j]
    /\ Held(ms) = Held(ls) + l.rem
    /\ Worth(ms) = Worth(ls) + Gross(l.cpu, l.rem)
    /\ Rounding(ms) = Rounding(ls) + (1 + l.qty \div PriceUnit)

LEMMA InsertKeeps ==
    ASSUME NEW ls \in Seq(Lot), NEW l \in Lot, InLine(ls), NEW ms, ms = InsertAt(ls, Place(ls, l), l)
    PROVE  Joined(ls, l, ms)
<1>1. PICK n, p : n = Len(ls) /\ p = Place(ls, l)
  OBVIOUS
<1>2. /\ n \in Nat /\ DOMAIN ls = 1 .. n /\ l.date \in Nat
      /\ \A k \in 1 .. n : ls[k].date \in Nat /\ ls[k] \in Lot
  BY <1>1, LotTypes DEF Lot
<1>3. p \in 1 .. n + 1 /\ \A k \in 1 .. n : k < p <=> ls[k].date <= l.date
  BY <1>1, PlaceFound
<1>4. /\ ms \in Seq(Lot) /\ Len(ms) = n + 1 /\ DOMAIN ms = 1 .. n + 1 /\ ms[p] = l
      /\ \A k \in 1 .. n + 1 : /\ k < p => ms[k] = ls[k]
                               /\ p < k => ms[k] = ls[k - 1]
  <2>1. ms = InsertAt(ls, p, l)
    BY <1>1
  <2>2. p \in 1 .. Len(ls) + 1
    BY <1>1, <1>3
  <2>3. /\ ms \in Seq(Lot) /\ Len(ms) = Len(ls) + 1 /\ ms[p] = l
        /\ \A k \in 1 .. Len(ls) + 1 : /\ k < p => ms[k] = ls[k]
                                       /\ p < k => ms[k] = ls[k - 1]
    <3>1. Inserted(ls, p, l, InsertAt(ls, p, l))
      BY <2>2, InsertIs
    <3>2. Inserted(ls, p, l, ms)
      BY <2>1, <3>1
    <3> QED  BY <3>2 DEF Inserted
  <2>4. DOMAIN ms = 1 .. Len(ms)
    BY <2>3, LotTypes
  <2> QED  BY <1>1, <2>3, <2>4
<1>5. \A k \in 1 .. n + 1 : \/ k = p
                            \/ k < p /\ k \in 1 .. n
                            \/ p < k /\ k - 1 \in 1 .. n /\ ~ (k - 1 < p)
  BY <1>2, <1>3
<1>6. \A k \in 1 .. n + 1 : ms[k] = l \/ \E j \in 1 .. n : ms[k] = ls[j]
  BY <1>4, <1>5
<1>7. InLine(ms)
  <2> SUFFICES ASSUME NEW j \in 1 .. n + 1, NEW k \in 1 .. n + 1, j <= k
               PROVE  ms[j].date <= ms[k].date
    BY <1>4 DEF InLine
  <2>1. \A i, m \in 1 .. n : i <= m => ls[i].date <= ls[m].date
    BY <1>2 DEF InLine
  <2>2. CASE j = p /\ k = p
    BY <1>2, <1>4, <2>2
  <2>3. CASE j < p /\ k < p
    <3>1. j \in 1 .. n /\ k \in 1 .. n /\ ms[j] = ls[j] /\ ms[k] = ls[k]
      BY <1>3, <1>4, <1>5, <2>3
    <3> QED  BY <2>1, <3>1
  <2>4. CASE j < p /\ k = p
    <3>1. j \in 1 .. n /\ ms[j] = ls[j] /\ ms[k] = l
      BY <1>4, <1>5, <2>4
    <3> QED  BY <1>3, <2>4, <3>1
  <2>5. CASE j < p /\ p < k
    <3>1. j \in 1 .. n /\ k - 1 \in 1 .. n /\ j <= k - 1
      BY <1>3, <1>5, <2>5
    <3> QED  BY <1>4, <2>1, <2>5, <3>1
  <2>6. CASE j = p /\ p < k
    <3>1. k - 1 \in 1 .. n /\ ~ (k - 1 < p)
      BY <1>5, <2>6
    <3>2. ~ (ls[k - 1].date <= l.date) /\ ls[k - 1].date \in Nat
      BY <1>2, <1>3, <3>1
    <3> QED  BY <1>2, <1>4, <2>6, <3>2
  <2>7. CASE p < j /\ p < k
    <3>1. j - 1 \in 1 .. n /\ k - 1 \in 1 .. n /\ j - 1 <= k - 1
      BY <1>3, <1>5, <2>7
    <3> QED  BY <1>4, <2>1, <2>7, <3>1
  <2> QED  BY <1>3, <2>2, <2>3, <2>4, <2>5, <2>6, <2>7
<1>8. ASSUME NEW f, NEW g, \A k \in 1 .. n : f[k] \in Int, \A k \in 1 .. n + 1 : g[k] \in Int,
             \A k \in 1 .. n + 1 : \A j \in 1 .. n : ms[k] = ls[j] => g[k] = f[j]
      PROVE  Total(g, n + 1) = Total(f, n) + g[p]
  <2>1. ASSUME NEW k \in 1 .. n + 1 PROVE (k < p => g[k] = f[k]) /\ (p < k => g[k] = f[k - 1])
    <3>1. CASE k < p
      <4>1. k \in 1 .. n /\ ms[k] = ls[k]
        BY <1>2, <1>3, <1>4, <3>1
      <4>2. g[k] = f[k]
        BY ONLY <1>8, <4>1
      <4> QED  BY <1>2, <1>3, <3>1, <4>2
    <3>2. CASE p < k
      <4>1. k - 1 \in 1 .. n /\ ms[k] = ls[k - 1]
        BY <1>2, <1>3, <1>4, <3>2
      <4>2. g[k] = f[k - 1]
        BY ONLY <1>8, <4>1
      <4> QED  BY <1>2, <1>3, <3>2, <4>2
    <3> QED  BY <3>1, <3>2
  <2>2. n \in Nat /\ p \in 1 .. n + 1 /\ g[p] \in Int
    BY <1>2, <1>3, <1>8
  <2>3. \A k \in 1 .. n : f[k] \in Int
    BY <1>8
  <2>4. \A k \in 1 .. n + 1 : /\ k < p => g[k] = f[k]
                              /\ p < k => g[k] = f[k - 1]
    BY ONLY <2>1
  <2>5. PutIn(n, f, g, p)
    BY ONLY <2>2, <2>3, <2>4 DEF PutIn
  <2> QED  BY ONLY <2>5, TotalWith
<1>9. Held(ms) = Held(ls) + l.rem
  <2>1. PICK f, g : f = Rem(ls) /\ g = Rem(ms)
    OBVIOUS
  <2>2. \A k \in 1 .. n : f[k] = ls[k].rem /\ f[k] \in Nat
    BY <1>1, <2>1, LotTotals
  <2>3. \A k \in 1 .. n + 1 : g[k] = ms[k].rem /\ g[k] \in Nat
    BY ONLY <1>4, <2>1, LotTotals
  <2>4. \A k \in 1 .. n + 1 : \A j \in 1 .. n : ms[k] = ls[j] => g[k] = f[j]
    BY ONLY <2>2, <2>3
  <2>5. /\ \A k \in 1 .. n : f[k] \in Int
        /\ \A k \in 1 .. n + 1 : g[k] \in Int
    BY ONLY <2>2, <2>3
  <2>6. Total(g, n + 1) = Total(f, n) + g[p]
    BY ONLY <1>8, <2>4, <2>5
  <2>7. g[p] = l.rem
    BY <1>3, <1>4, <2>3
  <2>8. Held(ms) = Total(g, n + 1) /\ Held(ls) = Total(f, n)
    BY <1>1, <1>4, <2>1, LotTotals DEF Held, Rem
  <2> QED  BY <2>6, <2>7, <2>8
<1>10. Worth(ms) = Worth(ls) + Gross(l.cpu, l.rem)
  <2>1. PICK f, g : f = LotWorth(ls) /\ g = LotWorth(ms)
    OBVIOUS
  <2>2. \A k \in 1 .. n : f[k] = Gross(ls[k].cpu, ls[k].rem) /\ f[k] \in Nat
    BY <1>1, <2>1, LotTotals
  <2>3. \A k \in 1 .. n + 1 : g[k] = Gross(ms[k].cpu, ms[k].rem) /\ g[k] \in Nat
    BY ONLY <1>4, <2>1, LotTotals
  <2>4. \A k \in 1 .. n + 1 : \A j \in 1 .. n : ms[k] = ls[j] => g[k] = f[j]
    BY ONLY <2>2, <2>3
  <2>5. /\ \A k \in 1 .. n : f[k] \in Int
        /\ \A k \in 1 .. n + 1 : g[k] \in Int
    BY ONLY <2>2, <2>3
  <2>6. Total(g, n + 1) = Total(f, n) + g[p]
    BY ONLY <1>8, <2>4, <2>5
  <2>7. g[p] = Gross(l.cpu, l.rem)
    BY <1>3, <1>4, <2>3
  <2>8. Worth(ms) = Total(g, n + 1) /\ Worth(ls) = Total(f, n)
    BY <1>1, <1>4, <2>1, LotTotals DEF Held, Rem
  <2> QED  BY <2>6, <2>7, <2>8
<1>11. Rounding(ms) = Rounding(ls) + (1 + l.qty \div PriceUnit)
  <2>1. PICK f, g : f = LotRounding(ls) /\ g = LotRounding(ms)
    OBVIOUS
  <2>2. \A k \in 1 .. n : f[k] = 1 + ls[k].qty \div PriceUnit /\ f[k] \in Nat
    BY <1>1, <2>1, LotTotals
  <2>3. \A k \in 1 .. n + 1 : g[k] = 1 + ms[k].qty \div PriceUnit /\ g[k] \in Nat
    BY ONLY <1>4, <2>1, LotTotals
  <2>4. \A k \in 1 .. n + 1 : \A j \in 1 .. n : ms[k] = ls[j] => g[k] = f[j]
    BY ONLY <2>2, <2>3
  <2>5. /\ \A k \in 1 .. n : f[k] \in Int
        /\ \A k \in 1 .. n + 1 : g[k] \in Int
    BY ONLY <2>2, <2>3
  <2>6. Total(g, n + 1) = Total(f, n) + g[p]
    BY ONLY <1>8, <2>4, <2>5
  <2>7. g[p] = 1 + l.qty \div PriceUnit
    BY <1>3, <1>4, <2>3
  <2>8. Rounding(ms) = Total(g, n + 1) /\ Rounding(ls) = Total(f, n)
    BY <1>1, <1>4, <2>1, LotTotals DEF Held, Rem
  <2> QED  BY <2>6, <2>7, <2>8
<1> QED  BY <1>1, <1>4, <1>6, <1>7, <1>9, <1>10, <1>11 DEF Joined

-----------------------------------------------------------------------------
(* The book of a FIFO account that stands for the rows S *)

BuyRows(rs, S) == {i \in S : rs[i].type = "buy"}
LotsOf(ls, rs, S) ==
    /\ InLine(ls)
    /\ Len(ls) = Cardinality(BuyRows(rs, S))
    /\ \A k \in 1 .. Len(ls) :
         /\ ls[k].tx \in BuyRows(rs, S) /\ ls[k].date = rs[ls[k].tx].date
         /\ ls[k].qty = rs[ls[k].tx].qty /\ ls[k].rem <= ls[k].qty
Near(b) == b.cost - Worth(b.lots) \in - Rounding(b.lots) .. Rounding(b.lots)
FifoGood(b, rs, S) ==
    b \in Book /\ LotsOf(b.lots, rs, S) /\ Held(b.lots) = b.qty /\ Near(b)

\* rt is rs with the row i, new to S.
Adds(rs, S, i, rt) ==
    /\ S \in SUBSET TradeId /\ i \in TradeId /\ i \notin S
    /\ rt[i] \in Trade /\ \A j \in S : rt[j] = rs[j]

LEMMA BookTypes ==
    ASSUME NEW b \in Book
    PROVE  b.qty \in Nat /\ b.cost \in Nat /\ b.net \in Nat /\ b.value \in Int /\ b.lots \in Seq(Lot)
  BY DEF Book

LEMMA TradeTypes ==
    ASSUME NEW r \in Trade
    PROVE  /\ r.qty \in Nat \ {0} /\ r.price \in Nat \ {0} /\ r.amount \in Nat \ {0}
           /\ r.fee \in Nat /\ r.date \in Nat /\ r.type \in {"buy", "sell"} /\ r.own \in BOOLEAN
  BY DEF Trade

LEMMA RowsAreFinite ==
    ASSUME NEW rs, NEW S \in SUBSET TradeId
    PROVE  IsFiniteSet(S) /\ IsFiniteSet(BuyRows(rs, S)) /\ Cardinality(S) \in Nat
<1>1. IsFiniteSet(TradeId)
  BY FS_Interval, PositionConstants DEF TradeId
<1>2. IsFiniteSet(S)
  BY <1>1, FS_Subset
<1>3. BuyRows(rs, S) \subseteq S
  BY DEF BuyRows
<1> QED  BY <1>2, <1>3, FS_Subset, FS_CardinalityType

LEMMA BuysMore ==
    ASSUME NEW rs, NEW rt, NEW S, NEW i, Adds(rs, S, i, rt)
    PROVE  /\ rt[i].type = "buy" => /\ BuyRows(rt, S \cup {i}) = BuyRows(rs, S) \cup {i}
                                    /\ Cardinality(BuyRows(rt, S \cup {i})) = Cardinality(BuyRows(rs, S)) + 1
           /\ rt[i].type = "sell" => BuyRows(rt, S \cup {i}) = BuyRows(rs, S)
<1>1. S \in SUBSET TradeId /\ i \notin S /\ \A j \in S : rt[j] = rs[j]
  BY DEF Adds
<1>2. rt[i].type = "buy" => BuyRows(rt, S \cup {i}) = BuyRows(rs, S) \cup {i}
  BY <1>1 DEF BuyRows
<1>3. rt[i].type = "sell" => BuyRows(rt, S \cup {i}) = BuyRows(rs, S)
  BY <1>1 DEF BuyRows
<1>4. IsFiniteSet(BuyRows(rs, S)) /\ i \notin BuyRows(rs, S)
  BY <1>1, RowsAreFinite DEF BuyRows
<1>5. Cardinality(BuyRows(rs, S) \cup {i}) = Cardinality(BuyRows(rs, S)) + 1
  BY <1>4, FS_AddElement
<1> QED  BY <1>2, <1>3, <1>5

LEMMA NewLotIsLot ==
    ASSUME NEW i \in TradeId, NEW r \in Trade
    PROVE  /\ NewLot(i, r) \in Lot
           /\ NewLot(i, r).tx = i /\ NewLot(i, r).date = r.date /\ NewLot(i, r).qty = r.qty
           /\ NewLot(i, r).rem = r.qty /\ NewLot(i, r).cpu = PerUnit(r.amount + r.fee, r.qty)
<1>1. r.qty \in Nat \ {0} /\ r.amount + r.fee \in Nat /\ r.date \in Nat
  BY TradeTypes
<1>2. PerUnit(r.amount + r.fee, r.qty) \in Nat
  BY <1>1, BuyRounds
<1> QED  BY <1>1, <1>2 DEF NewLot, Lot

LEMMA BuyGood ==
    ASSUME NEW b, NEW rs, NEW rt, NEW S, NEW i, Adds(rs, S, i, rt), FifoGood(b, rs, S),
           rt[i].type = "buy"
    PROVE  FifoGood(Bought("fifo", b, i, rt[i], rt[i].amount + rt[i].fee), rt, S \cup {i})
<1>1. PICK r, l, ls, ms, c, m : /\ r = rt[i] /\ l = NewLot(i, r) /\ ls = b.lots
                             /\ ms = InsertAt(ls, Place(ls, l), l)
                             /\ m = r.amount + r.fee
                             /\ c = Bought("fifo", b, i, r, m)
  OBVIOUS
<1>2. i \in TradeId /\ r \in Trade /\ r.type = "buy" /\ \A j \in S : rt[j] = rs[j]
  BY <1>1 DEF Adds
<1>3. /\ l \in Lot /\ l.tx = i /\ l.date = r.date /\ l.qty = r.qty /\ l.rem = r.qty
      /\ l.cpu = PerUnit(m, r.qty)
  BY <1>1, <1>2, NewLotIsLot
<1>4. /\ r.qty \in Nat \ {0} /\ r.price \in Nat /\ m \in Nat
  BY <1>1, <1>2, TradeTypes
<1>5. /\ b \in Book /\ LotsOf(ls, rs, S) /\ Held(ls) = b.qty
      /\ b.cost - Worth(ls) \in - Rounding(ls) .. Rounding(ls)
  BY <1>1 DEF FifoGood, Near
<1>6. b.qty \in Nat /\ b.cost \in Nat /\ ls \in Seq(Lot)
  BY <1>1, <1>5, BookTypes
<1>7. /\ InLine(ls) /\ Len(ls) = Cardinality(BuyRows(rs, S))
      /\ \A k \in 1 .. Len(ls) :
           /\ ls[k].tx \in BuyRows(rs, S) /\ ls[k].date = rs[ls[k].tx].date
           /\ ls[k].qty = rs[ls[k].tx].qty /\ ls[k].rem <= ls[k].qty
  BY <1>5 DEF LotsOf
<1>8. /\ ms \in Seq(Lot) /\ Len(ms) = Len(ls) + 1 /\ InLine(ms)
      /\ \A k \in 1 .. Len(ms) : ms[k] = l \/ \E j \in 1 .. Len(ls) : ms[k] = ls[j]
      /\ Held(ms) = Held(ls) + l.rem
      /\ Worth(ms) = Worth(ls) + Gross(l.cpu, l.rem)
      /\ Rounding(ms) = Rounding(ls) + (1 + l.qty \div PriceUnit)
  <2>1. ms = InsertAt(ls, Place(ls, l), l)
    BY <1>1
  <2>2. Joined(ls, l, ms)
    BY ONLY <1>3, <1>6, <1>7, <2>1, InsertKeeps
  <2> QED  BY <2>2 DEF Joined
<1>9. c = [b EXCEPT !.lots = ms, !.qty = @ + r.qty, !.cost = @ + m, !.net = r.price]
  BY <1>1 DEF Bought, WithLot
<1>10. /\ c \in Book /\ c.lots = ms /\ c.qty = b.qty + r.qty /\ c.cost = b.cost + m
  <2>1. PICK x, y, z : x = b.qty + r.qty /\ y = b.cost + m /\ z = r.price
    OBVIOUS
  <2>2. x \in Nat /\ y \in Nat /\ z \in Nat
    BY <1>4, <1>6, <2>1
  <2>3. c = [b EXCEPT !.lots = ms, !.qty = x, !.cost = y, !.net = z]
    BY <1>9, <2>1
  <2>4. ms \in Seq(Lot) /\ b \in Book
    BY <1>5, <1>8
  <2>5. c \in Book /\ c.lots = ms /\ c.qty = x /\ c.cost = y
    BY ONLY <2>2, <2>3, <2>4 DEF Book
  <2> QED  BY <2>1, <2>5
<1>11. /\ BuyRows(rt, S \cup {i}) = BuyRows(rs, S) \cup {i}
       /\ Cardinality(BuyRows(rt, S \cup {i})) = Cardinality(BuyRows(rs, S)) + 1
  BY <1>1, <1>2, BuysMore
<1>12. LotsOf(ms, rt, S \cup {i})
  <2>1. ASSUME NEW k \in 1 .. Len(ms)
        PROVE  /\ ms[k].tx \in BuyRows(rt, S \cup {i}) /\ ms[k].date = rt[ms[k].tx].date
               /\ ms[k].qty = rt[ms[k].tx].qty /\ ms[k].rem <= ms[k].qty
    <3>1. CASE ms[k] = l
      <4>1. l.tx \in BuyRows(rt, S \cup {i}) /\ rt[l.tx] = r
        BY <1>1, <1>3, <1>11
      <4>2. l.date = rt[l.tx].date /\ l.qty = rt[l.tx].qty /\ l.rem <= l.qty
        BY ONLY <1>3, <1>4, <4>1
      <4> QED  BY ONLY <3>1, <4>1, <4>2
    <3>2. CASE \E j \in 1 .. Len(ls) : ms[k] = ls[j]
      <4>1. PICK j \in 1 .. Len(ls) : ms[k] = ls[j]
        BY <3>2
      <4>2. ls[j].tx \in S
        BY <1>7 DEF BuyRows
      <4>3. rt[ls[j].tx] = rs[ls[j].tx]
        BY <1>2, <4>2
      <4> QED  BY <1>7, <1>11, <4>1, <4>3
    <3> QED  BY <1>8, <3>1, <3>2
  <2>2. Len(ms) = Cardinality(BuyRows(rt, S \cup {i}))
    BY <1>7, <1>8, <1>11
  <2> QED  BY <1>8, <2>1, <2>2 DEF LotsOf
<1>13. Held(ms) = c.qty
  BY <1>3, <1>5, <1>8, <1>10
<1>14. Near(c)
  <2>1. PICK w, v, g, d, e : /\ w = Worth(ls) /\ v = Rounding(ls) /\ g = Gross(l.cpu, l.rem)
                             /\ d = 1 + l.qty \div PriceUnit /\ e = b.cost
    OBVIOUS
  <2>2. w \in Nat /\ v \in Nat
    BY <1>6, <2>1, LotTotals
  <2>3. m - g \in - d .. d
    BY <1>3, <1>4, <2>1, BuyRounds
  <2>4. d \in Int
    <3>1. PICK q, P : q = l.qty /\ P = PriceUnit
      OBVIOUS
    <3>2. q \in Nat /\ P \in Nat \ {0}
      BY <1>3, <1>4, <3>1, PositionConstants
    <3>3. q \div P \in Int
      BY ONLY <3>2
    <3> QED  BY <2>1, <3>1, <3>3
  <2>5. g \in Nat
    BY <1>3, <1>4, <2>1, BuyRounds, GrossIsNat
  <2>6. e \in Nat /\ e - w \in - v .. v
    BY <1>5, <1>6, <2>1
  <2>7. (e + m) - (w + g) \in - (v + d) .. v + d
    BY ONLY <1>4, <2>2, <2>3, <2>4, <2>5, <2>6
  <2> QED  BY <1>8, <1>10, <2>1, <2>7 DEF Near
<1> QED  BY <1>1, <1>10, <1>12, <1>13, <1>14 DEF FifoGood

\* Lots that hold nothing are worth nothing.
LEMMA NothingHeld ==
    ASSUME NEW ls \in Seq(Lot), Held(ls) = 0
    PROVE  Worth(ls) = 0
<1>1. Len(ls) \in Nat /\ \A k \in 1 .. Len(ls) : ls[k].cpu \in Nat
  BY LotTypes
<1>2. \A k \in 1 .. Len(ls) : LotWorth(ls)[k] = Gross(ls[k].cpu, ls[k].rem)
  BY LotTotals
<1> DEFINE S == {m \in Nat : m <= Len(ls) => Ahead(ls, Len(ls) - m) = 0}
<1>3. 0 \in S
  <2>1. Ahead(ls, Len(ls) - 0) = 0
    BY <1>1, LotTotals
  <2> QED  BY <2>1
<1>4. ASSUME NEW m \in S PROVE m + 1 \in S
  <2> SUFFICES ASSUME m + 1 <= Len(ls) PROVE Ahead(ls, Len(ls) - (m + 1)) = 0
    BY <1>4
  <2>1. PICK k : k = Len(ls) - (m + 1)
    OBVIOUS
  <2>2. k \in 0 .. Len(ls) /\ k < Len(ls) /\ k + 1 = Len(ls) - m
    BY <1>1, <1>4, <2>1
  <2>3. Ahead(ls, k) \in Nat /\ Ahead(ls, k + 1) = Ahead(ls, k) + ls[k + 1].rem /\ ls[k + 1].rem \in Nat
    BY <2>2, AheadGrows
  <2>4. Ahead(ls, k + 1) = 0
    BY <1>4, <2>2
  <2> QED  BY <2>1, <2>3, <2>4
<1>5. Nat \subseteq S
  <2>1. S \in SUBSET Nat
    OBVIOUS
  <2> HIDE DEF S
  <2> QED  BY <1>3, <1>4, <2>1, CountUp
<1>6. \A k \in 0 .. Len(ls) : Ahead(ls, k) = 0
  <2> TAKE k \in 0 .. Len(ls)
  <2>1. Len(ls) - k \in Nat /\ Len(ls) - k <= Len(ls) /\ Len(ls) - (Len(ls) - k) = k
    BY <1>1
  <2>2. Len(ls) - k \in S
    BY <1>5, <2>1
  <2> QED  BY <2>1, <2>2
<1>7. ASSUME NEW k \in 1 .. Len(ls) PROVE LotWorth(ls)[k] = 0
  <2>1. k - 1 \in 0 .. Len(ls) /\ k \in 0 .. Len(ls) /\ k - 1 < Len(ls) /\ (k - 1) + 1 = k
    BY <1>1
  <2>2. Ahead(ls, k) = Ahead(ls, k - 1) + ls[k].rem /\ ls[k].rem \in Nat
    BY <2>1, AheadGrows
  <2>3. ls[k].rem = 0
    BY <1>6, <2>1, <2>2
  <2> QED  BY <1>1, <1>2, <2>3, GrossOfNone
<1>8. PICK f : f = [k \in 1 .. Len(ls) |-> 0]
  OBVIOUS
<1>9. Total(f, Len(ls)) = 0
  BY <1>1, <1>8, TotalOfZeros
<1>10. \A k \in 1 .. Len(ls) : f[k] \in Int /\ LotWorth(ls)[k] = f[k]
  BY <1>7, <1>8
<1>11. Total(LotWorth(ls), Len(ls)) = Total(f, Len(ls))
  BY <1>1, <1>10, TotalSame
<1> QED  BY <1>9, <1>11, LotTotals

\* Lots that hold something allow for some rounding.
LEMMA HeldRounds ==
    ASSUME NEW ls \in Seq(Lot), Held(ls) # 0
    PROVE  Rounding(ls) >= 1
<1>1. PICK n, f : n = Len(ls) /\ f = LotRounding(ls)
  OBVIOUS
<1>2. n \in Nat /\ \A k \in 1 .. n : f[k] \in Nat \ {0}
  BY <1>1, LotTypes, LotTotals
<1>3. n # 0
  BY <1>1, LotTotals, TotalOfNone DEF Ahead
<1>4. n - 1 \in Nat /\ (n - 1) + 1 = n
  BY <1>2, <1>3
<1>5. \A k \in 1 .. (n - 1) + 1 : f[k] \in Int
  BY <1>2, <1>4
<1>6. Total(f, (n - 1) + 1) = Total(f, n - 1) + f[(n - 1) + 1]
  BY ONLY <1>4, <1>5, TotalStep
<1>7. Total(f, n - 1) \in Nat
  <2>1. \A k \in 1 .. n - 1 : f[k] \in Nat
    BY <1>2
  <2> QED  BY <1>4, <2>1, TotalIsNat
<1>8. f[n] \in Nat \ {0}
  BY <1>2, <1>3
<1>9. Total(f, n) >= 1
  BY <1>4, <1>6, <1>7, <1>8
<1> QED  BY <1>1, <1>9, LotTotals

LEMMA SellGood ==
    ASSUME NEW b, NEW rs, NEW rt, NEW S, NEW i, Adds(rs, S, i, rt), FifoGood(b, rs, S),
           rt[i].type = "sell", FifoCovers(b, rt[i])
    PROVE  FifoGood(SellFifo(b, rt[i]), rt, S \cup {i})
<1>1. PICK r, ls, ms, c, q : /\ r = rt[i] /\ ls = b.lots /\ q = r.qty /\ ms = Drawn(ls, q)
                             /\ c = SellFifo(b, r)
  OBVIOUS
<1>2. r \in Trade /\ \A j \in S : rt[j] = rs[j]
  BY <1>1 DEF Adds
<1>3. q \in Nat \ {0}
  BY <1>1, <1>2, TradeTypes
<1>5. b \in Book /\ LotsOf(ls, rs, S) /\ Held(ls) = b.qty /\ q <= Held(ls)
  BY <1>1 DEF FifoGood, FifoCovers
<1>6. b.qty \in Nat /\ b.cost \in Nat /\ ls \in Seq(Lot)
  BY <1>1, <1>5, BookTypes
<1>7. /\ InLine(ls) /\ Len(ls) = Cardinality(BuyRows(rs, S))
      /\ \A k \in 1 .. Len(ls) :
           /\ ls[k].tx \in BuyRows(rs, S) /\ ls[k].date = rs[ls[k].tx].date
           /\ ls[k].qty = rs[ls[k].tx].qty /\ ls[k].rem <= ls[k].qty
  BY <1>5 DEF LotsOf
<1>8. /\ ms \in Seq(Lot) /\ Len(ms) = Len(ls)
      /\ \A k \in 1 .. Len(ls) :
           /\ ms[k].tx = ls[k].tx /\ ms[k].date = ls[k].date /\ ms[k].qty = ls[k].qty
           /\ ms[k].cpu = ls[k].cpu /\ ms[k].rem = ls[k].rem - Taken(ls, q)[k]
  <2>1. q \in Nat /\ ls \in Seq(Lot)
    BY <1>3, <1>6
  <2>2. PICK ds : ds = Drawn(ls, q)
    OBVIOUS
  <2>3. /\ ds \in Seq(Lot) /\ Len(ds) = Len(ls)
        /\ \A k \in 1 .. Len(ls) :
             /\ ds[k].tx = ls[k].tx /\ ds[k].date = ls[k].date /\ ds[k].qty = ls[k].qty
             /\ ds[k].cpu = ls[k].cpu /\ ds[k].rem = ls[k].rem - Taken(ls, q)[k]
    BY ONLY <2>1, <2>2, DrawnLots
  <2>4. ms = ds
    BY <1>1, <2>2
  <2> QED  BY ONLY <2>3, <2>4
<1>9. Held(ms) = Held(ls) - q /\ Held(ls) \in Nat
  BY <1>1, <1>3, <1>5, <1>6, DrawnHeld, LotTotals
<1>10. PICK left, sum : /\ left = Held(ls) - q
                        /\ sum = IF left = 0 THEN 0 ELSE Floor0(Worth(ls) - Sold(ls, q))
  OBVIOUS
<1>11. /\ Sold(ls, q) \in Nat /\ Worth(ls) \in Nat /\ Worth(ms) \in Nat /\ Rounding(ms) \in Nat
       /\ Worth(ls) - Sold(ls, q) - Worth(ms) \in -1 .. 1
  BY <1>1, <1>3, <1>6, <1>8, DrawnWorth, LotTotals
<1>12. left \in Nat /\ sum \in Nat
  BY <1>3, <1>5, <1>9, <1>10, <1>11 DEF Floor0
<1>13. c = [b EXCEPT !.qty = left, !.cost = sum, !.lots = ms]
  BY <1>1, <1>10 DEF SellFifo
<1>14. c \in Book /\ c.lots = ms /\ c.qty = left /\ c.cost = sum
  BY <1>5, <1>8, <1>12, <1>13 DEF Book
<1>15. BuyRows(rt, S \cup {i}) = BuyRows(rs, S)
  BY <1>1, BuysMore
<1>16. LotsOf(ms, rt, S \cup {i})
  <2>1. ASSUME NEW k \in 1 .. Len(ms)
        PROVE  /\ ms[k].tx \in BuyRows(rt, S \cup {i}) /\ ms[k].date = rt[ms[k].tx].date
               /\ ms[k].qty = rt[ms[k].tx].qty /\ ms[k].rem <= ms[k].qty
    <3>1. k \in 1 .. Len(ls)
      BY <1>8
    <3>2. ls[k].tx \in S /\ rt[ls[k].tx] = rs[ls[k].tx]
      BY <1>2, <1>7, <3>1 DEF BuyRows
    <3>3. ls[k].rem \in Nat /\ ls[k].qty \in Nat /\ Taken(ls, q)[k] \in 0 .. ls[k].rem
      BY <1>3, <1>6, <3>1, LotTypes, TakenIs
    <3>4. ms[k].rem <= ms[k].qty
      BY <1>7, <1>8, <3>1, <3>3
    <3> QED  BY <1>7, <1>8, <1>15, <3>1, <3>2, <3>4
  <2>2. InLine(ms)
    <3>1. DOMAIN ms = 1 .. Len(ls) /\ DOMAIN ls = 1 .. Len(ls)
      BY <1>6, <1>8, LotTypes
    <3> QED  BY <1>7, <1>8, <3>1 DEF InLine
  <2> QED  BY <1>7, <1>8, <1>15, <2>1, <2>2 DEF LotsOf
<1>17. Near(c)
  <2>1. CASE left = 0
    <3>1. Held(ms) = 0
      BY <1>9, <1>10, <2>1
    <3>2. Worth(ms) = 0
      BY <1>8, <3>1, NothingHeld
    <3>3. sum = 0 /\ 0 - 0 \in - Rounding(ms) .. Rounding(ms)
      BY <1>10, <1>11, <2>1
    <3> QED  BY <1>14, <3>2, <3>3 DEF Near
  <2>2. CASE left # 0
    <3>1. PICK w, v, s : w = Worth(ls) - Sold(ls, q) /\ v = Worth(ms) /\ s = Rounding(ms)
      OBVIOUS
    <3>2. w \in Int /\ v \in Nat /\ w - v \in -1 .. 1 /\ s \in Nat
      BY <1>11, <3>1
    <3>3. s >= 1
      BY <1>8, <1>9, <1>10, <2>2, <3>1, HeldRounds
    <3>4. sum = IF w > 0 THEN w ELSE 0
      BY <1>10, <2>2, <3>1 DEF Floor0
    <3>5. sum - v \in - s .. s
      BY ONLY <3>2, <3>3, <3>4
    <3> QED  BY <1>14, <3>1, <3>5 DEF Near
  <2> QED  BY <2>1, <2>2
<1> QED  BY <1>1, <1>9, <1>10, <1>14, <1>16, <1>17 DEF FifoGood

-----------------------------------------------------------------------------
(* The oldest lots first *)

OldestLots(ls) == \A j, k \in 1 .. Len(ls) : j < k /\ ls[k].rem < ls[k].qty => ls[j].rem = 0

LEMMA AheadMonotone ==
    ASSUME NEW ls \in Seq(Lot), NEW j \in 0 .. Len(ls), NEW k \in 0 .. Len(ls), j <= k
    PROVE  Ahead(ls, j) <= Ahead(ls, k)
<1>1. Len(ls) \in Nat /\ j \in Nat /\ k \in Nat
  BY LotTypes
<1> DEFINE S == {m \in Nat : j + m <= Len(ls) => Ahead(ls, j) <= Ahead(ls, j + m)}
<1>2. 0 \in S
  <2>1. Ahead(ls, j) \in Nat /\ j + 0 = j
    BY <1>1, AheadGrows
  <2> QED  BY <2>1
<1>3. ASSUME NEW m \in S PROVE m + 1 \in S
  <2> SUFFICES ASSUME j + (m + 1) <= Len(ls) PROVE Ahead(ls, j) <= Ahead(ls, j + (m + 1))
    BY <1>3
  <2>1. PICK i : i = j + m
    OBVIOUS
  <2>2. i \in 0 .. Len(ls) /\ i < Len(ls) /\ i + 1 = j + (m + 1) /\ j + m <= Len(ls)
    BY <1>1, <1>3, <2>1
  <2>3. Ahead(ls, i) \in Nat /\ Ahead(ls, i + 1) = Ahead(ls, i) + ls[i + 1].rem /\ ls[i + 1].rem \in Nat
    BY <2>2, AheadGrows
  <2>4. Ahead(ls, j) <= Ahead(ls, i)
    BY <1>3, <2>1, <2>2
  <2>5. Ahead(ls, j) \in Nat
    BY AheadGrows
  <2> QED  BY <2>2, <2>3, <2>4, <2>5
<1>4. Nat \subseteq S
  <2>1. S \in SUBSET Nat
    OBVIOUS
  <2> HIDE DEF S
  <2> QED  BY <1>2, <1>3, <2>1, CountUp
<1>5. k - j \in Nat /\ j + (k - j) = k /\ k <= Len(ls)
  BY <1>1
<1>6. k - j \in S
  BY <1>4, <1>5
<1> QED  BY <1>5, <1>6

LEMMA OldestSell ==
    ASSUME NEW ls \in Seq(Lot), NEW q \in Nat, OldestLots(ls)
    PROVE  OldestLots(Drawn(ls, q))
<1>1. PICK ms : ms = Drawn(ls, q)
  OBVIOUS
<1>2. /\ ms \in Seq(Lot) /\ Len(ms) = Len(ls) /\ Len(ls) \in Nat
      /\ \A k \in 1 .. Len(ls) : ms[k].qty = ls[k].qty /\ ms[k].rem = ls[k].rem - Taken(ls, q)[k]
  BY <1>1, LotTypes, DrawnLots
<1>3. SUFFICES ASSUME NEW j \in 1 .. Len(ls), NEW k \in 1 .. Len(ls), j < k, ms[k].rem < ms[k].qty
               PROVE  ms[j].rem = 0
  BY <1>1, <1>2 DEF OldestLots
<1>4. /\ ls[j].rem \in Nat /\ ls[k].rem \in Nat /\ ls[k].qty \in Nat
      /\ Taken(ls, q)[j] \in 0 .. ls[j].rem /\ Taken(ls, q)[k] \in 0 .. ls[k].rem
  BY LotTypes, TakenIs
<1>5. CASE Taken(ls, q)[k] = 0
  <2>1. ls[k].rem < ls[k].qty
    BY <1>2, <1>3, <1>4, <1>5
  <2>2. ls[j].rem = 0
    BY <1>3, <2>1 DEF OldestLots
  <2> QED  BY <1>2, <1>4, <2>2
<1>6. CASE Taken(ls, q)[k] # 0
  <2>1. j \in 0 .. Len(ls) /\ k - 1 \in 0 .. Len(ls) /\ j <= k - 1
    BY <1>2, <1>3
  <2>2. Ahead(ls, j) <= Ahead(ls, k - 1) /\ Ahead(ls, j) \in Nat /\ Ahead(ls, k - 1) \in Nat
    BY <2>1, AheadMonotone, AheadGrows
  <2>3. ~ (q <= Ahead(ls, k - 1))
    BY <1>6, TakenIs
  <2>4. ~ (Ahead(ls, j) <= q) => FALSE
    <3>1. CASE Ahead(ls, k - 1) <= q
      BY <2>2, <3>1
    <3>2. CASE ~ (Ahead(ls, k - 1) <= q)
      BY <2>2, <2>3, <3>2
    <3> QED  BY <3>1, <3>2
  <2>5. Taken(ls, q)[j] = ls[j].rem
    BY <2>4, TakenIs
  <2> QED  BY <1>2, <1>4, <2>5
<1> QED  BY <1>5, <1>6

\* A lot that is no older than the others goes to the end.
LEMMA OldestBuy ==
    ASSUME NEW ls \in Seq(Lot), InLine(ls), OldestLots(ls), NEW l \in Lot, l.rem = l.qty,
           \A k \in 1 .. Len(ls) : ls[k].date <= l.date
    PROVE  OldestLots(InsertAt(ls, Place(ls, l), l))
<1>1. PICK n, p, ms : n = Len(ls) /\ p = Place(ls, l) /\ ms = InsertAt(ls, p, l)
  OBVIOUS
<1>2. n \in Nat
  BY <1>1, LotTypes
<1>3. p \in 1 .. n + 1 /\ \A k \in 1 .. n : k < p <=> ls[k].date <= l.date
  BY <1>1, PlaceFound
<1>4. p = n + 1
  <2>1. p \in 1 .. n => p < p
    BY <1>1, <1>3
  <2> QED  BY <1>2, <1>3, <2>1
<1>5. p \in 1 .. Len(ls) + 1
  BY <1>1, <1>3
<1>6. /\ Len(ms) = n + 1 /\ ms[p] = l /\ \A k \in 1 .. n + 1 : k < p => ms[k] = ls[k]
  <2>1. /\ Len(ms) = Len(ls) + 1 /\ ms[p] = l
        /\ \A k \in 1 .. Len(ls) + 1 : /\ k < p => ms[k] = ls[k]
                                       /\ p < k => ms[k] = ls[k - 1]
    <3>1. Inserted(ls, p, l, InsertAt(ls, p, l))
      BY <1>5, InsertIs
    <3>2. Inserted(ls, p, l, ms)
      BY <1>1, <3>1
    <3> QED  BY <3>2 DEF Inserted
  <2> QED  BY <1>1, <2>1
<1>7. l.qty \in Nat
  BY DEF Lot
<1>8. ASSUME NEW j \in 1 .. n + 1, NEW k \in 1 .. n + 1, j < k, ms[k].rem < ms[k].qty
      PROVE  ms[j].rem = 0
  <2>1. k # p
    BY <1>6, <1>7, <1>8
  <2>2. j \in 1 .. n /\ k \in 1 .. n /\ j < p /\ k < p
    BY <1>2, <1>4, <1>8, <2>1
  <2>3. ms[j] = ls[j] /\ ms[k] = ls[k]
    BY <1>6, <2>2
  <2> QED  BY <1>1, <1>8, <2>2, <2>3 DEF OldestLots
<1> QED  BY <1>1, <1>6, <1>8 DEF OldestLots

-----------------------------------------------------------------------------
(* The replay, row by row *)

RowsOK(rs) == rs \in [TradeId -> Trade \cup {Absent}]

LEMMA StandingRows ==
    ASSUME NEW rs, RowsOK(rs)
    PROVE  /\ Standing(rs) \in SUBSET TradeId
           /\ \A i \in Standing(rs) : rs[i] \in Trade /\ rs[i].date \in Nat
<1>1. Standing(rs) \in SUBSET TradeId /\ \A i \in Standing(rs) : rs[i] \in Trade
  BY DEF RowsOK, Standing
<1> QED  BY <1>1, TradeTypes

LEMMA LastFound ==
    ASSUME NEW rs, RowsOK(rs), NEW T \in SUBSET Standing(rs), T # {}
    PROVE  /\ LastTrade(rs, T) \in T
           /\ \A j \in T : \/ rs[j].date < rs[LastTrade(rs, T)].date
                           \/ rs[j].date = rs[LastTrade(rs, T)].date /\ j <= LastTrade(rs, T)
<1> DEFINE IsLast(U, i) == i \in U /\ \A j \in U : rs[j].date < rs[i].date \/ (rs[j].date = rs[i].date /\ j <= i)
<1> DEFINE S == {n \in Nat : \A U \in SUBSET Standing(rs) :
                   U # {} /\ (\A i \in U : i <= n) => \E i : IsLast(U, i)}
<1>1. \A i \in Standing(rs) : i \in Nat /\ i >= 1 /\ i <= MaxRows /\ rs[i].date \in Nat
  BY StandingRows, PositionConstants DEF TradeId
<1>2. 0 \in S
  BY <1>1
<1>3. ASSUME NEW n \in S PROVE n + 1 \in S
  <2> SUFFICES ASSUME NEW U \in SUBSET Standing(rs), U # {}, \A i \in U : i <= n + 1
               PROVE  \E i : IsLast(U, i)
    BY <1>3
  <2>0. n \in Nat
    BY <1>3
  <2>1. CASE n + 1 \notin U
    <3>1. \A i \in U : i <= n
      BY <1>1, <2>0, <2>1
    <3> QED  BY <1>3, <3>1
  <2>2. CASE n + 1 \in U
    <3>1. CASE U = {n + 1}
      <4>1. IsLast(U, n + 1)
        BY <2>0, <3>1
      <4> QED  BY <4>1
    <3>2. CASE U # {n + 1}
      <4>1. PICK V : V = U \ {n + 1}
        OBVIOUS
      <4>2. V \in SUBSET Standing(rs) /\ V # {} /\ \A i \in V : i <= n
        BY <1>1, <2>0, <2>2, <3>2, <4>1
      <4>3. PICK i : IsLast(V, i)
        BY <1>3, <4>2
      <4>4. i \in Standing(rs) /\ n + 1 \in Standing(rs)
        BY <2>2, <4>2, <4>3
      <4>5. CASE rs[n + 1].date >= rs[i].date
        <5>1. IsLast(U, n + 1)
          BY <1>1, <2>0, <2>2, <4>1, <4>2, <4>3, <4>4, <4>5
        <5> QED  BY <5>1
      <4>6. CASE ~ (rs[n + 1].date >= rs[i].date)
        <5>1. rs[n + 1].date < rs[i].date
          BY <1>1, <4>4, <4>6
        <5>2. IsLast(U, i)
          BY <4>1, <4>3, <5>1
        <5> QED  BY <5>2
      <4> QED  BY <4>5, <4>6
    <3> QED  BY <3>1, <3>2
  <2> QED  BY <2>1, <2>2
<1>4. Nat \subseteq S
  <2>1. S \in SUBSET Nat
    OBVIOUS
  <2> HIDE DEF S
  <2> QED  BY <1>2, <1>3, <2>1, CountUp
<1>5. \E i : IsLast(T, i)
  <2>1. MaxRows \in S /\ \A i \in T : i <= MaxRows
    BY <1>1, <1>4, PositionConstants
  <2> QED  BY <2>1
<1>6. \E i \in T : \A j \in T : rs[j].date < rs[i].date \/ (rs[j].date = rs[i].date /\ j <= i)
  BY <1>5
<1> QED  BY <1>6 DEF LastTrade

LastLeaves(rs, T) == T \ {LastTrade(rs, T)}

LEMMA LastTaken ==
    ASSUME NEW rs, RowsOK(rs), NEW T \in SUBSET Standing(rs), T # {}
    PROVE  /\ LastTrade(rs, T) \in T /\ LastTrade(rs, T) \in TradeId
           /\ LastLeaves(rs, T) \in SUBSET Standing(rs)
           /\ Cardinality(T) \in Nat /\ Cardinality(T) # 0
           /\ Cardinality(LastLeaves(rs, T)) = Cardinality(T) - 1
<1>1. LastTrade(rs, T) \in T /\ T \in SUBSET TradeId
  BY LastFound, StandingRows
<1>2. IsFiniteSet(T) /\ Cardinality(T) \in Nat
  BY <1>1, RowsAreFinite
<1>3. Cardinality(T) # 0
  BY <1>2, FS_EmptySet
<1>4. Cardinality(LastLeaves(rs, T)) = Cardinality(T) - 1
  BY <1>1, <1>2, FS_RemoveElement DEF LastLeaves
<1> QED  BY <1>1, <1>2, <1>3, <1>4 DEF LastLeaves

\* Induction for sets of rows, the last row first.
LEMMA RowByRow ==
    ASSUME NEW rs, RowsOK(rs), NEW G, {} \in G,
           \A T \in SUBSET Standing(rs) : T # {} /\ LastLeaves(rs, T) \in G => T \in G
    PROVE  SUBSET Standing(rs) \subseteq G
<1> DEFINE S == {n \in Nat : \A T \in SUBSET Standing(rs) : Cardinality(T) <= n => T \in G}
<1>1. 0 \in S
  <2> SUFFICES ASSUME NEW T \in SUBSET Standing(rs), Cardinality(T) <= 0 PROVE T \in G
    OBVIOUS
  <2>1. T = {}
    BY LastTaken
  <2> QED  BY <2>1
<1>2. ASSUME NEW n \in S PROVE n + 1 \in S
  <2> SUFFICES ASSUME NEW T \in SUBSET Standing(rs), Cardinality(T) <= n + 1 PROVE T \in G
    BY <1>2
  <2>1. CASE T = {}
    BY <2>1
  <2>2. CASE T # {}
    <3>1. PICK U : U = LastLeaves(rs, T)
      OBVIOUS
    <3>2. U \in SUBSET Standing(rs) /\ Cardinality(U) <= n
      BY <1>2, <2>2, <3>1, LastTaken
    <3>3. U \in G
      BY <1>2, <3>2
    <3> QED  BY <2>2, <3>1, <3>3
  <2> QED  BY <2>1, <2>2
<1>3. Nat \subseteq S
  <2>1. S \in SUBSET Nat
    OBVIOUS
  <2> HIDE DEF S
  <2> QED  BY <1>1, <1>2, <2>1, CountUp
<1>4. ASSUME NEW T \in SUBSET Standing(rs) PROVE T \in G
  <2>1. Cardinality(T) \in Nat
    BY StandingRows, RowsAreFinite
  <2>2. Cardinality(T) \in S
    BY <1>3, <2>1
  <2> QED  BY <2>1, <2>2
<1> QED  BY <1>4

-----------------------------------------------------------------------------
(* The recursive function of Replayed is there. *)

EmptyBook == [qty |-> 0, cost |-> 0, net |-> 0, value |-> 0, lots |-> <<>>]

\* What it takes from the values f of the smaller sets.
ReplayFrom(m, rs, f, T) ==
    IF T = {} THEN EmptyBook
    ELSE ReplayTrade(m, f[LastLeaves(rs, T)], LastTrade(rs, T), rs[LastTrade(rs, T)])
Replays(m, rs, f) == f = [T \in SUBSET Standing(rs) |-> ReplayFrom(m, rs, f, T)]

LEMMA ReplayExists ==
    ASSUME NEW rs, RowsOK(rs), NEW m
    PROVE  \E f : Replays(m, rs, f)
<1> DEFINE D == SUBSET Standing(rs)
           Upto(f, n) == /\ f = [T \in D |-> f[T]]
                         /\ \A T \in D : Cardinality(T) <= n => f[T] = ReplayFrom(m, rs, f, T)
           S == {n \in Nat : \E f : Upto(f, n)}
<1>1. 0 \in S
  <2>1. PICK f : f = [T \in D |-> EmptyBook]
    OBVIOUS
  <2>2. ASSUME NEW T \in D, Cardinality(T) <= 0 PROVE f[T] = ReplayFrom(m, rs, f, T)
    <3>1. T = {}
      BY <2>2, LastTaken
    <3> QED  BY <2>1, <3>1 DEF ReplayFrom
  <2>3. f = [T \in D |-> f[T]]
    BY <2>1
  <2> QED  BY <2>2, <2>3
<1>2. ASSUME NEW n \in S PROVE n + 1 \in S
  <2>0. n \in Nat
    BY <1>2
  <2>1. PICK f : Upto(f, n)
    BY <1>2
  <2>2. PICK g : g = [T \in D |-> ReplayFrom(m, rs, f, T)]
    OBVIOUS
  <2>3. ASSUME NEW T \in D, Cardinality(T) <= n + 1 PROVE g[T] = ReplayFrom(m, rs, g, T)
    <3>1. CASE T = {}
      <4>1. ReplayFrom(m, rs, f, T) = EmptyBook /\ ReplayFrom(m, rs, g, T) = EmptyBook
        BY <3>1 DEF ReplayFrom
      <4> QED  BY <2>2, <2>3, <4>1
    <3>2. CASE T # {}
      <4>1. PICK U : U = LastLeaves(rs, T)
        OBVIOUS
      <4>2. U \in D /\ Cardinality(U) <= n
        BY <2>0, <2>3, <3>2, <4>1, LastTaken
      <4>3. g[U] = f[U]
        BY <2>1, <2>2, <4>2
      <4>4. ReplayFrom(m, rs, g, T) = ReplayFrom(m, rs, f, T)
        BY <3>2, <4>1, <4>3 DEF ReplayFrom
      <4> QED  BY <2>2, <2>3, <4>4
    <3> QED  BY <3>1, <3>2
  <2>4. g = [T \in D |-> g[T]]
    BY <2>2
  <2>5. Upto(g, n + 1)
    BY <2>3, <2>4
  <2>6. \E h : Upto(h, n + 1)
    BY <2>5
  <2>7. n + 1 \in Nat
    BY <2>0
  <2> HIDE DEF Upto
  <2> QED  BY <2>6, <2>7
<1>3. Nat \subseteq S
  <2>1. S \in SUBSET Nat
    OBVIOUS
  <2> HIDE DEF S
  <2> QED  BY <1>1, <1>2, <2>1, CountUp
<1>4. PICK n : n = Cardinality(Standing(rs))
  OBVIOUS
<1>5. Standing(rs) \in SUBSET TradeId /\ IsFiniteSet(Standing(rs)) /\ n \in Nat
  BY <1>4, StandingRows, RowsAreFinite
<1>6. \A T \in D : Cardinality(T) <= n
  BY <1>4, <1>5, FS_Subset
<1>7. PICK f : Upto(f, n)
  BY <1>3, <1>5
<1>8. \A T \in D : f[T] = ReplayFrom(m, rs, f, T)
  BY <1>6, <1>7
<1>9. f = [T \in D |-> f[T]]
  BY <1>7
<1>10. f = [T \in D |-> ReplayFrom(m, rs, f, T)]
  BY <1>8, <1>9
<1> QED  BY <1>10 DEF Replays

LEMMA ReplayIs ==
    ASSUME NEW rs, RowsOK(rs), NEW m
    PROVE  \E f : /\ Replays(m, rs, f)
                  /\ \A S : Replayed(m, rs, S) = f[S]
<1> DEFINE P(f) == f = [T \in SUBSET Standing(rs) |->
                     IF T = {} THEN [qty |-> 0, cost |-> 0, net |-> 0, value |-> 0, lots |-> <<>>]
                     ELSE ReplayTrade(m, f[T \ {LastTrade(rs, T)}], LastTrade(rs, T), rs[LastTrade(rs, T)])]
<1>1. \A f : P(f) <=> Replays(m, rs, f)
  BY DEF Replays, ReplayFrom, EmptyBook, LastLeaves
<1>2. \A S : Replayed(m, rs, S) = (CHOOSE f : P(f))[S]
  BY DEF Replayed
<1>3. \E f : P(f)
  BY <1>1, ReplayExists
<1>4. P(CHOOSE f : P(f))
  BY <1>3
<1> QED  BY <1>1, <1>2, <1>4

LEMMA ReplayUnfolds ==
    ASSUME NEW rs, RowsOK(rs), NEW m, NEW T \in SUBSET Standing(rs)
    PROVE  /\ T = {} => Replayed(m, rs, T) = EmptyBook
           /\ T # {} => Replayed(m, rs, T) = ReplayTrade(m, Replayed(m, rs, LastLeaves(rs, T)),
                                               LastTrade(rs, T), rs[LastTrade(rs, T)])
<1>1. PICK f : Replays(m, rs, f) /\ \A S : Replayed(m, rs, S) = f[S]
  BY ReplayIs
<1>2. f[T] = ReplayFrom(m, rs, f, T)
  BY <1>1 DEF Replays
<1> QED  BY <1>1, <1>2 DEF ReplayFrom

\* The replay only looks at the rows it replays.
LEMMA SameLast ==
    ASSUME NEW rs, NEW rt, RowsOK(rs), RowsOK(rt), NEW T \in SUBSET Standing(rs), T # {},
           T \in SUBSET Standing(rt), \A i \in T : rt[i] = rs[i]
    PROVE  LastTrade(rt, T) = LastTrade(rs, T)
<1>1. PICK i : /\ i = LastTrade(rs, T) /\ i \in T
               /\ \A j \in T : rs[j].date < rs[i].date \/ (rs[j].date = rs[i].date /\ j <= i)
  BY LastFound
<1>2. PICK k : /\ k = LastTrade(rt, T) /\ k \in T
               /\ \A j \in T : rt[j].date < rt[k].date \/ (rt[j].date = rt[k].date /\ j <= k)
  BY LastFound
<1>3. rs[i].date \in Nat /\ rs[k].date \in Nat /\ rt[i] = rs[i] /\ rt[k] = rs[k] /\ i \in Nat /\ k \in Nat
  BY <1>1, <1>2, StandingRows DEF TradeId
<1>4. rs[k].date < rs[i].date \/ (rs[k].date = rs[i].date /\ k <= i)
  BY <1>1, <1>2
<1>5. rs[i].date < rs[k].date \/ (rs[i].date = rs[k].date /\ i <= k)
  BY <1>1, <1>2, <1>3
<1>6. i = k
  BY <1>3, <1>4, <1>5
<1> QED  BY <1>1, <1>2, <1>6

LEMMA ReplaySame ==
    ASSUME NEW rs, NEW rt, RowsOK(rs), RowsOK(rt), NEW m, NEW S \in SUBSET Standing(rs),
           S \in SUBSET Standing(rt), \A i \in S : rt[i] = rs[i]
    PROVE  Replayed(m, rt, S) = Replayed(m, rs, S)
<1> DEFINE G == {T \in SUBSET Standing(rs) : T \subseteq S => Replayed(m, rt, T) = Replayed(m, rs, T)}
<1>1. {} \in G
  BY ReplayUnfolds
<1>2. ASSUME NEW T \in SUBSET Standing(rs), T # {}, LastLeaves(rs, T) \in G PROVE T \in G
  <2> SUFFICES ASSUME T \subseteq S PROVE Replayed(m, rt, T) = Replayed(m, rs, T)
    OBVIOUS
  <2>1. T \in SUBSET Standing(rt) /\ \A i \in T : rt[i] = rs[i]
    OBVIOUS
  <2>2. PICK i, U : i = LastTrade(rs, T) /\ U = LastLeaves(rs, T)
    OBVIOUS
  <2>3. LastTrade(rt, T) = i
    BY <1>2, <2>1, <2>2, SameLast
  <2>4. LastLeaves(rt, T) = U
    BY <2>2, <2>3 DEF LastLeaves
  <2>5. i \in T /\ U \subseteq S
    BY <1>2, <2>2, LastTaken DEF LastLeaves
  <2>6. Replayed(m, rt, U) = Replayed(m, rs, U) /\ rt[i] = rs[i]
    BY <1>2, <2>1, <2>2, <2>5
  <2>7. Replayed(m, rs, T) = ReplayTrade(m, Replayed(m, rs, U), i, rs[i])
    BY <1>2, <2>2, ReplayUnfolds
  <2>8. Replayed(m, rt, T) = ReplayTrade(m, Replayed(m, rt, U), i, rt[i])
    BY <1>2, <2>1, <2>3, <2>4, ReplayUnfolds
  <2> QED  BY <2>6, <2>7, <2>8
<1>3. SUBSET Standing(rs) \subseteq G
  <2> HIDE DEF G
  <2> QED  BY <1>1, <1>2, RowByRow
<1> QED  BY <1>3

-----------------------------------------------------------------------------
(* What the replay of the rows leaves *)

LEMMA RowAdded ==
    ASSUME NEW rs, RowsOK(rs), NEW T \in SUBSET Standing(rs), T # {}
    PROVE  /\ Adds(rs, LastLeaves(rs, T), LastTrade(rs, T), rs)
           /\ LastLeaves(rs, T) \cup {LastTrade(rs, T)} = T
  BY LastTaken, StandingRows DEF LastLeaves, Adds

LEMMA SkipGood ==
    ASSUME NEW b, NEW rs, NEW rt, NEW S, NEW i, Adds(rs, S, i, rt), FifoGood(b, rs, S),
           rt[i].type = "sell"
    PROVE  FifoGood(b, rt, S \cup {i})
<1>1. BuyRows(rt, S \cup {i}) = BuyRows(rs, S) /\ \A j \in S : rt[j] = rs[j]
  BY BuysMore DEF Adds
<1>2. \A j \in BuyRows(rs, S) : rt[j] = rs[j]
  BY <1>1 DEF BuyRows
<1> QED  BY <1>1, <1>2 DEF FifoGood, LotsOf

LEMMA FifoSame ==
    ASSUME NEW b, NEW rs, NEW rt, NEW S, FifoGood(b, rs, S), \A i \in S : rt[i] = rs[i]
    PROVE  FifoGood(b, rt, S)
<1>1. BuyRows(rt, S) = BuyRows(rs, S) /\ \A j \in BuyRows(rs, S) : rt[j] = rs[j]
  BY DEF BuyRows
<1> QED  BY <1>1 DEF FifoGood, LotsOf

SameHoldings(b, c) == b.qty = c.qty /\ b.cost = c.cost /\ b.lots = c.lots

LEMMA FifoHoldings ==
    ASSUME NEW b, NEW c \in Book, NEW rs, NEW S, FifoGood(b, rs, S), SameHoldings(b, c)
    PROVE  FifoGood(c, rs, S)
  BY DEF FifoGood, Near, SameHoldings

LEMMA EmptyIsBook == EmptyBook \in Book /\ EmptyBook.lots = <<>> /\ EmptyBook.qty = 0 /\ EmptyBook.cost = 0
<1>1. <<>> \in Seq(Lot)
  BY EmptySeq
<1> QED  BY <1>1 DEF EmptyBook, Book

LEMMA EmptyGood == ASSUME NEW rs PROVE FifoGood(EmptyBook, rs, {}) /\ OldestLots(EmptyBook.lots)
<1>1. PICK ls : ls = EmptyBook.lots
  OBVIOUS
<1>2. ls \in Seq(Lot) /\ Len(ls) = 0
  BY <1>1, EmptyIsBook, EmptySeq
<1>3. Held(ls) = 0 /\ Worth(ls) = 0 /\ Rounding(ls) = 0
  BY <1>2, LotTotals, TotalOfNone DEF Ahead
<1>4. Near(EmptyBook)
  <2>1. 0 - 0 \in - 0 .. 0
    OBVIOUS
  <2> QED  BY <1>1, <1>3, <2>1, EmptyIsBook DEF Near
<1>5. BuyRows(rs, {}) = {} /\ Cardinality({}) = 0
  BY FS_EmptySet DEF BuyRows
<1>6. DOMAIN ls = 1 .. 0 /\ Len(ls) = 0
  BY <1>2, LotTypes
<1>7. InLine(ls)
  BY <1>6 DEF InLine
<1>8. LotsOf(ls, rs, {})
  BY <1>5, <1>6, <1>7 DEF LotsOf
<1>9. OldestLots(ls)
  BY <1>6 DEF OldestLots
<1> QED  BY <1>1, <1>3, <1>4, <1>8, <1>9, EmptyIsBook DEF FifoGood

LEMMA ReplayFifo ==
    ASSUME NEW rs, RowsOK(rs), NEW S \in SUBSET Standing(rs), \A i \in S : Priced(rs[i])
    PROVE  FifoGood(Replayed("fifo", rs, S), rs, S) /\ OldestLots(Replayed("fifo", rs, S).lots)
<1> DEFINE Good(T) == FifoGood(Replayed("fifo", rs, T), rs, T) /\ OldestLots(Replayed("fifo", rs, T).lots)
           G == {T \in SUBSET Standing(rs) : T \subseteq S => Good(T)}
<1>1. {} \in G
  <2>1. Replayed("fifo", rs, {}) = EmptyBook
    BY ReplayUnfolds
  <2> QED  BY <2>1, EmptyGood
<1>2. ASSUME NEW T \in SUBSET Standing(rs), T # {}, LastLeaves(rs, T) \in G PROVE T \in G
  <2> SUFFICES ASSUME T \subseteq S PROVE Good(T)
    OBVIOUS
  <2>1. PICK i, U, b, r, c : /\ i = LastTrade(rs, T) /\ U = LastLeaves(rs, T) /\ r = rs[i]
                             /\ b = Replayed("fifo", rs, U) /\ c = Replayed("fifo", rs, T)
    OBVIOUS
  <2>2. Adds(rs, U, i, rs) /\ U \cup {i} = T
    BY <1>2, <2>1, RowAdded
  <2>3. i \in T /\ U \subseteq S
    BY <2>2
  <2>4. FifoGood(b, rs, U) /\ OldestLots(b.lots)
    BY <1>2, <2>1, <2>3
  <2>5. r \in Trade /\ Priced(r)
    BY <2>1, <2>3, StandingRows
  <2>6. c = ReplayTrade("fifo", b, i, r)
    BY <1>2, <2>1, ReplayUnfolds
  <2>7. b \in Book /\ b.lots \in Seq(Lot) /\ b.qty \in Nat /\ Held(b.lots) = b.qty /\ LotsOf(b.lots, rs, U)
    BY <2>4, BookTypes DEF FifoGood
  <2>8. r.type \in {"buy", "sell"} /\ r.qty \in Nat /\ r.qty \in Nat \ {0}
    BY <2>5, TradeTypes
  <2>9. CASE r.type = "buy"
    <3>1. c = Bought("fifo", b, i, r, r.amount + r.fee)
      BY <2>5, <2>6, <2>9 DEF ReplayTrade, Priced
    <3>2. FifoGood(c, rs, T)
      BY <2>1, <2>2, <2>4, <2>9, <3>1, BuyGood
    <3>3. PICK l, ls : l = NewLot(i, r) /\ ls = b.lots
      OBVIOUS
    <3>4. c.lots = InsertAt(ls, Place(ls, l), l)
      <4>1. PICK q, x, ms : q = b.qty + r.qty /\ x = b.cost + (r.amount + r.fee) /\ ms = InsertAt(ls, Place(ls, l), l)
        OBVIOUS
      <4>2. c = [b EXCEPT !.lots = ms, !.qty = q, !.cost = x, !.net = r.price]
        BY <3>1, <3>3, <4>1 DEF Bought, WithLot
      <4>3. b \in [qty : Nat, cost : Nat, net : Nat, value : Int, lots : Seq(Lot)]
        BY <2>7 DEF Book
      <4>4. c.lots = ms
        BY ONLY <4>2, <4>3
      <4> QED  BY <4>1, <4>4
    <3>5. i \in TradeId
      BY <2>2 DEF Adds
    <3>6. l \in Lot /\ l.rem = l.qty /\ l.date = r.date
      BY <2>5, <3>3, <3>5, NewLotIsLot
    <3>7. ASSUME NEW k \in 1 .. Len(ls) PROVE ls[k].date <= l.date
      <4>1. ls[k].tx \in U /\ ls[k].date = rs[ls[k].tx].date
        BY <2>7, <3>3 DEF LotsOf, BuyRows
      <4>2. ls[k].tx \in T
        BY <2>2, <4>1
      <4>3. \/ rs[ls[k].tx].date < rs[i].date
            \/ rs[ls[k].tx].date = rs[i].date /\ ls[k].tx <= i
        BY <1>2, <2>1, <4>2, LastFound
      <4>4. rs[ls[k].tx].date \in Nat /\ rs[i].date \in Nat
        BY <2>3, <4>2, StandingRows
      <4> QED  BY <2>1, <3>6, <4>1, <4>3, <4>4
    <3>8. InLine(ls) /\ OldestLots(ls) /\ ls \in Seq(Lot)
      BY <2>4, <2>7, <3>3 DEF LotsOf
    <3>9. OldestLots(c.lots)
      BY <3>4, <3>6, <3>7, <3>8, OldestBuy
    <3> QED  BY <2>1, <3>2, <3>9
  <2>10. CASE r.type = "sell" /\ FifoCovers(b, r)
    <3>1. c = SellFifo(b, r)
      BY <2>6, <2>10 DEF ReplayTrade
    <3>2. FifoGood(c, rs, T)
      BY <2>1, <2>2, <2>4, <2>10, <3>1, SellGood
    <3>3. c.lots = Drawn(b.lots, r.qty)
      <4>1. PICK q, x, ms : /\ q = Held(b.lots) - r.qty /\ ms = Drawn(b.lots, r.qty)
                            /\ x = IF q = 0 THEN 0 ELSE Floor0(Worth(b.lots) - Sold(b.lots, r.qty))
        OBVIOUS
      <4>2. c = [b EXCEPT !.qty = q, !.cost = x, !.lots = ms]
        BY <3>1, <4>1 DEF SellFifo
      <4>3. b \in [qty : Nat, cost : Nat, net : Nat, value : Int, lots : Seq(Lot)]
        BY <2>7 DEF Book
      <4>4. c.lots = ms
        BY ONLY <4>2, <4>3
      <4> QED  BY <4>1, <4>4
    <3>4. OldestLots(c.lots)
      BY <2>4, <2>7, <2>8, <3>3, OldestSell
    <3> QED  BY <2>1, <3>2, <3>4
  <2>11. CASE r.type = "sell" /\ ~ FifoCovers(b, r)
    <3>1. ~ AverageCovers(b, r)
      BY <2>7, <2>11 DEF FifoCovers, AverageCovers
    <3>2. c = b
      BY <2>6, <2>11, <3>1 DEF ReplayTrade
    <3>3. FifoGood(c, rs, T)
      BY <2>1, <2>2, <2>4, <2>11, <3>2, SkipGood
    <3> QED  BY <2>1, <2>4, <3>2, <3>3
  <2> QED  BY <2>8, <2>9, <2>10, <2>11
<1>3. SUBSET Standing(rs) \subseteq G
  <2> HIDE DEF G
  <2> QED  BY <1>1, <1>2, RowByRow
<1> QED  BY <1>3

-----------------------------------------------------------------------------
(* An account without lots *)

LEMMA BoughtAverage ==
    ASSUME NEW m, m # "fifo", NEW b \in Book, NEW i, NEW r \in Trade, NEW c \in Nat
    PROVE  Bought(m, b, i, r, c) \in Book /\ Bought(m, b, i, r, c).lots = b.lots
<1>1. PICK q, x, ls, d : q = b.qty + r.qty /\ x = b.cost + c /\ ls = b.lots /\ d = Bought(m, b, i, r, c)
  OBVIOUS
<1>2. q \in Nat /\ x \in Nat /\ ls \in Seq(Lot) /\ r.price \in Nat
  BY <1>1, BookTypes, TradeTypes
<1>3. d = [b EXCEPT !.lots = ls, !.qty = q, !.cost = x, !.net = r.price]
  BY <1>1 DEF Bought, WithLot
<1>4. d \in Book /\ d.lots = ls
  BY ONLY <1>2, <1>3, b \in Book DEF Book
<1> QED  BY <1>1, <1>4

LEMMA SoldAverage ==
    ASSUME NEW b \in Book, NEW r \in Trade, AverageCovers(b, r)
    PROVE  SellAverage(b, r) \in Book /\ SellAverage(b, r).lots = b.lots
<1>1. PICK q, x, d, y : /\ q = b.qty - r.qty /\ d = SellAverage(b, r)
                        /\ x = (IF r.qty = b.qty THEN 0 ELSE b.cost - y) /\ y = Share(b.cost, r.qty, b.qty)
  OBVIOUS
<1>2. b.qty \in Nat /\ b.cost \in Nat /\ r.qty \in Nat \ {0} /\ r.qty <= b.qty
  BY BookTypes, TradeTypes DEF AverageCovers
<1>3. b.qty \in Nat \ {0} /\ r.qty \in Nat /\ q \in Nat
  BY <1>1, <1>2
<1>4. y \in 0 .. b.cost
  BY <1>1, <1>2, <1>3, ShareIsPart
<1>5. x \in Nat
  BY <1>1, <1>2, <1>4
<1>6. d = [b EXCEPT !.qty = q, !.cost = x]
  BY <1>1 DEF SellAverage
<1>7. d \in Book /\ d.lots = b.lots
  BY ONLY <1>3, <1>5, <1>6, b \in Book DEF Book
<1> QED  BY <1>1, <1>7

LEMMA ReplayAverage ==
    ASSUME NEW rs, RowsOK(rs), NEW m, m # "fifo", NEW S \in SUBSET Standing(rs)
    PROVE  Replayed(m, rs, S) \in Book /\ Replayed(m, rs, S).lots = <<>>
<1> DEFINE G == {T \in SUBSET Standing(rs) : Replayed(m, rs, T) \in Book /\ Replayed(m, rs, T).lots = <<>>}
<1>1. {} \in G
  <2>1. Replayed(m, rs, {}) = EmptyBook
    BY ReplayUnfolds
  <2> QED  BY <2>1, EmptyIsBook
<1>2. ASSUME NEW T \in SUBSET Standing(rs), T # {}, LastLeaves(rs, T) \in G PROVE T \in G
  <2>1. PICK i, U, b, r, c : /\ i = LastTrade(rs, T) /\ U = LastLeaves(rs, T) /\ r = rs[i]
                             /\ b = Replayed(m, rs, U) /\ c = Replayed(m, rs, T)
    OBVIOUS
  <2>2. b \in Book /\ b.lots = <<>>
    BY <1>2, <2>1
  <2>3. i \in Standing(rs)
    BY <1>2, <2>1, LastTaken
  <2>4. r \in Trade
    BY <2>1, <2>3, StandingRows
  <2>5. c = ReplayTrade(m, b, i, r)
    BY <1>2, <2>1, ReplayUnfolds
  <2>6. Gross(r.price, r.qty) + r.fee \in Nat
    <3>1. r.price \in Nat /\ r.qty \in Nat /\ r.fee \in Nat
      BY <2>4, TradeTypes
    <3>2. Gross(r.price, r.qty) \in Nat
      BY <3>1, GrossIsNat
    <3> QED  BY <3>1, <3>2
  <2>7. c \in Book /\ c.lots = <<>>
    <3>1. CASE r.type = "buy"
      <4>1. c = Bought(m, b, i, r, Gross(r.price, r.qty) + r.fee)
        BY <2>5, <3>1 DEF ReplayTrade
      <4> QED  BY <2>2, <2>4, <2>6, <4>1, BoughtAverage
    <3>2. CASE r.type # "buy" /\ AverageCovers(b, r)
      <4>1. c = SellAverage(b, r)
        BY <2>5, <3>2 DEF ReplayTrade
      <4> QED  BY <2>2, <2>4, <3>2, <4>1, SoldAverage
    <3>3. CASE r.type # "buy" /\ ~ AverageCovers(b, r)
      BY <2>2, <2>5, <3>3 DEF ReplayTrade
    <3> QED  BY <3>1, <3>2, <3>3
  <2> QED  BY <2>1, <2>7
<1>3. SUBSET Standing(rs) \subseteq G
  <2> HIDE DEF G
  <2> QED  BY <1>1, <1>2, RowByRow
<1> QED  BY <1>3

-----------------------------------------------------------------------------
(* The operations on the book *)

LEMMA ValueSet ==
    ASSUME NEW b \in Book, NEW v \in Int
    PROVE  /\ [b EXCEPT !.value = v] \in Book
           /\ SameHoldings(b, [b EXCEPT !.value = v])
           /\ SameHoldings([b EXCEPT !.value = v], b)
  BY DEF Book, SameHoldings

LEMMA ApplyIs ==
    ASSUME NEW m, NEW b, NEW i, NEW r \in Trade, Traded(m, b, i, r) \in Book
    PROVE  Apply(m, b, i, r) \in Book /\ SameHoldings(Traded(m, b, i, r), Apply(m, b, i, r))
<1>1. PICK t, v : /\ t = Traded(m, b, i, r)
                  /\ v = Gross(t.net, t.qty) - (IF r.own THEN r.fee ELSE 0)
  OBVIOUS
<1>2. t \in Book /\ t.net \in Nat /\ t.qty \in Nat /\ r.fee \in Nat
  BY <1>1, BookTypes, TradeTypes
<1>3. Gross(t.net, t.qty) \in Nat
  BY <1>2, GrossIsNat
<1>4. v \in Int
  BY <1>1, <1>2, <1>3
<1>5. Apply(m, b, i, r) = [t EXCEPT !.value = v]
  BY <1>1 DEF Apply
<1> QED  BY <1>1, <1>2, <1>4, <1>5, ValueSet

LEMMA ApplyFifo ==
    ASSUME NEW b, NEW rs, NEW rt, NEW S, NEW i, Adds(rs, S, i, rt), FifoGood(b, rs, S),
           CanApply("fifo", b, rt[i])
    PROVE  /\ FifoGood(Apply("fifo", b, i, rt[i]), rt, S \cup {i})
           /\ SameHoldings(Traded("fifo", b, i, rt[i]), Apply("fifo", b, i, rt[i]))
<1>1. PICK r, t : r = rt[i] /\ t = Traded("fifo", b, i, r)
  OBVIOUS
<1>2. r \in Trade /\ r.type \in {"buy", "sell"}
  BY <1>1, TradeTypes DEF Adds
<1>3. FifoGood(t, rt, S \cup {i})
  <2>1. CASE r.type = "buy"
    <3>1. t = Bought("fifo", b, i, r, r.amount + r.fee)
      BY <1>1, <2>1 DEF Traded
    <3>2. FifoGood(Bought("fifo", b, i, rt[i], rt[i].amount + rt[i].fee), rt, S \cup {i})
      BY <1>1, <2>1, BuyGood
    <3> QED  BY <1>1, <3>1, <3>2
  <2>2. CASE r.type = "sell"
    <3>1. t = SellFifo(b, r) /\ FifoCovers(b, r)
      BY <1>1, <2>2 DEF Traded, CanApply
    <3>2. FifoGood(SellFifo(b, rt[i]), rt, S \cup {i})
      BY <1>1, <2>2, <3>1, SellGood
    <3> QED  BY <1>1, <3>1, <3>2
  <2> QED  BY <1>2, <2>1, <2>2
<1>4. t \in Book
  BY <1>3 DEF FifoGood
<1>5. Apply("fifo", b, i, r) \in Book /\ SameHoldings(t, Apply("fifo", b, i, r))
  BY <1>1, <1>2, <1>4, ApplyIs
<1> QED  BY <1>1, <1>3, <1>5, FifoHoldings

LEMMA ApplyAverage ==
    ASSUME NEW m, m # "fifo", NEW b \in Book, NEW i, NEW r \in Trade, CanApply(m, b, r)
    PROVE  Apply(m, b, i, r) \in Book /\ SameHoldings(Traded(m, b, i, r), Apply(m, b, i, r))
<1>1. PICK t : t = Traded(m, b, i, r)
  OBVIOUS
<1>2. r.type \in {"buy", "sell"} /\ r.amount + r.fee \in Nat
  BY TradeTypes
<1>3. CASE r.type = "buy"
  <2>1. t = Bought(m, b, i, r, r.amount + r.fee)
    BY <1>1, <1>3 DEF Traded
  <2>2. t \in Book
    BY <1>2, <2>1, BoughtAverage
  <2> QED  BY <1>1, <2>2, ApplyIs
<1>4. CASE r.type = "sell"
  <2>1. t = SellAverage(b, r) /\ AverageCovers(b, r)
    BY <1>1, <1>4 DEF Traded, CanApply
  <2>2. t \in Book
    BY <2>1, SoldAverage
  <2> QED  BY <1>1, <2>2, ApplyIs
<1> QED  BY <1>2, <1>3, <1>4

LEMMA ReplayIsBook ==
    ASSUME NEW rs, RowsOK(rs), NEW m, NEW S \in SUBSET Standing(rs), \A i \in S : Priced(rs[i])
    PROVE  Replayed(m, rs, S) \in Book
  BY ReplayFifo, ReplayAverage DEF FifoGood

\* A rebuilt position holds what the replay leaves, unless there was nothing to
\* replay.
LEMMA RebuiltIs ==
    ASSUME NEW m, NEW b \in Book, NEW rs, RowsOK(rs), NEW skip,
           \A i \in Standing(rs) \ {skip} : Priced(rs[i])
    PROVE  /\ Rebuilt(m, b, rs, skip) \in Book
           /\ ~ (Standing(rs) \ {skip} = {} /\ skip = 0) =>
                SameHoldings(Replayed(m, rs, Standing(rs) \ {skip}), Rebuilt(m, b, rs, skip))
           /\ (Standing(rs) \ {skip} = {} /\ skip = 0) =>
                /\ Rebuilt(m, b, rs, skip).qty = b.qty /\ Rebuilt(m, b, rs, skip).cost = b.cost
                /\ Rebuilt(m, b, rs, skip).lots = <<>>
<1>1. PICK ids, sum, c : /\ ids = Standing(rs) \ {skip} /\ sum = Replayed(m, rs, ids)
                         /\ c = Rebuilt(m, b, rs, skip)
  OBVIOUS
<1>2. sum \in Book
  BY <1>1, ReplayIsBook
<1>3. b.qty \in Nat /\ b.cost \in Nat /\ b.net \in Nat
  BY BookTypes
<1>4. PICK kept : kept = IF ids = {} /\ skip = 0 THEN Keeping(sum, b) ELSE sum
  OBVIOUS
<1>5. /\ kept \in Book
      /\ ~ (ids = {} /\ skip = 0) => kept = sum
      /\ (ids = {} /\ skip = 0) => kept.qty = b.qty /\ kept.cost = b.cost /\ kept.lots = sum.lots
  <2>1. CASE ids = {} /\ skip = 0
    <3>1. kept = [sum EXCEPT !.qty = b.qty, !.cost = b.cost, !.net = b.net]
      BY <1>4, <2>1 DEF Keeping
    <3> QED  BY <1>2, <1>3, <2>1, <3>1 DEF Book
  <2>2. CASE ~ (ids = {} /\ skip = 0)
    BY <1>2, <1>4, <2>2
  <2> QED  BY <2>1, <2>2
<1>6. PICK net, v : net = (IF kept.net = 0 THEN b.net ELSE kept.net) /\ v = Gross(net, kept.qty)
  OBVIOUS
<1>7. net \in Nat /\ v \in Int
  <2>1. net \in Nat /\ kept.qty \in Nat
    BY <1>3, <1>5, <1>6, BookTypes
  <2>2. v \in Nat
    BY <1>6, <2>1, GrossIsNat
  <2> QED  BY <2>1, <2>2
<1>8. c \in Book /\ c.qty = kept.qty /\ c.cost = kept.cost /\ c.lots = kept.lots
  <2>1. c = Revalued(kept, b)
    BY <1>1, <1>4 DEF Rebuilt
  <2>2. c = [kept EXCEPT !.net = net, !.value = v]
    BY <1>6, <2>1 DEF Revalued
  <2>3. kept \in Book
    BY <1>5
  <2> QED  BY ONLY <1>7, <2>2, <2>3 DEF Book
<1>9. ids = {} => sum.lots = <<>>
  <2>1. ids = {} => sum = EmptyBook
    BY <1>1, ReplayUnfolds
  <2> QED  BY <2>1, EmptyIsBook
<1> QED  BY <1>1, <1>5, <1>8, <1>9 DEF SameHoldings

LEMMA RebuiltFifo ==
    ASSUME NEW b, NEW rs, RowsOK(rs), NEW skip, \A i \in Standing(rs) : Priced(rs[i]),
           FifoGood(b, rs, Standing(rs))
    PROVE  FifoGood(Rebuilt("fifo", b, rs, skip), rs, Standing(rs) \ {skip})
<1>1. PICK ids, sum, c : /\ ids = Standing(rs) \ {skip} /\ sum = Replayed("fifo", rs, ids)
                         /\ c = Rebuilt("fifo", b, rs, skip)
  OBVIOUS
<1>2. b \in Book /\ c \in Book
  BY <1>1, RebuiltIs DEF FifoGood
<1>3. FifoGood(sum, rs, ids)
  BY <1>1, ReplayFifo
<1>4. CASE ~ (ids = {} /\ skip = 0)
  <2>1. SameHoldings(sum, c)
    BY <1>1, <1>2, <1>4, RebuiltIs
  <2> QED  BY <1>1, <1>2, <1>3, <2>1, FifoHoldings
<1>5. CASE ids = {} /\ skip = 0
  <2>1. Standing(rs) = {}
    <3>1. 0 \notin Standing(rs)
      BY StandingRows DEF TradeId
    <3> QED  BY <1>1, <1>5, <3>1
  <2>2. sum = EmptyBook
    BY <1>1, <1>5, ReplayUnfolds
  <2>3. LotsOf(b.lots, rs, {}) /\ Held(b.lots) = b.qty /\ Near(b) /\ b.lots \in Seq(Lot) /\ b.cost \in Nat
    BY <1>2, <2>1, BookTypes DEF FifoGood
  <2>4. Len(b.lots) = 0
    <3>1. BuyRows(rs, {}) = {}
      BY DEF BuyRows
    <3> QED  BY <2>3, <3>1, FS_EmptySet DEF LotsOf
  <2>5. Held(b.lots) = 0 /\ Worth(b.lots) = 0 /\ Rounding(b.lots) = 0
    BY <2>3, <2>4, LotTotals, TotalOfNone DEF Ahead
  <2>6. b.qty = 0 /\ b.cost = 0
    BY <2>3, <2>5 DEF Near
  <2>7. SameHoldings(sum, c)
    BY <1>1, <1>2, <1>5, <2>2, <2>6, RebuiltIs, EmptyIsBook DEF SameHoldings
  <2> QED  BY <1>1, <1>2, <1>3, <2>7, FifoHoldings
<1> QED  BY <1>4, <1>5

LEMMA ReverseAverage ==
    ASSUME NEW m, m # "fifo", NEW b \in Book, NEW rs, NEW i, rs[i] \in Trade
    PROVE  ReverseTrade(m, b, rs, i) \in Book
<1>1. PICK r, t : r = rs[i] /\ t = (IF r.type = "buy" THEN Unbuy(b, r) ELSE Unsell(b, r))
  OBVIOUS
<1>2. /\ r.qty \in Nat /\ r.price \in Nat /\ r.amount \in Nat /\ r.fee \in Nat
      /\ b.qty \in Nat /\ b.cost \in Nat /\ b.net \in Nat
  BY <1>1, BookTypes, TradeTypes
<1>3. t \in Book
  <2>1. CASE r.type = "buy"
    <3>1. PICK q, x, n : /\ q = Floor0(b.qty - r.qty) /\ x = Floor0(b.cost - (r.amount + r.fee))
                         /\ n = IF q = 0 THEN 0 ELSE b.net
      OBVIOUS
    <3>2. q \in Nat /\ x \in Nat /\ n \in Nat
      BY <1>2, <3>1 DEF Floor0
    <3>3. t = [b EXCEPT !.qty = q, !.cost = x, !.net = n]
      BY <1>1, <2>1, <3>1 DEF Unbuy
    <3> QED  BY ONLY <3>2, <3>3, b \in Book DEF Book
  <2>2. CASE r.type # "buy"
    <3>1. PICK q, x, s : /\ q = b.qty + r.qty /\ x = b.cost + s
                         /\ s = IF b.qty # 0 THEN Share(b.cost, r.qty, b.qty) ELSE Gross(r.price, r.qty)
      OBVIOUS
    <3>2. b.qty # 0 => Share(b.cost, r.qty, b.qty) \in Nat
      <4> SUFFICES ASSUME b.qty # 0 PROVE Share(b.cost, r.qty, b.qty) \in Nat
        OBVIOUS
      <4>1. PICK h : h = RoundHalfUp(r.qty * RatioUnit, b.qty)
        OBVIOUS
      <4>2. r.qty * RatioUnit \in Nat /\ b.qty \in Nat \ {0} /\ RatioUnit \in Nat \ {0}
        BY <1>2, PositionConstants
      <4>3. h \in Nat
        BY <4>1, <4>2, Rounded
      <4>4. b.cost * h \in Nat
        BY <1>2, <4>3
      <4> QED  BY <4>1, <4>2, <4>4, Rounded DEF Share
    <3>3. Gross(r.price, r.qty) \in Nat
      BY <1>2, GrossIsNat
    <3>4. q \in Nat /\ x \in Nat
      BY <1>2, <3>1, <3>2, <3>3
    <3>5. t = [b EXCEPT !.qty = q, !.cost = x]
      BY <1>1, <2>2, <3>1 DEF Unsell
    <3> QED  BY ONLY <3>4, <3>5, b \in Book DEF Book
  <2> QED  BY <2>1, <2>2
<1>4. Gross(t.net, t.qty) \in Int
  <2>1. t.net \in Nat /\ t.qty \in Nat
    BY <1>3, BookTypes
  <2>2. Gross(t.net, t.qty) \in Nat
    BY <2>1, GrossIsNat
  <2> QED  BY <2>2
<1>5. ReverseTrade(m, b, rs, i) = [t EXCEPT !.value = Gross(t.net, t.qty)]
  BY <1>1 DEF ReverseTrade
<1> QED  BY <1>3, <1>4, <1>5, ValueSet

-----------------------------------------------------------------------------
(* The position against the replay of all its rows *)

Agrees(m, b, rs) == SameHoldings(Replayed(m, rs, Standing(rs)), b)

LEMMA RebuiltAgrees ==
    ASSUME NEW m, NEW b \in Book, NEW rs, RowsOK(rs), \A i \in Standing(rs) : Priced(rs[i]),
           Agrees(m, b, rs)
    PROVE  SameHoldings(Rebuilt(m, b, rs, 0), b) /\ Agrees(m, Rebuilt(m, b, rs, 0), rs)
<1>1. Standing(rs) \ {0} = Standing(rs)
  BY StandingRows DEF TradeId
<1>2. Standing(rs) = {} => Replayed(m, rs, Standing(rs)) = EmptyBook
  BY ReplayUnfolds
<1>3. Standing(rs) = {} => b.lots = <<>>
  BY <1>2, EmptyIsBook DEF Agrees, SameHoldings
<1> QED  BY <1>1, <1>3, RebuiltIs DEF Agrees, SameHoldings

\* A trade has the same effect on two books with the same holdings, and the
\* replay applies it as the use case did.
LEMMA SameTrade ==
    ASSUME NEW m \in {"average", "fifo"}, NEW b \in Book, NEW c \in Book, SameHoldings(b, c), NEW i,
           NEW r \in Trade, Priced(r), CanApply(m, c, r)
    PROVE  SameHoldings(ReplayTrade(m, b, i, r), Traded(m, c, i, r))
<1>1. PICK B, C : B = ReplayTrade(m, b, i, r) /\ C = Traded(m, c, i, r)
  OBVIOUS
<1>2. b.qty = c.qty /\ b.cost = c.cost /\ b.lots = c.lots
  BY DEF SameHoldings
<1>3. r.type \in {"buy", "sell"}
  BY TradeTypes
<1>4. CASE r.type = "buy"
  <2>1. PICK q, x, ls : q = b.qty + r.qty /\ x = b.cost + (r.amount + r.fee) /\ ls = WithLot(m, b.lots, i, r)
    OBVIOUS
  <2>2. B = [b EXCEPT !.lots = ls, !.qty = q, !.cost = x, !.net = r.price]
    BY <1>1, <1>4, <2>1 DEF ReplayTrade, Bought, Priced
  <2>3. C = [c EXCEPT !.lots = ls, !.qty = q, !.cost = x, !.net = r.price]
    BY <1>1, <1>2, <1>4, <2>1 DEF Traded, Bought
  <2>4. SameHoldings(B, C)
    BY ONLY <2>2, <2>3, b \in Book, c \in Book DEF SameHoldings, Book
  <2> QED  BY <1>1, <2>4
<1>5. CASE r.type = "sell" /\ m = "fifo"
  <2>1. FifoCovers(b, r)
    BY <1>2, <1>5 DEF CanApply, FifoCovers
  <2>2. PICK q, x, ls : /\ q = Held(b.lots) - r.qty /\ ls = Drawn(b.lots, r.qty)
                        /\ x = IF q = 0 THEN 0 ELSE Floor0(Worth(b.lots) - Sold(b.lots, r.qty))
    OBVIOUS
  <2>3. B = [b EXCEPT !.qty = q, !.cost = x, !.lots = ls]
    BY <1>1, <1>5, <2>1, <2>2 DEF ReplayTrade, SellFifo
  <2>4. C = [c EXCEPT !.qty = q, !.cost = x, !.lots = ls]
    BY <1>1, <1>2, <1>5, <2>2 DEF Traded, SellFifo
  <2>5. SameHoldings(B, C)
    BY ONLY <2>3, <2>4, b \in Book, c \in Book DEF SameHoldings, Book
  <2> QED  BY <1>1, <2>5
<1>6. CASE r.type = "sell" /\ m = "average"
  <2>1. AverageCovers(b, r)
    BY <1>2, <1>6 DEF CanApply, AverageCovers
  <2>2. PICK q, x : /\ q = b.qty - r.qty
                    /\ x = IF r.qty = b.qty THEN 0 ELSE b.cost - Share(b.cost, r.qty, b.qty)
    OBVIOUS
  <2>3. B = [b EXCEPT !.qty = q, !.cost = x]
    BY <1>1, <1>6, <2>1, <2>2 DEF ReplayTrade, SellAverage
  <2>4. C = [c EXCEPT !.qty = q, !.cost = x]
    BY <1>1, <1>2, <1>6, <2>2 DEF Traded, SellAverage
  <2>5. b.lots = c.lots
    BY <1>2
  <2>6. SameHoldings(B, C)
    BY ONLY <2>3, <2>4, <2>5, b \in Book, c \in Book DEF SameHoldings, Book
  <2> QED  BY <1>1, <2>6
<1> QED  BY <1>3, <1>4, <1>5, <1>6

\* The row of a trade entered in the order of dates is replayed last.
AddsLast(rs, rt, i) ==
    /\ RowsOK(rs) /\ RowsOK(rt) /\ Standing(rt) = Standing(rs) \cup {i}
    /\ \A j \in Standing(rs) : rt[j] = rs[j] /\ j < i /\ rs[j].date <= rt[i].date

LEMMA ReplayAddsLast ==
    ASSUME NEW m, NEW rs, NEW rt, NEW i, AddsLast(rs, rt, i)
    PROVE  Replayed(m, rt, Standing(rt)) = ReplayTrade(m, Replayed(m, rs, Standing(rs)), i, rt[i])
<1>0. /\ RowsOK(rs) /\ RowsOK(rt) /\ Standing(rt) = Standing(rs) \cup {i}
      /\ \A j \in Standing(rs) : rt[j] = rs[j] /\ j < i /\ rs[j].date <= rt[i].date
  BY DEF AddsLast
<1>1. PICK T, k : T = Standing(rt) /\ k = LastTrade(rt, T)
  OBVIOUS
<1>2. T \in SUBSET Standing(rt) /\ T # {} /\ i \in T
  BY <1>0, <1>1
<1>3. /\ k \in T
      /\ \A j \in T : rt[j].date < rt[k].date \/ (rt[j].date = rt[k].date /\ j <= k)
  BY <1>0, <1>1, <1>2, LastFound
<1>4. k = i
  <2>1. SUFFICES ASSUME k # i PROVE FALSE
    OBVIOUS
  <2>2. k \in Standing(rs) /\ rt[k] = rs[k]
    BY <1>0, <1>1, <1>3, <2>1
  <2>3. k < i /\ rt[k].date <= rt[i].date
    BY <1>0, <2>2
  <2>4. rt[i].date < rt[k].date \/ (rt[i].date = rt[k].date /\ i <= k)
    BY <1>2, <1>3
  <2>5. rt[i].date \in Nat /\ rt[k].date \in Nat /\ i \in Nat /\ k \in Nat
    <3>1. i \in Standing(rt) /\ k \in Standing(rt)
      BY <1>1, <1>2, <1>3
    <3>2. i \in TradeId /\ k \in TradeId
      BY <1>0, <3>1, StandingRows
    <3> QED  BY <1>0, <3>1, <3>2, StandingRows DEF TradeId
  <2> QED  BY <2>3, <2>4, <2>5
<1>5. LastLeaves(rt, T) = Standing(rs)
  <2>1. i \notin Standing(rs)
    <3>1. i \in Standing(rs) => i \in Nat
      BY <1>0, StandingRows DEF TradeId
    <3> QED  BY <1>0, <3>1
  <2> QED  BY <1>0, <1>1, <1>4, <2>1 DEF LastLeaves
<1>6. Replayed(m, rt, T) = ReplayTrade(m, Replayed(m, rt, Standing(rs)), i, rt[i])
  <2>1. RowsOK(rt) /\ T \in SUBSET Standing(rt) /\ T # {}
    BY <1>0, <1>2
  <2>2. Replayed(m, rt, T) = ReplayTrade(m, Replayed(m, rt, LastLeaves(rt, T)), LastTrade(rt, T), rt[LastTrade(rt, T)])
    BY ONLY <2>1, ReplayUnfolds
  <2> QED  BY <1>1, <1>4, <1>5, <2>2
<1>7. Replayed(m, rt, Standing(rs)) = Replayed(m, rs, Standing(rs))
  BY <1>0, ReplaySame
<1> QED  BY <1>1, <1>6, <1>7

-----------------------------------------------------------------------------
(* The inductive invariant of a position *)

PositionInv ==
    /\ PositionTypeOK
    /\ \A i \in Standing(trades) : i < nextTrade /\ Priced(trades[i])
    /\ method = "fifo" => FifoGood(book, trades, Standing(trades))
    /\ Orderly => Agrees(method, book, trades)

\* What holds of the account, said with rigid names.
Account(m, b, rs, n) ==
    /\ m \in {"average", "fifo"} /\ b \in Book /\ RowsOK(rs) /\ n \in Nat /\ n >= 1
    /\ \A i \in Standing(rs) : i < n /\ Priced(rs[i])
    /\ m = "fifo" => FifoGood(b, rs, Standing(rs))

LEMMA InvIsAccount ==
    ASSUME PositionInv
    PROVE  /\ Account(method, book, trades, nextTrade)
           /\ client \in Clients /\ client \in Client /\ method \in Methods /\ nextTrade \in 1 .. MaxRows + 1
           /\ client.trades \in TradeId /\ client.writes \in Nat /\ writes \in 0 .. client.writes
           /\ client.edits \subseteq TradeEdit
<1>1. client \in Client /\ method \in {"average", "fifo"} /\ MaxRows \in Nat
  BY PositionConstants DEF PositionInv, PositionTypeOK
<1>2. nextTrade \in Nat /\ nextTrade >= 1
  BY <1>1 DEF PositionInv, PositionTypeOK
<1>3. Account(method, book, trades, nextTrade)
  BY <1>1, <1>2 DEF PositionInv, PositionTypeOK, Account, RowsOK
<1>4. client.trades \in TradeId /\ client.writes \in Nat /\ client.edits \subseteq TradeEdit
  BY <1>1 DEF Client
<1> QED  BY <1>1, <1>3, <1>4 DEF PositionInv, PositionTypeOK

\* A new row, and what it leaves.
Enters(m, b, rs, n, o, rt) ==
    /\ Account(m, b, rs, n) /\ n \in TradeId /\ o \in Trade /\ Priced(o) /\ CanApply(m, b, o)
    /\ rt = [rs EXCEPT ![n] = o]
Entered(m, b, rs, n, o, rt) ==
    /\ Account(m, Apply(m, b, n, o), rt, n + 1)
    /\ SameHoldings(Traded(m, b, n, o), Apply(m, b, n, o))
    /\ n \notin Standing(rs) /\ rt[n] = o /\ rt[n] # Absent /\ Standing(rt) = Standing(rs) \cup {n}
    /\ \A j \in Standing(rs) : rt[j] = rs[j] /\ j < n

LEMMA CreatedRow ==
    ASSUME NEW m, NEW b, NEW rs, NEW n, NEW o, NEW rt, Enters(m, b, rs, n, o, rt)
    PROVE  Entered(m, b, rs, n, o, rt)
<1>0. /\ Account(m, b, rs, n) /\ n \in TradeId /\ o \in Trade /\ Priced(o) /\ CanApply(m, b, o)
      /\ rt = [rs EXCEPT ![n] = o]
  BY DEF Enters
<1>1. /\ m \in {"average", "fifo"} /\ b \in Book /\ RowsOK(rs) /\ n \in Nat
      /\ \A i \in Standing(rs) : i < n /\ Priced(rs[i])
  BY <1>0 DEF Account
<1>2. Standing(rs) \in SUBSET TradeId /\ Absent \notin Trade
  BY <1>1, StandingRows, PositionConstants
<1>3. n \notin Standing(rs)
  BY <1>1
<1>4. RowsOK(rt) /\ rt[n] = o /\ o # Absent
  BY <1>0, <1>1, <1>2 DEF RowsOK
<1>5. \A j \in TradeId : j # n => rt[j] = rs[j]
  BY <1>0, <1>1 DEF RowsOK
<1>6. Standing(rt) = Standing(rs) \cup {n}
  BY <1>0, <1>3, <1>4, <1>5 DEF Standing
<1>7. \A j \in Standing(rs) : rt[j] = rs[j]
  BY <1>2, <1>3, <1>5
<1>8. \A i \in Standing(rt) : i < n + 1 /\ Priced(rt[i])
  <2> TAKE i \in Standing(rt)
  <2>1. CASE i = n
    BY <1>0, <1>1, <1>4, <2>1
  <2>2. CASE i \in Standing(rs)
    <3>1. i < n /\ i \in Nat
      BY <1>1, <1>2, <2>2 DEF TradeId
    <3> QED  BY <1>1, <1>7, <2>2, <3>1
  <2> QED  BY <1>6, <2>1, <2>2
<1>11. n + 1 \in Nat /\ n + 1 >= 1
  BY <1>1
<1>9. CASE m = "fifo"
  <2>1. PICK S : S = Standing(rs)
    OBVIOUS
  <2>2. Adds(rs, S, n, rt)
    BY <1>0, <1>2, <1>3, <1>4, <1>7, <2>1 DEF Adds
  <2>3. FifoGood(b, rs, S)
    BY <1>0, <1>9, <2>1 DEF Account
  <2>4. CanApply("fifo", b, rt[n])
    BY <1>0, <1>4, <1>9
  <2>5. /\ FifoGood(Apply("fifo", b, n, rt[n]), rt, S \cup {n})
        /\ SameHoldings(Traded("fifo", b, n, rt[n]), Apply("fifo", b, n, rt[n]))
    BY ONLY <2>2, <2>3, <2>4, ApplyFifo
  <2>6. /\ FifoGood(Apply(m, b, n, o), rt, Standing(rt))
        /\ SameHoldings(Traded(m, b, n, o), Apply(m, b, n, o))
    BY <1>4, <1>6, <1>9, <2>1, <2>5
  <2>7. Apply(m, b, n, o) \in Book
    BY <2>6 DEF FifoGood
  <2> QED  BY <1>1, <1>3, <1>4, <1>6, <1>7, <1>8, <1>11, <2>6, <2>7 DEF Account, Entered
<1>10. CASE m # "fifo"
  <2>1. Apply(m, b, n, o) \in Book /\ SameHoldings(Traded(m, b, n, o), Apply(m, b, n, o))
    BY <1>0, <1>1, <1>10, ApplyAverage
  <2> QED  BY <1>1, <1>3, <1>4, <1>6, <1>7, <1>8, <1>10, <1>11, <2>1 DEF Account, Entered
<1> QED  BY <1>9, <1>10

\* A row entered last is replayed last, with what it did to the position.
LEMMA CreatedAgrees ==
    ASSUME NEW m, NEW b, NEW rs, NEW n, NEW o, NEW rt, Enters(m, b, rs, n, o, rt), Agrees(m, b, rs),
           \A j \in Standing(rs) : rs[j].date <= o.date
    PROVE  Agrees(m, Apply(m, b, n, o), rt)
<1>1. /\ Account(m, Apply(m, b, n, o), rt, n + 1)
      /\ n \notin Standing(rs) /\ rt[n] = o /\ rt[n] # Absent /\ Standing(rt) = Standing(rs) \cup {n}
      /\ \A j \in Standing(rs) : rt[j] = rs[j] /\ j < n
      /\ SameHoldings(Traded(m, b, n, o), Apply(m, b, n, o))
  BY CreatedRow DEF Entered
<1>0. /\ Account(m, b, rs, n) /\ n \in TradeId /\ o \in Trade /\ Priced(o) /\ CanApply(m, b, o)
  BY DEF Enters
<1>2. /\ m \in {"average", "fifo"} /\ b \in Book /\ RowsOK(rs) /\ RowsOK(rt)
      /\ \A i \in Standing(rs) : Priced(rs[i])
  BY <1>0, <1>1 DEF Account
<1>3. PICK s, t, c : s = Replayed(m, rs, Standing(rs)) /\ t = Traded(m, b, n, o) /\ c = Apply(m, b, n, o)
  OBVIOUS
<1>4. s \in Book /\ SameHoldings(s, b)
  BY <1>2, <1>3, ReplayIsBook DEF Agrees
<1>5. SameHoldings(ReplayTrade(m, s, n, o), t)
  BY <1>0, <1>2, <1>3, <1>4, SameTrade
<1>6. \A j \in Standing(rs) : j < n /\ rs[j].date <= rt[n].date
  BY <1>1
<1>7. Replayed(m, rt, Standing(rt)) = ReplayTrade(m, s, n, rt[n])
  <2>1. AddsLast(rs, rt, n)
    BY <1>1, <1>2, <1>6 DEF AddsLast
  <2> QED  BY <1>3, <2>1, ReplayAddsLast
<1>8. SameHoldings(t, c)
  BY <1>1, <1>3
<1> QED  BY <1>1, <1>3, <1>5, <1>7, <1>8 DEF Agrees, SameHoldings

\* A row taken out.
LEMMA RemovedRow ==
    ASSUME NEW m, NEW b, NEW rs, NEW n, Account(m, b, rs, n), NEW i \in Standing(rs),
           NEW rt, rt = [rs EXCEPT ![i] = Absent]
    PROVE  /\ Account(m, ReverseTrade(m, b, rs, i), rt, n)
           /\ m = "fifo" => Agrees(m, ReverseTrade(m, b, rs, i), rt)
<1>1. /\ m \in {"average", "fifo"} /\ b \in Book /\ RowsOK(rs) /\ n \in Nat /\ n >= 1
      /\ \A j \in Standing(rs) : j < n /\ Priced(rs[j])
      /\ m = "fifo" => FifoGood(b, rs, Standing(rs))
  BY DEF Account
<1>2. i \in TradeId /\ i # 0 /\ rs[i] \in Trade
  BY <1>1, StandingRows DEF TradeId
<1>3. RowsOK(rt) /\ rt[i] = Absent /\ \A j \in TradeId : j # i => rt[j] = rs[j]
  BY <1>1, <1>2 DEF RowsOK
<1>4. PICK ids : ids = Standing(rs) \ {i}
  OBVIOUS
<1>5. Standing(rt) = ids
  BY <1>2, <1>3, <1>4 DEF Standing
<1>6. ids \in SUBSET Standing(rs) /\ \A j \in ids : rt[j] = rs[j] /\ j < n /\ Priced(rt[j])
  BY <1>1, <1>3, <1>4, StandingRows
<1>7. CASE m = "fifo"
  <2>1. PICK c : c = Rebuilt("fifo", b, rs, i)
    OBVIOUS
  <2>2. ReverseTrade(m, b, rs, i) = c
    BY <1>7, <2>1 DEF ReverseTrade
  <2>3. FifoGood(c, rs, ids)
    BY <1>1, <1>4, <1>7, <2>1, RebuiltFifo
  <2>4. FifoGood(c, rt, ids)
    BY <1>6, <2>3, FifoSame
  <2>5. SameHoldings(Replayed("fifo", rs, ids), c)
    BY <1>1, <1>2, <1>4, <2>1, RebuiltIs
  <2>6. Replayed("fifo", rt, ids) = Replayed("fifo", rs, ids)
    <3>1. /\ RowsOK(rs) /\ RowsOK(rt) /\ ids \in SUBSET Standing(rs) /\ ids \in SUBSET Standing(rt)
          /\ \A j \in ids : rt[j] = rs[j]
      BY <1>1, <1>3, <1>5, <1>6
    <3> QED  BY ONLY <3>1, ReplaySame
  <2>7. Agrees("fifo", c, rt)
    BY <1>5, <2>5, <2>6 DEF Agrees
  <2>8. c \in Book
    BY <2>3 DEF FifoGood
  <2> QED  BY <1>1, <1>3, <1>5, <1>6, <1>7, <2>2, <2>4, <2>7, <2>8 DEF Account
<1>8. CASE m # "fifo"
  <2>1. ReverseTrade(m, b, rs, i) \in Book
    BY <1>1, <1>2, <1>8, ReverseAverage
  <2> QED  BY <1>1, <1>3, <1>5, <1>6, <1>8, <2>1 DEF Account
<1> QED  BY <1>7, <1>8

\* A row replaced: taken out, then applied again.
LEMMA UpdatedRow ==
    ASSUME NEW m, NEW b, NEW rs, NEW n, Account(m, b, rs, n), NEW i \in Standing(rs),
           NEW r \in Trade, Priced(r), CanApply(m, ReverseTrade(m, b, rs, i), r),
           NEW rt, rt = [rs EXCEPT ![i] = r]
    PROVE  Account(m, Apply(m, ReverseTrade(m, b, rs, i), i, r), rt, n)
<1>1. /\ m \in {"average", "fifo"} /\ b \in Book /\ RowsOK(rs) /\ n \in Nat /\ n >= 1
      /\ \A j \in Standing(rs) : j < n /\ Priced(rs[j])
      /\ m = "fifo" => FifoGood(b, rs, Standing(rs))
  BY DEF Account
<1>2. i \in TradeId /\ rs[i] \in Trade /\ r # Absent
  BY <1>1, StandingRows, PositionConstants
<1>3. RowsOK(rt) /\ rt[i] = r /\ \A j \in TradeId : j # i => rt[j] = rs[j]
  BY <1>1, <1>2 DEF RowsOK
<1>4. PICK ids, c : ids = Standing(rs) \ {i} /\ c = ReverseTrade(m, b, rs, i)
  OBVIOUS
<1>5. Standing(rt) = Standing(rs) /\ ids \cup {i} = Standing(rt)
  BY <1>2, <1>3, <1>4 DEF Standing
<1>6. ids \in SUBSET TradeId /\ i \notin ids /\ \A j \in ids : rt[j] = rs[j]
  BY <1>1, <1>3, <1>4, StandingRows
<1>7. \A j \in Standing(rt) : j < n /\ Priced(rt[j])
  BY <1>1, <1>3, <1>4, <1>5, <1>6
<1>8. m = "fifo" => FifoGood(Apply(m, c, i, r), rt, Standing(rt))
  <2> SUFFICES ASSUME m = "fifo" PROVE FifoGood(Apply(m, c, i, r), rt, Standing(rt))
    OBVIOUS
  <2>1. c = Rebuilt("fifo", b, rs, i)
    BY <1>4 DEF ReverseTrade
  <2>2. FifoGood(c, rs, ids)
    BY <1>1, <1>4, <2>1, RebuiltFifo
  <2>3. Adds(rs, ids, i, rt)
    BY <1>2, <1>3, <1>6 DEF Adds
  <2>4. CanApply("fifo", c, rt[i])
    BY <1>3, <1>4
  <2>5. FifoGood(Apply("fifo", c, i, rt[i]), rt, ids \cup {i})
    BY ONLY <2>2, <2>3, <2>4, ApplyFifo
  <2> QED  BY <1>3, <1>5, <2>5
<1>9. Apply(m, c, i, r) \in Book
  <2>1. CASE m = "fifo"
    BY <1>8, <2>1 DEF FifoGood
  <2>2. CASE m # "fifo"
    <3>1. c \in Book
      BY <1>1, <1>2, <1>4, <2>2, ReverseAverage
    <3> QED  BY <1>4, <2>2, <3>1, ApplyAverage
  <2> QED  BY <2>1, <2>2
<1> QED  BY <1>1, <1>3, <1>4, <1>7, <1>8, <1>9 DEF Account

LEMMA CorrectedRow ==
    ASSUME NEW e \in TradeEdit, NEW r \in Trade, Priced(r),
           \/ e.qty = 0 /\ e.price = 0 /\ e.amount = 0
           \/ e.qty > 0 /\ e.price > 0 /\ e.amount > 0 /\ Priced(e)
    PROVE  Corrected(e, r) \in Trade /\ Priced(Corrected(e, r))
<1>1. PICK q, p, a, f, c : /\ q = (IF e.qty > 0 THEN e.qty ELSE r.qty)
                           /\ p = (IF e.price > 0 THEN e.price ELSE r.price)
                           /\ a = (IF e.amount > 0 THEN e.amount ELSE r.amount)
                           /\ f = (IF e.fee >= 0 THEN e.fee ELSE r.fee)
                           /\ c = Corrected(e, r)
  OBVIOUS
<1>2. e.qty \in Nat /\ e.price \in Nat /\ e.amount \in Nat /\ e.fee \in Nat \cup {-1}
  BY DEF TradeEdit
<1>3. /\ r.qty \in Nat \ {0} /\ r.price \in Nat \ {0} /\ r.amount \in Nat \ {0} /\ r.fee \in Nat
      /\ r.amount = Gross(r.price, r.qty)
  BY TradeTypes DEF Priced
<1>4. q \in Nat \ {0} /\ p \in Nat \ {0} /\ a \in Nat \ {0} /\ f \in Nat
  BY <1>1, <1>2, <1>3
<1>5. a = Gross(p, q)
  BY <1>1, <1>3 DEF Priced
<1>6. c = [r EXCEPT !.qty = q, !.price = p, !.amount = a, !.fee = f]
  BY <1>1 DEF Corrected
<1>7. c \in Trade /\ c.qty = q /\ c.price = p /\ c.amount = a
  BY ONLY <1>4, <1>6, r \in Trade DEF Trade
<1> QED  BY <1>1, <1>5, <1>7 DEF Priced

-----------------------------------------------------------------------------
(* The actions *)

LEMMA PositionStarts ==
    ASSUME PricedTrades, PositionInit
    PROVE  PositionInv
<1>1. PICK rs : rs = trades /\ rs = [i \in TradeId |-> Absent]
  BY DEF PositionInit
<1>2. RowsOK(rs) /\ Standing(rs) = {}
  BY <1>1 DEF RowsOK, Standing
<1>3. client \in Client /\ client.writes \in Nat /\ MaxRows \in Nat \ {0} /\ FirstBook \in Book
  BY PositionConstants DEF PositionInit, Client
<1>4. PositionTypeOK
  <2>1. nextTrade \in 1 .. MaxRows + 1 /\ writes \in 0 .. client.writes
    BY <1>3 DEF PositionInit
  <2> QED  BY <1>1, <1>2, <1>3, <2>1 DEF PositionInit, PositionTypeOK, RowsOK
<1>5. SameHoldings(EmptyBook, book)
  BY EmptyIsBook DEF PositionInit, PricedTrades, SameHoldings
<1>6. FifoGood(book, trades, {})
  BY <1>3, <1>5, EmptyGood, FifoHoldings DEF PositionInit
<1>7. Agrees(method, book, trades)
  <2>1. Replayed(method, rs, {}) = EmptyBook
    BY <1>2, ReplayUnfolds
  <2> QED  BY <1>1, <1>2, <1>5, <2>1 DEF Agrees
<1> QED  BY <1>1, <1>2, <1>4, <1>6, <1>7 DEF PositionInv

\* The account after a step whose client and method are as they were.
LEMMA AccountStep ==
    ASSUME PositionInv, UNCHANGED <<client, method>>, nextTrade' \in 1 .. MaxRows + 1,
           writes' \in 0 .. client.writes, Account(method, book', trades', nextTrade'),
           Orderly => Agrees(method, book', trades')
    PROVE  PositionInv'
<1>1. client \in Clients /\ method \in Methods
  BY InvIsAccount
<1>2. /\ book' \in Book /\ trades' \in [TradeId -> Trade \cup {Absent}]
      /\ \A i \in Standing(trades') : i < nextTrade' /\ Priced(trades'[i])
      /\ method = "fifo" => FifoGood(book', trades', Standing(trades'))
  BY DEF Account, RowsOK
<1>3. PositionTypeOK'
  BY <1>1, <1>2 DEF PositionTypeOK
<1>4. Orderly' => Orderly
  BY DEF Orderly
<1> QED  BY <1>2, <1>3, <1>4 DEF PositionInv

LEMMA CreateKeeps ==
    ASSUME PricedTrades, PositionInv, CreateTrade
    PROVE  PositionInv'
<1>1. PICK o \in TradeForms :
        /\ writes < client.writes /\ writes' = writes + 1 /\ nextTrade <= client.trades
        /\ client.backdates \/ \A i \in Standing(trades) : trades[i].date <= o.date
        /\ CanApply(method, book, o)
        /\ trades' = [trades EXCEPT ![nextTrade] = o]
        /\ book' = Apply(method, book, nextTrade, o)
        /\ nextTrade' = nextTrade + 1
        /\ UNCHANGED <<client, method>>
  BY DEF CreateTrade, MayWrite
<1>2. /\ Account(method, book, trades, nextTrade) /\ nextTrade \in 1 .. MaxRows + 1
      /\ client.trades \in TradeId /\ client.writes \in Nat /\ writes \in 0 .. client.writes
  BY InvIsAccount
<1>3. o \in Trade /\ Priced(o)
  BY PositionConstants DEF PricedTrades
<1>4. nextTrade \in TradeId /\ nextTrade' \in 1 .. MaxRows + 1 /\ writes' \in 0 .. client.writes
  BY <1>1, <1>2, PositionConstants DEF TradeId
<1>5. PICK m, b, rs, n, rt, c : /\ m = method /\ b = book /\ rs = trades /\ n = nextTrade
                                /\ rt = trades' /\ c = book'
  OBVIOUS
<1>6. /\ Account(m, b, rs, n) /\ n \in TradeId /\ o \in Trade /\ Priced(o) /\ CanApply(m, b, o)
      /\ rt = [rs EXCEPT ![n] = o] /\ c = Apply(m, b, n, o)
  BY <1>1, <1>2, <1>3, <1>4, <1>5
<1>11. Enters(m, b, rs, n, o, rt)
  BY <1>6 DEF Enters
<1>7. Account(m, c, rt, n + 1)
  BY <1>6, <1>11, CreatedRow DEF Entered
<1>8. Account(method, book', trades', nextTrade')
  BY <1>1, <1>5, <1>7
<1>9. ASSUME Orderly PROVE Agrees(method, book', trades')
  <2>1. Agrees(m, b, rs) /\ \A j \in Standing(rs) : rs[j].date <= o.date
    BY <1>1, <1>5, <1>9 DEF PositionInv, Orderly
  <2>2. Agrees(m, c, rt)
    BY <1>6, <1>11, <2>1, CreatedAgrees
  <2> QED  BY <1>5, <2>2
<1> QED  BY <1>1, <1>4, <1>8, <1>9, AccountStep

LEMMA UpdateKeeps ==
    ASSUME PricedTrades, PositionInv, UpdateTrade
    PROVE  PositionInv'
<1>1. PICK i \in Standing(trades), e \in client.edits :
        /\ writes < client.writes /\ writes' = writes + 1
        /\ CanApply(method, ReverseTrade(method, book, trades, i), Corrected(e, trades[i]))
        /\ trades' = [trades EXCEPT ![i] = Corrected(e, trades[i])]
        /\ book' = Apply(method, ReverseTrade(method, book, trades, i), i, Corrected(e, trades[i]))
        /\ UNCHANGED <<client, method, nextTrade>>
  BY DEF UpdateTrade, MayWrite
<1>2. /\ Account(method, book, trades, nextTrade) /\ nextTrade \in 1 .. MaxRows + 1
      /\ client \in Clients /\ client.writes \in Nat /\ writes \in 0 .. client.writes
      /\ client.edits \subseteq TradeEdit
  BY InvIsAccount
<1>3. PICK m, b, rs, n, rt, c, r : /\ m = method /\ b = book /\ rs = trades /\ n = nextTrade
                                   /\ rt = trades' /\ c = book' /\ r = Corrected(e, trades[i])
  OBVIOUS
<1>4. e \in TradeEdit /\ trades[i] \in Trade /\ Priced(trades[i])
  <2>1. RowsOK(trades) /\ \A j \in Standing(trades) : Priced(trades[j])
    BY <1>2 DEF Account
  <2> QED  BY <1>2, <2>1, StandingRows
<1>5. \/ e.qty = 0 /\ e.price = 0 /\ e.amount = 0
      \/ e.qty > 0 /\ e.price > 0 /\ e.amount > 0 /\ Priced(e)
  BY <1>2 DEF PricedTrades
<1>6. r \in Trade /\ Priced(r)
  BY <1>3, <1>4, <1>5, CorrectedRow
<1>7. /\ Account(m, b, rs, n) /\ i \in Standing(rs) /\ r \in Trade /\ Priced(r)
      /\ CanApply(m, ReverseTrade(m, b, rs, i), r) /\ rt = [rs EXCEPT ![i] = r]
      /\ c = Apply(m, ReverseTrade(m, b, rs, i), i, r)
  BY <1>1, <1>2, <1>3, <1>6
<1>8. Account(m, c, rt, n)
  BY ONLY <1>7, UpdatedRow
<1>9. Account(method, book', trades', nextTrade')
  BY <1>1, <1>3, <1>8
<1>10. ~ Orderly
  BY <1>1 DEF Orderly
<1>11. writes' \in 0 .. client.writes
  BY <1>1, <1>2
<1> QED  BY <1>1, <1>2, <1>9, <1>10, <1>11, AccountStep

LEMMA RemoveKeeps ==
    ASSUME PositionInv, RemoveTrade
    PROVE  PositionInv'
<1>1. PICK i \in Standing(trades) :
        /\ writes < client.writes /\ writes' = writes + 1 /\ method \in client.deletesIn
        /\ book' = ReverseTrade(method, book, trades, i)
        /\ trades' = [trades EXCEPT ![i] = Absent]
        /\ UNCHANGED <<client, method, nextTrade>>
  BY DEF RemoveTrade, MayWrite
<1>2. /\ Account(method, book, trades, nextTrade) /\ nextTrade \in 1 .. MaxRows + 1
      /\ client.writes \in Nat /\ writes \in 0 .. client.writes
  BY InvIsAccount
<1>3. PICK m, b, rs, n, rt, c : /\ m = method /\ b = book /\ rs = trades /\ n = nextTrade
                                /\ rt = trades' /\ c = book'
  OBVIOUS
<1>4. /\ Account(m, b, rs, n) /\ i \in Standing(rs) /\ rt = [rs EXCEPT ![i] = Absent]
      /\ c = ReverseTrade(m, b, rs, i)
  BY <1>1, <1>2, <1>3
<1>5. Account(m, c, rt, n) /\ (m = "fifo" => Agrees(m, c, rt))
  BY ONLY <1>4, RemovedRow
<1>6. Account(method, book', trades', nextTrade') /\ (method = "fifo" => Agrees(method, book', trades'))
  BY <1>1, <1>3, <1>5
<1>7. Orderly => method = "fifo"
  BY <1>1 DEF Orderly
<1>8. writes' \in 0 .. client.writes
  BY <1>1, <1>2
<1> QED  BY <1>1, <1>2, <1>6, <1>7, <1>8, AccountStep

LEMMA RebuildKeeps ==
    ASSUME PositionInv, RebuildPosition
    PROVE  PositionInv'
<1>1. book' = Rebuilt(method, book, trades, 0) /\ UNCHANGED <<client, method, trades, nextTrade, writes>>
  BY DEF RebuildPosition
<1>2. /\ Account(method, book, trades, nextTrade) /\ nextTrade \in 1 .. MaxRows + 1
      /\ writes \in 0 .. client.writes
  BY InvIsAccount
<1>3. PICK m, b, rs, n, c : m = method /\ b = book /\ rs = trades /\ n = nextTrade /\ c = book'
  OBVIOUS
<1>4. /\ m \in {"average", "fifo"} /\ b \in Book /\ RowsOK(rs) /\ n \in Nat /\ n >= 1
      /\ \A j \in Standing(rs) : j < n /\ Priced(rs[j])
      /\ m = "fifo" => FifoGood(b, rs, Standing(rs))
      /\ c = Rebuilt(m, b, rs, 0)
  BY <1>1, <1>2, <1>3 DEF Account
<1>5. Standing(rs) \ {0} = Standing(rs)
  BY <1>4, StandingRows DEF TradeId
<1>6. c \in Book
  BY <1>4, RebuiltIs
<1>7. m = "fifo" => FifoGood(c, rs, Standing(rs))
  BY <1>4, <1>5, RebuiltFifo
<1>8. Account(m, c, rs, n)
  BY <1>4, <1>6, <1>7 DEF Account
<1>9. ASSUME Orderly PROVE Agrees(m, c, rs)
  <2>1. Agrees(m, b, rs)
    BY <1>3, <1>9 DEF PositionInv
  <2> QED  BY <1>4, <2>1, RebuiltAgrees
<1>10. Account(method, book', trades', nextTrade')
  BY <1>1, <1>3, <1>8
<1>11. Orderly => Agrees(method, book', trades')
  BY <1>1, <1>3, <1>9
<1> QED  BY <1>1, <1>2, <1>10, <1>11, AccountStep

LEMMA QuoteKeeps ==
    ASSUME PositionInv, Quote
    PROVE  PositionInv'
<1>1. PICK p \in Quotes :
        /\ book' = [book EXCEPT !.net = p,
                        !.value = IF book.qty > 0 THEN Gross(p, book.qty) ELSE @]
        /\ UNCHANGED <<client, method, trades, nextTrade, writes>>
  BY DEF Quote
<1>2. /\ Account(method, book, trades, nextTrade) /\ nextTrade \in 1 .. MaxRows + 1
      /\ writes \in 0 .. client.writes
  BY InvIsAccount
<1>3. PICK m, b, rs, n, c : m = method /\ b = book /\ rs = trades /\ n = nextTrade /\ c = book'
  OBVIOUS
<1>4. PICK v : v = IF b.qty > 0 THEN Gross(p, b.qty) ELSE b.value
  OBVIOUS
<1>5. b \in Book /\ p \in Nat
  BY <1>2, <1>3, PositionConstants DEF Account
<1>6. v \in Int
  <2>1. b.qty \in Nat /\ b.value \in Int
    BY <1>5, BookTypes
  <2>2. Gross(p, b.qty) \in Nat
    BY <1>5, <2>1, GrossIsNat
  <2> QED  BY <1>4, <2>1, <2>2
<1>7. c = [b EXCEPT !.net = p, !.value = v]
  BY <1>1, <1>3, <1>4
<1>8. c \in Book /\ SameHoldings(b, c)
  BY ONLY <1>5, <1>6, <1>7 DEF Book, SameHoldings
<1>9. Account(m, b, rs, n)
  BY <1>2, <1>3
<1>10. Account(m, c, rs, n)
  BY <1>8, <1>9, FifoHoldings DEF Account
<1>11. Agrees(m, b, rs) => Agrees(m, c, rs)
  BY <1>8 DEF Agrees, SameHoldings
<1>12. Account(method, book', trades', nextTrade')
  BY <1>1, <1>3, <1>10
<1>13. Orderly => Agrees(method, book', trades')
  BY <1>1, <1>3, <1>11 DEF PositionInv
<1> QED  BY <1>1, <1>2, <1>12, <1>13, AccountStep

LEMMA PositionStep ==
    ASSUME PricedTrades, PositionInv, [PositionNext]_positionVars
    PROVE  PositionInv'
<1>1. CASE CreateTrade
  BY <1>1, CreateKeeps
<1>2. CASE UpdateTrade
  BY <1>2, UpdateKeeps
<1>3. CASE RemoveTrade
  BY <1>3, RemoveKeeps
<1>4. CASE RebuildPosition
  BY <1>4, RebuildKeeps
<1>5. CASE Quote
  BY <1>5, QuoteKeeps
<1>6. CASE UNCHANGED positionVars
  BY <1>6 DEF positionVars, PositionInv, PositionTypeOK, Orderly
<1> QED  BY <1>1, <1>2, <1>3, <1>4, <1>5, <1>6 DEF PositionNext

LEMMA PositionAlways == PricedTrades => (PositionSpec => []PositionInv)
<1> SUFFICES ASSUME PricedTrades PROVE PositionSpec => []PositionInv
  OBVIOUS
<1>1. PositionInit => PositionInv
  BY PositionStarts
<1>2. PositionInv /\ [PositionNext]_positionVars => PositionInv'
  BY PositionStep
<1> QED  BY <1>1, <1>2, PTL DEF PositionSpec

LEMMA InvCoversLots == ASSUME PositionInv PROVE LotsCovered
<1> SUFFICES ASSUME method = "fifo" PROVE LotsCoverPosition
  BY DEF LotsCovered, PositionInv, LotsCoverPosition
<1>1. PICK b, ls, rs : b = book /\ ls = b.lots /\ rs = trades
  OBVIOUS
<1>2. FifoGood(b, rs, Standing(rs))
  BY <1>1 DEF PositionInv
<1>3. /\ b \in Book /\ ls \in Seq(Lot) /\ Held(ls) = b.qty /\ b.cost - Worth(ls) \in - Rounding(ls) .. Rounding(ls)
      /\ InLine(ls) /\ Len(ls) = Cardinality(BuyRows(rs, Standing(rs)))
      /\ \A k \in 1 .. Len(ls) :
           /\ ls[k].tx \in BuyRows(rs, Standing(rs)) /\ ls[k].date = rs[ls[k].tx].date
           /\ ls[k].qty = rs[ls[k].tx].qty /\ ls[k].rem <= ls[k].qty
  BY <1>1, <1>2, BookTypes DEF FifoGood, Near, LotsOf
<1>4. DOMAIN ls = 1 .. Len(ls)
  BY <1>3, LotTypes
<1>5. BuyRows(rs, Standing(rs)) = {i \in Standing(trades) : trades[i].type = "buy"}
  BY <1>1 DEF BuyRows
<1>6. \A i \in BuyRows(rs, Standing(rs)) : i \in Standing(trades) /\ trades[i].type = "buy" /\ trades[i] = rs[i]
  BY <1>1 DEF BuyRows
<1>7. \A j, k \in DOMAIN ls : j <= k => ls[j].date <= ls[k].date
  BY <1>3 DEF InLine
<1> QED  BY <1>1, <1>3, <1>4, <1>5, <1>6, <1>7 DEF LotsCoverPosition

LEMMA InvOldestFirst == ASSUME PositionInv PROVE OrderlyOldestFirst
<1> SUFFICES ASSUME Orderly
             PROVE  \A j, k \in DOMAIN book.lots :
                      (j < k /\ book.lots[k].rem < book.lots[k].qty) => book.lots[j].rem = 0
  BY DEF OrderlyOldestFirst
<1>1. PICK m, b, rs, s, ls : /\ m = method /\ b = book /\ rs = trades /\ ls = b.lots
                             /\ s = Replayed(m, rs, Standing(rs))
  OBVIOUS
<1>2. Account(m, b, rs, nextTrade)
  BY <1>1, InvIsAccount
<1>3. m \in {"average", "fifo"} /\ b \in Book /\ RowsOK(rs) /\ \A i \in Standing(rs) : Priced(rs[i])
  BY <1>2 DEF Account
<1>4. s.lots = ls
  BY <1>1 DEF PositionInv, Agrees, SameHoldings
<1>5. ls \in Seq(Lot) /\ DOMAIN ls = 1 .. Len(ls)
  BY <1>1, <1>3, BookTypes, LotTypes
<1>6. OldestLots(ls)
  <2>1. CASE m = "fifo"
    BY <1>1, <1>3, <1>4, <2>1, ReplayFifo
  <2>2. CASE m # "fifo"
    <3>1. ls = <<>>
      BY <1>1, <1>3, <1>4, <2>2, ReplayAverage
    <3>2. EmptyBook.lots = ls
      BY <3>1, EmptyIsBook
    <3> QED  BY <3>2, EmptyGood
  <2> QED  BY <2>1, <2>2
<1> QED  BY <1>1, <1>5, <1>6 DEF OldestLots

LEMMA InvRebuildAgrees == ASSUME PositionInv PROVE OrderlyRebuildAgrees
<1> SUFFICES ASSUME Orderly PROVE RebuildAgrees
  BY DEF OrderlyRebuildAgrees
<1>1. PICK m, b, rs : m = method /\ b = book /\ rs = trades
  OBVIOUS
<1>2. Account(m, b, rs, nextTrade)
  BY <1>1, InvIsAccount
<1>3. b \in Book /\ RowsOK(rs) /\ \A i \in Standing(rs) : Priced(rs[i])
  BY <1>2 DEF Account
<1>4. Agrees(m, b, rs)
  BY <1>1 DEF PositionInv
<1>5. SameHoldings(Rebuilt(m, b, rs, 0), b)
  BY <1>3, <1>4, RebuiltAgrees
<1> QED  BY <1>1, <1>5 DEF RebuildAgrees, SameHoldings

(* Whatever the clients enter, backdate, edit and delete, the lots of a FIFO *)
(* account hold exactly its quantity, one lot per buy row, in the order of   *)
(* tx_lots_get_open, and their worth is its cost basis up to rounding; the   *)
(* lots and the position keep their types (ledger_calc_sell_position_fifo,   *)
(* ledger_rebuild_position_ex).                                              *)
THEOREM LotsCoveredAlways == PricedTrades => (PositionSpec => []LotsCovered)
<1>1. PositionInv => LotsCovered
  BY InvCoversLots
<1> QED  BY <1>1, PositionAlways, PTL

(* For clients who keep the order of dates, a lot is only drawn on when every *)
(* lot before it is used up (ledger_calc_sell_position_fifo).                 *)
THEOREM OldestFirstAlways == PricedTrades => (PositionSpec => []OrderlyOldestFirst)
<1>1. PositionInv => OrderlyOldestFirst
  BY InvOldestFirst
<1> QED  BY <1>1, PositionAlways, PTL

(* For clients who keep the order of dates and edit nothing, rebuilding the  *)
(* position from its rows gives the quantity, the cost and the lots that are *)
(* stored (ledger_rebuild_position against the steps it repeats).            *)
THEOREM RebuildAgreesAlways == PricedTrades => (PositionSpec => []OrderlyRebuildAgrees)
<1>1. PositionInv => OrderlyRebuildAgrees
  BY InvRebuildAgrees
<1> QED  BY <1>1, PositionAlways, PTL
=============================================================================
