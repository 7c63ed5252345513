--------------------------------- MODULE Dca ---------------------------------
(***************************************************************************)
(* Dollar-cost averaging: plans, the executions the market scheduler       *)
(* generates for them once a day, and their confirmation, which buys.      *)
(*                                                                         *)
(* A confirmation reads the execution, and only then opens the scope in    *)
(* which it buys and marks it (dca/usecases.c): calls, skips and deletions *)
(* fall in between.  The scope itself is one step, see Transactions in the *)
(* README.                                                                 *)
(***************************************************************************)
EXTENDS Naturals, FiniteSets

CONSTANTS
    Plans,
    Schedules,   \* the (frequency, day_of_period) a plan may be given
    LastDay,     \* bound: days 1 .. LastDay, of one month that starts on a Monday
    Confirmers,  \* request threads
    MaxTrades    \* bound on the buys

ASSUME DcaAssumption == LastDay \in Nat \ {0} /\ MaxTrades \in Nat

Days == 1 .. LastDay
Executions == Plans \X Days
NoTrade == 0
Nothing == << >>  \* no execution: not yet, not any more

VARIABLES
    day,         \* today
    plan,        \* the row of each plan
    exec,        \* the row of each (plan, period_date): at most one, by index
    trade,       \* transactions bought: id -> the execution, Nothing when deleted
    confirming,  \* thread -> the execution and the status it read, or Nothing
    due,         \* the plans the scheduler still goes through today
    checked,     \* the scheduler has read the list today
    raced,       \* executions that left "pending" between check and buy
    unmarked     \* executions whose buy was committed without marking them

dcaVars == <<day, plan, exec, trade, confirming, due, checked, raced, unmarked>>

NoRow == [status |-> "none", tx |-> NoTrade]

DcaInit ==
    /\ day = 1
    /\ plan = [p \in Plans |-> [status |-> "none"]]
    /\ exec = [e \in Executions |-> NoRow]
    /\ trade = << >>
    /\ confirming = [t \in Confirmers |-> Nothing]
    /\ due = {}
    /\ checked = FALSE
    /\ raced = {}
    /\ unmarked = {}

Exists(p) == plan[p].status \notin {"none", "deleted"}

----------------------------------------------------------------------------
(* Plans *)

CreatePlan(p, s) ==
    /\ plan[p].status = "none"
    /\ plan' = [plan EXCEPT ![p] = [status |-> "active", sched |-> s]]
    /\ UNCHANGED <<day, exec, trade, confirming, due, checked, raced, unmarked>>

UpdatePlan(p, s) ==
    /\ Exists(p)
    /\ plan' = [plan EXCEPT ![p].sched = s]
    /\ UNCHANGED <<day, exec, trade, confirming, due, checked, raced, unmarked>>

SetPlanStatus(p, status) ==
    /\ Exists(p)
    /\ plan' = [plan EXCEPT ![p].status = status]
    /\ UNCHANGED <<day, exec, trade, confirming, due, checked, raced, unmarked>>

\* Its executions go with it (ON DELETE CASCADE), what they bought does not.
DeletePlan(p) ==
    /\ Exists(p)
    /\ plan' = [plan EXCEPT ![p] = [status |-> "deleted"]]
    /\ exec' = [e \in Executions |-> IF e[1] = p THEN NoRow ELSE exec[e]]
    /\ UNCHANGED <<day, trade, confirming, due, checked, raced, unmarked>>

----------------------------------------------------------------------------
(* The scheduler: check_and_trigger_dca_plans, without its mutex *)

WeekDay(d) == ((d - 1) % 7) + 1

\* Any other frequency, biweekly among them, never comes due.
DueOn(s, d) == \/ s.freq = "weekly" /\ s.day = WeekDay(d)
               \/ s.freq = "monthly" /\ s.day = d

\* The list is read once.
ListPlans ==
    /\ ~checked
    /\ due' = {p \in Plans : plan[p].status = "active" /\ DueOn(plan[p].sched, day)}
    /\ checked' = TRUE
    /\ UNCHANGED <<day, plan, exec, trade, confirming, raced, unmarked>>

\* mf_dca_repo_execution_create: an existing row is reused, a plan deleted
\* since it was listed fails the foreign key.
Generate(p) ==
    /\ p \in due
    /\ due' = due \ {p}
    /\ exec' = IF Exists(p) /\ exec[<<p, day>>].status = "none"
               THEN [exec EXCEPT ![<<p, day>>].status = "pending"]
               ELSE exec
    /\ UNCHANGED <<day, plan, trade, confirming, checked, raced, unmarked>>

\* Midnight.  A day may pass without its check: the server is down, or the
\* list could not be read, for the loop notes the day before it calls.
NextDay ==
    /\ day < LastDay /\ due = {}
    /\ day' = day + 1
    /\ checked' = FALSE
    /\ UNCHANGED <<plan, exec, trade, confirming, due, raced, unmarked>>

----------------------------------------------------------------------------
(* Executions *)

\* Slip: the status is not looked at.
ReadPending_AnyStatus(t, e) ==
    /\ confirming[t] = Nothing
    /\ exec[e].status # "none"
    /\ confirming' = [confirming EXCEPT ![t] = <<e[1], e[2], exec[e].status>>]
    /\ UNCHANGED <<day, plan, exec, trade, due, checked, raced, unmarked>>

\* The execution is found and pending.
ReadPending(t, e) ==
    /\ confirming[t] = Nothing
    /\ exec[e].status = "pending"
    /\ confirming' = [confirming EXCEPT ![t] = <<e[1], e[2], exec[e].status>>]
    /\ UNCHANGED <<day, plan, exec, trade, due, checked, raced, unmarked>>

\* The scope, the buy or the commit fails: nothing is kept.
ConfirmFails(t) ==
    /\ confirming[t] # Nothing
    /\ confirming' = [confirming EXCEPT ![t] = Nothing]
    /\ UNCHANGED <<day, plan, exec, trade, due, checked, raced, unmarked>>

\* UPDATE dca_executions ... WHERE id = ?, which may miss the row or fail;
\* nobody looks at its result.
Marked(e, x) == [exec EXCEPT ![e] = [status |-> "confirmed", tx |-> x]]

NextTrade == Cardinality(DOMAIN trade) + 1

BuyAndMark(t) ==
    /\ confirming[t] # Nothing
    /\ NextTrade <= MaxTrades
    /\ LET e == <<confirming[t][1], confirming[t][2]>>
           lost == confirming[t][3] = "pending" /\ exec[e].status # "pending" IN
       /\ trade' = [x \in 1 .. NextTrade |-> IF x = NextTrade THEN e ELSE trade[x]]
       /\ raced' = IF lost THEN raced \union {e} ELSE raced
       /\ \/ /\ exec[e].status # "none"
             /\ exec' = Marked(e, NextTrade)
             /\ UNCHANGED unmarked
          \/ unmarked' = unmarked \union {e} /\ UNCHANGED exec
    /\ confirming' = [confirming EXCEPT ![t] = Nothing]
    /\ UNCHANGED <<day, plan, due, checked>>

\* Whatever the status was.
Skip(e) ==
    /\ exec[e].status # "none"
    /\ exec' = [exec EXCEPT ![e].status = "skipped"]
    /\ UNCHANGED <<day, plan, trade, confirming, due, checked, raced, unmarked>>

\* Slip: foreign keys are off.
DeleteTrade_NoForeignKey(x) ==
    /\ x \in DOMAIN trade /\ trade[x] # Nothing
    /\ trade' = [trade EXCEPT ![x] = Nothing]
    /\ UNCHANGED <<day, plan, exec, confirming, due, checked, raced, unmarked>>

\* Deleting a transaction: refused while an execution refers to it.
DeleteTrade(x) ==
    /\ x \in DOMAIN trade /\ trade[x] # Nothing
    /\ \A e \in Executions : exec[e].tx # x
    /\ trade' = [trade EXCEPT ![x] = Nothing]
    /\ UNCHANGED <<day, plan, exec, confirming, due, checked, raced, unmarked>>

DcaNext ==
    \/ \E p \in Plans, s \in Schedules : CreatePlan(p, s) \/ UpdatePlan(p, s)
    \/ \E p \in Plans, st \in {"active", "paused", "completed"} : SetPlanStatus(p, st)
    \/ \E p \in Plans : DeletePlan(p)
    \/ ListPlans \/ NextDay
    \/ \E p \in Plans : Generate(p)
    \/ \E t \in Confirmers, e \in Executions : ReadPending(t, e)
    \/ \E t \in Confirmers : ConfirmFails(t) \/ BuyAndMark(t)
    \/ \E e \in Executions : Skip(e)
    \/ \E x \in 1 .. MaxTrades : DeleteTrade(x)

DcaSpec == DcaInit /\ [][DcaNext]_dcaVars

----------------------------------------------------------------------------
Buys(e) == {x \in DOMAIN trade : trade[x] = e}

\* A confirmed execution names the buy that was made for it, and that buy is
\* still in the books: it is marked in the scope that buys, and the foreign key
\* keeps the transaction until the execution is gone.
ConfirmedHasBuy ==
    \A e \in Executions : exec[e].status = "confirmed" => exec[e].tx \in Buys(e)

\* A buy its execution does not name was made by a confirmation that lost a
\* race after its check, or whose mark failed: confirmations one after the
\* other never buy twice, and a skipped execution is not bought later.
BuysAccounted ==
    \A e \in Executions : exec[e].status # "none" /\ Buys(e) \ {exec[e].tx} # {}
                            => e \in raced \union unmarked

=============================================================================
