-------------------------- MODULE AuditedAccounts --------------------------
(***************************************************************************)
(* What the ledger promises about the balance of an account, whatever the  *)
(* use cases do: it moves only together with rows appended to the audit    *)
(* log, no logged row is ever rewritten, and every row carries the balance *)
(* it led to; until two requests meet on the one database connection, when *)
(* the promise ends.                                                       *)
(***************************************************************************)
EXTENDS Integers, Sequences

CONSTANTS Accounts, Opening, Logged

VARIABLES
    cur,    \* the balance of each account
    log,    \* its audit rows
    mixed   \* whether two requests have met

Extends(s, t) == Len(s) <= Len(t) /\ \A i \in 1..Len(s) : t[i] = s[i]

\* Row i of log l leads from the balance before it to the one it records.
Follows(l, i, start) ==
    l[i].after = l[i].delta + (IF i = 1 THEN start ELSE l[i - 1].after)

\* The balance the log l ends at, for an account that had none before it.
Ending(l, start) == IF l = <<>> THEN start ELSE l[Len(l)].after

Init == /\ cur = Opening
        /\ log = [a \in Accounts |->
                    IF a \in Logged
                    THEN <<[delta |-> Opening[a], after |-> Opening[a],
                            src |-> "init"]>>
                    ELSE <<>>]
        /\ mixed = FALSE

\* Any number of postings to any accounts, at once.
Settle ==
    /\ DOMAIN cur' = Accounts /\ DOMAIN log' = Accounts
    /\ \A a \in Accounts :
        /\ Extends(log[a], log'[a])
        /\ \A i \in Len(log[a]) + 1 .. Len(log'[a]) :
                Follows(log'[a], i, cur[a])
        /\ cur'[a] = Ending(log'[a], cur[a])

Next == \/ ~mixed /\ Settle /\ UNCHANGED mixed
        \/ mixed' = TRUE

Spec == Init /\ [][Next]_<<cur, log, mixed>>
=============================================================================
