---------------------------- MODULE LedgerFacts ----------------------------
(***************************************************************************)
(* What the balances of module Ledger ought to be, computed from the rows  *)
(* that are the ledger's only facts, and the properties that compare the   *)
(* two.                                                                    *)
(***************************************************************************)
EXTENDS Ledger, Sums

\* What row r does to account a at rate q: the in half of a transfer does
\* nothing, the out half carries both legs.
Effect(r, a, q) ==
    LET leg(x, m) == IF x = a THEN Signed(a, Convert(m, r.cur, a, q)) ELSE 0
    IN  IF r.type = "transfer_in" /\ r.parent # None THEN 0
        ELSE (IF HasTarget(r) THEN leg(r.asset, Delta(r)) ELSE 0)
             + leg(r.linked, LinkedDelta(r))

\* A row is worth what it was worth at the rate stamped on it, a fee row at
\* the rate stamped on its parent.
RateOf(d, r) == LET s == IF r.parent = None THEN r ELSE d.rows[r.parent]
                IN  IF s.fx = 0 THEN 1 ELSE s.fx


RowWorth(d, a) ==
    [i \in TxId |-> IF Live(d, i) THEN Effect(d.rows[i], a, RateOf(d, d.rows[i])) ELSE 0]
BillEffect(b, a) == IF b # None /\ b.asset = a THEN Signed(a, Credit(b)) ELSE 0
BillWorth(d, a) == [e \in ExpId |-> BillEffect(d.exps[e], a)]

Explained(d, a) == Opening[a] + Total(RowWorth(d, a), MaxTx) + Total(BillWorth(d, a), MaxExp)

\* Halves of a transfer are only written by transfer_usecase_create.
WholeTransfers ==
    /\ ~ EditPairs
    /\ \A o \in Orders : o.type \notin Halves
    /\ \A p \in Patches : p.type \notin Halves

\* And there is one worker, one currency, and no income is confirmed
\* (cashflow_usecase_confirm_income posts one leg of the two it stores).
PlainBooks ==
    /\ WholeTransfers /\ Incomes = {}
    /\ \A c, d \in Currency : c = d
    /\ \A v, w \in Workers : v = w

\* No statement has failed unnoticed, and no two requests have met.
Undisturbed == ~lapsed /\ ~mixed

(* Every committed balance is the opening balance plus the effects of the  *)
(* rows that exist: creating, editing and deleting rows in any order, with *)
(* any statement failing that the code checks, leaves nothing behind       *)
(* (tx_usecase_create / update / delete, transfer_usecase_create, the      *)
(* daily expense use cases).  It is about clients as in PlainBooks.        *)
Reconciled == Undisturbed => \A a \in Own : db.cur[a] = Explained(db, a)

(* Once every row has been deleted again, every account is back at its     *)
(* opening balance (ledger_reverse_tx undoes what ledger_apply_tx did), as *)
(* long as nothing has failed unnoticed.                                   *)
NothingLeftBehind ==
    (/\ Undisturbed
     /\ \A i \in TxId : ~Live(db, i)
     /\ \A e \in ExpId : db.exps[e] = None) => db.cur = Opening

(* The two halves of a transfer and its transfers record live and die      *)
(* together, and agree on accounts and amount, as long as halves are only  *)
(* written by transfer_usecase_create (the pairing rule stated in          *)
(* tx_usecase_delete) and no unchecked statement has failed.               *)
PairsWhole(d) ==
    /\ \A x \in d.xfers :
        /\ Live(d, x.fromTx) /\ Live(d, x.toTx)
        /\ LET o == d.rows[x.fromTx]
               n == d.rows[x.toTx]
           IN  /\ o.type = "transfer_out" /\ n.type = "transfer_in"
               /\ n.parent = x.fromTx
               /\ o.asset = x.from /\ o.linked = x.to
               /\ n.asset = x.to /\ n.linked = x.from
               /\ o.amount = x.amount /\ n.amount = x.amount
    /\ \A i \in TxId : Live(d, i) /\ d.rows[i].type \in Halves
        => \E x \in d.xfers : i \in {x.fromTx, x.toTx}
PairsIntact == Undisturbed => PairsWhole(db)

(* A row has at most one fee row, of the amount its fee field states and    *)
(* charged to the account that pays its fees; a row without a fee has none, *)
(* and no child outlives its parent (ledger_apply_tx writes the fee row,    *)
(* ledger_reverse_tx takes it away before it is written anew), as long as   *)
(* none of the unchecked statements about it has failed.                    *)
FeesMatch(d) ==
    \A i \in TxId : Live(d, i) =>
        LET r    == d.rows[i]
            kids == FeeChildren(d, i)
        IN  /\ r.parent # None => Live(d, r.parent)
            /\ \A j, k \in kids : j = k
            /\ \A j \in kids :
                /\ r.type # "fee" /\ r.fee # 0
                /\ d.rows[j].amount = r.fee
                /\ d.rows[j].linked = Payer(r)
FeeRowsMatch == Undisturbed => FeesMatch(db)
=============================================================================
