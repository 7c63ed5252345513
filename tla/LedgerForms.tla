----------------------------- MODULE LedgerForms -----------------------------
(* The requests that clients send in the small instances of Ledger.        *)
EXTENDS Integers

CONSTANTS bank, card, stock, cny, usd, None

CNY_Only == [a \in {bank, card, stock} |-> cny]
UsdBank  == [a \in {bank, card, stock} |-> IF a = bank THEN usd ELSE cny]
Open10   == [a \in {bank, card} |-> IF a = bank THEN 10 ELSE 3]

form(t, a, l, m, f) == [type |-> t, asset |-> a, linked |-> l, amount |-> m,
                        fee |-> f, cur |-> cny]

\* A deposit, a purchase paid from the bank with a fee, a fee paid from a
\* linked account, interest, and a loss (which the engine refuses).
PlainOrders == {form("deposit", bank, None, 3, 0),
                form("buy", stock, bank, 5, 1),
                form("sell", stock, card, 2, 1),
                form("fee", card, bank, 1, 0),
                form("withdrawal", card, bank, 2, 1),
                form("loss", bank, None, 1, 0)}

patch(t, a, l, m, f) == [type |-> t, asset |-> a, linked |-> l, amount |-> m,
                         fee |-> f, cur |-> None]
PlainPatches == {patch(None, None, None, 4, -1),
                 patch(None, None, card, 0, 2),
                 patch("withdrawal", card, None, 0, 0)}

BankToCard == [from |-> bank, to |-> card, amount |-> 2, cur |-> cny]
PlainMoves == {BankToCard}
PlainBills == {[asset |-> bank, amount |-> 2, income |-> FALSE, cur |-> cny],
               [asset |-> card, amount |-> 1, income |-> TRUE, cur |-> cny]}

\* Interest on the card account, credited to the bank.
CashIncome == {[asset |-> bank, source |-> card, amount |-> 2]}

\* The forms behind the corner cases: a foreign-currency purchase, and transfer
\* halves entered as ordinary transactions.
OddOrders == {[form("buy", stock, bank, 3, 1) EXCEPT !.cur = usd],
              form("transfer_out", bank, card, 2, 0),
              form("transfer_in", card, bank, 2, 1)}
OddPatches == {patch("deposit", None, None, 4, -1)}
OneBill    == {[asset |-> card, amount |-> 3, income |-> FALSE, cur |-> usd]}
=============================================================================
