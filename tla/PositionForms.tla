---------------------------- MODULE PositionForms ----------------------------
(* The clients of the small instances of Positions and the trades they send. *)
EXTENDS Integers, Sequences

\* Amounts in hundredths, prices in ten-thousandths.
TradeForm(t, d, q, p, a, f, o) == [type |-> t, date |-> d, qty |-> q, price |-> p,
                                   amount |-> a, fee |-> f, own |-> o]

\* Buys of 3 at 3.3333 (fee 0.05) and 1 at 10 a day later, of 2 at 2.5 charged
\* to the position itself; sales of 1 and 2.
FewTrades == {TradeForm("buy", 1, 3, 33333, 1000, 5, FALSE),
              TradeForm("buy", 2, 1, 100000, 1000, 0, FALSE),
              TradeForm("buy", 3, 2, 25000, 500, 1, TRUE),
              TradeForm("sell", 2, 1, 50000, 500, 1, FALSE),
              TradeForm("sell", 3, 2, 40000, 800, 0, TRUE)}

NoPosition == [qty |-> 0, cost |-> 0, net |-> 0, value |-> 0, lots |-> <<>>]

\* The fee of a trade corrected, or the trade split in two.
Corrections == {[qty |-> 0, price |-> 0, amount |-> 0, fee |-> 7],
                [qty |-> 1, price |-> 50000, amount |-> 500, fee |-> -1]}

FreeClient    == [backdates |-> TRUE, edits |-> Corrections,
                  deletesIn |-> {"average", "fifo"}, trades |-> 4, writes |-> 5]
OrderlyClient == [backdates |-> FALSE, edits |-> {},
                  deletesIn |-> {"fifo"}, trades |-> 5, writes |-> 6]
DeletingClient == [OrderlyClient EXCEPT !.deletesIn = {"average"}]

BothClients == {FreeClient, OrderlyClient}
OneDeleting == {DeletingClient}
=============================================================================
