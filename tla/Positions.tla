------------------------------ MODULE Positions ------------------------------
(***************************************************************************)
(* The position of one investment account: its quantity, cost basis, price *)
(* and value, the FIFO lots behind it, and the buy and sell rows it is     *)
(* rebuilt from (backend/src/core/ledger/ledger_engine.c and               *)
(* common/balance.c).  Each use case runs in one transaction scope and is  *)
(* one action here; module Ledger shows what happens inside a scope.       *)
(*                                                                         *)
(* Money is counted in its smallest unit and prices in 1/PriceUnit of it   *)
(* (PriceUnit = 100 in the code: four decimals against two).  The trades   *)
(* are in the currency of the account.                                     *)
(***************************************************************************)
EXTENDS Integers, Sequences, SequencesExt, FiniteSetsExt, Sums

CONSTANTS
    Absent,      \* no row
    Methods,     \* cost methods the account may have
    FirstBook,   \* the position the account is opened with
    TradeForms,  \* the trades clients enter
    Clients,     \* the kinds of clients, see Client
    Quotes,      \* market quotes
    PriceUnit,
    RatioUnit,   \* the ratios are rounded to 1/RatioUnit (10^12 in the code)
    MaxRows    \* rows there may be (bound)

TradeId == 1 .. MaxRows

\* own: the trade names no linked account, so its fee is charged to the
\* position itself.
Trade == [type : {"buy", "sell"}, date : Nat, qty : Nat \ {0},
          price : Nat \ {0}, amount : Nat \ {0}, fee : Nat, own : BOOLEAN]
Lot == [tx : TradeId, date : Nat, qty : Nat, rem : Nat, cpu : Nat]
Book == [qty : Nat, cost : Nat, net : Nat, value : Int, lots : Seq(Lot)]

\* The partial form of an update: 0 (fee: -1) leaves a field as it is.
TradeEdit == [qty : Nat, price : Nat, amount : Nat, fee : Nat \cup {-1}]

\* What clients do: enter trades out of date order, edit them, delete them from
\* an account of these cost methods.  trades and writes bound what they enter.
Client == [backdates : BOOLEAN, edits : SUBSET TradeEdit,
           deletesIn : SUBSET {"average", "fifo"},
           trades : TradeId, writes : Nat]

ASSUME PositionConstants ==
    /\ Methods \subseteq {"average", "fifo"}
    /\ FirstBook \in Book
    /\ TradeForms \subseteq Trade /\ Absent \notin Trade
    /\ Clients \subseteq Client
    /\ Quotes \subseteq Nat
    /\ PriceUnit \in Nat \ {0} /\ RatioUnit \in Nat \ {0} /\ MaxRows \in Nat \ {0}

VARIABLES
    client,    \* who uses the account
    method,    \* assets.cost_method
    book,      \* the assets row and its transaction_lots
    trades,    \* the buy and sell rows
    nextTrade, \* id of the next row
    writes     \* writes so far (bound)

positionVars == <<client, method, book, trades, nextTrade, writes>>

-----------------------------------------------------------------------------
(* Arithmetic *)

RoundHalfUp(m, q) == (2 * m + q) \div (2 * q)
Gross(p, q)   == RoundHalfUp(p * q, PriceUnit)       \* price_times_quantity
PerUnit(m, q) == RoundHalfUp(m * PriceUnit, q)       \* money_div_quantity
Floor0(n)     == IF n > 0 THEN n ELSE 0

\* The amount of the trade is what the replay will make of it.
Priced(r) == r.amount = Gross(r.price, r.qty)

\* The part of m that q is of all: decimal_div to 12 digits, then decimal_mul
\* and decimal_round.
Share(m, q, all) == RoundHalfUp(m * RoundHalfUp(q * RatioUnit, all), RatioUnit)

-----------------------------------------------------------------------------
(* Lots, in the order of tx_lots_get_open: by buy_date, then by id.  A used  *)
(* up lot stays in the list and adds nothing to a total.                     *)

Rem(ls)   == [k \in DOMAIN ls |-> ls[k].rem]
Held(ls)  == Total(Rem(ls), Len(ls))
Worth(ls) == Total([k \in DOMAIN ls |-> Gross(ls[k].cpu, ls[k].rem)], Len(ls))

\* A slip: the newest lot first.
TakenNewest(ls, q) == [k \in DOMAIN ls |->
    Min({ls[k].rem, Floor0(q - (Held(ls) - Total(Rem(ls), k)))})]

\* What a sale of q takes from lot k: what the earlier lots leave of it.
Taken(ls, q) == [k \in DOMAIN ls |->
    Min({ls[k].rem, Floor0(q - Total(Rem(ls), k - 1))})]

Sold(ls, q)  == Total([k \in DOMAIN ls |-> Gross(ls[k].cpu, Taken(ls, q)[k])], Len(ls))
Drawn(ls, q) == [k \in DOMAIN ls |-> [ls[k] EXCEPT !.rem = @ - Taken(ls, q)[k]]]

\* After the lots of its day and of earlier days.
Place(ls, l) == CHOOSE p \in 1 .. Len(ls) + 1 :
    \A k \in DOMAIN ls : k < p <=> ls[k].date <= l.date

\* tx_lot_create, for a buy of a FIFO account.
NewLot(i, r) == [tx |-> i, date |-> r.date, qty |-> r.qty, rem |-> r.qty,
                 cpu |-> PerUnit(r.amount + r.fee, r.qty)]
WithLot(m, ls, i, r) ==
    IF m # "fifo" THEN ls ELSE InsertAt(ls, Place(ls, NewLot(i, r)), NewLot(i, r))

-----------------------------------------------------------------------------
(* Selling *)

\* A slip: a sale that takes from every lot as much as it can.
SellFifoTwice(b, r) ==
    LET left == Held(b.lots) - r.qty
    IN  [b EXCEPT !.qty  = left,
                  !.cost = IF left = 0 THEN 0 ELSE Floor0(Worth(b.lots) - Sold(b.lots, r.qty)),
                  !.lots = [k \in DOMAIN @ |-> [@[k] EXCEPT !.rem = Floor0(@ - r.qty)]]]

\* ledger_calc_sell_position_fifo: quantity and cost are what the lots hold.
SellFifo(b, r) ==
    LET left == Held(b.lots) - r.qty
    IN  [b EXCEPT !.qty  = left,
                  !.cost = IF left = 0 THEN 0 ELSE Floor0(Worth(b.lots) - Sold(b.lots, r.qty)),
                  !.lots = Drawn(@, r.qty)]

\* ledger_calc_sell_position: the cost goes down in proportion.
SellAverage(b, r) ==
    [b EXCEPT !.qty  = @ - r.qty,
              !.cost = IF r.qty = b.qty THEN 0
                       ELSE @ - Share(@, r.qty, b.qty)]

\* Whether there is enough to sell.
FifoCovers(b, r)    == r.qty <= Held(b.lots)
AverageCovers(b, r) == r.qty <= b.qty
CanApply(m, b, r) ==
    r.type = "sell" => IF m = "fifo" THEN FifoCovers(b, r) ELSE AverageCovers(b, r)

-----------------------------------------------------------------------------
(* apply_position_fc, with the fee row and the posting of the difference to  *)
(* current_value that ledger_apply_tx makes of it.                           *)

\* A buy that costs c.
Bought(m, b, i, r, c) == [b EXCEPT !.lots = WithLot(m, @, i, r),
                                   !.qty = @ + r.qty, !.cost = @ + c, !.net = r.price]

Traded(m, b, i, r) ==
    IF r.type = "buy" THEN Bought(m, b, i, r, r.amount + r.fee)
    ELSE IF m = "fifo" THEN SellFifo(b, r) ELSE SellAverage(b, r)

Apply(m, b, i, r) ==
    LET t == Traded(m, b, i, r)
    IN  [t EXCEPT !.value = Gross(t.net, t.qty) - (IF r.own THEN r.fee ELSE 0)]

-----------------------------------------------------------------------------
(* ledger_rebuild_position_ex *)

\* A slip: the fee left out of the cost when a buy is replayed.
ReplayNoFee(m, b, i, r) ==
    IF r.type = "buy" THEN Bought(m, b, i, r, Gross(r.price, r.qty))
    ELSE IF m = "fifo" /\ FifoCovers(b, r) THEN SellFifo(b, r)
    ELSE IF AverageCovers(b, r) THEN SellAverage(b, r) ELSE b

\* A replayed buy costs price times quantity, whatever its amount says; a sale
\* the position does not cover is skipped.
ReplayTrade(m, b, i, r) ==
    IF r.type = "buy" THEN Bought(m, b, i, r, Gross(r.price, r.qty) + r.fee)
    ELSE IF m = "fifo" /\ FifoCovers(b, r) THEN SellFifo(b, r)
    ELSE IF AverageCovers(b, r) THEN SellAverage(b, r) ELSE b

Standing(rs) == {i \in TradeId : rs[i] # Absent}

\* The last of the rows S by date and id.
LastTrade(rs, S) == CHOOSE i \in S : \A j \in S :
    rs[j].date < rs[i].date \/ (rs[j].date = rs[i].date /\ j <= i)

\* The rows S replayed in that order, from nothing and without lots.
Replayed(m, rs, S) ==
    LET replay[T \in SUBSET Standing(rs)] ==
          IF T = {} THEN [qty |-> 0, cost |-> 0, net |-> 0, value |-> 0, lots |-> <<>>]
          ELSE LET i == LastTrade(rs, T)
               IN  ReplayTrade(m, replay[T \ {i}], i, rs[i])
    IN  replay[S]

\* Valued at its price, at the price of old when b has none.
Revalued(b, old) == LET net == IF b.net = 0 THEN old.net ELSE b.net
                    IN  [b EXCEPT !.net = net, !.value = Gross(net, b.qty)]

\* The position rebuilt from every row but skip.  Without rows it is kept as it
\* is, unless a row is being taken out.
Keeping(b, old) == [b EXCEPT !.qty = old.qty, !.cost = old.cost, !.net = old.net]
Rebuilt(m, b, rs, skip) ==
    LET ids == Standing(rs) \ {skip}
        sum == Replayed(m, rs, ids)
    IN  Revalued(IF ids = {} /\ skip = 0 THEN Keeping(sum, b) ELSE sum, b)

-----------------------------------------------------------------------------
(* ledger_reverse_tx: FIFO accounts are rebuilt without the row, the others  *)
(* run rollback_position_fc                                                  *)

Unbuy(b, r) ==
    LET qty == Floor0(b.qty - r.qty)
    IN  [b EXCEPT !.qty  = qty,
                  !.cost = Floor0(@ - (r.amount + r.fee)),
                  !.net  = IF qty = 0 THEN 0 ELSE @]
Unsell(b, r) ==
    [b EXCEPT !.qty  = @ + r.qty,
              !.cost = @ + (IF b.qty # 0 THEN Share(@, r.qty, b.qty)
                            ELSE Gross(r.price, r.qty))]

ReverseTrade(m, b, rs, i) ==
    IF m = "fifo" THEN Rebuilt(m, b, rs, i) ELSE
    LET r == rs[i]
        t == IF r.type = "buy" THEN Unbuy(b, r) ELSE Unsell(b, r)
    IN  [t EXCEPT !.value = Gross(t.net, t.qty)]

-----------------------------------------------------------------------------
PositionInit ==
    /\ client \in Clients
    /\ method \in Methods
    /\ book = FirstBook
    /\ trades = [i \in TradeId |-> Absent]
    /\ nextTrade = 1
    /\ writes = 0

MayWrite == writes < client.writes /\ writes' = writes + 1

\* tx_usecase_create
CreateTrade == \E o \in TradeForms :
    /\ MayWrite /\ nextTrade <= client.trades
    /\ client.backdates \/ \A i \in Standing(trades) : trades[i].date <= o.date
    /\ CanApply(method, book, o)
    /\ trades' = [trades EXCEPT ![nextTrade] = o]
    /\ book' = Apply(method, book, nextTrade, o)
    /\ nextTrade' = nextTrade + 1
    /\ UNCHANGED <<client, method>>

Corrected(e, r) ==
    [r EXCEPT !.qty    = IF e.qty > 0 THEN e.qty ELSE @,
              !.price  = IF e.price > 0 THEN e.price ELSE @,
              !.amount = IF e.amount > 0 THEN e.amount ELSE @,
              !.fee    = IF e.fee >= 0 THEN e.fee ELSE @]

\* tx_usecase_update: the old trade is taken out, the new one applied last.
UpdateTrade == \E i \in Standing(trades), e \in client.edits :
    LET r == Corrected(e, trades[i])
        b == ReverseTrade(method, book, trades, i)
    IN  /\ MayWrite
        /\ CanApply(method, b, r)
        /\ trades' = [trades EXCEPT ![i] = r]
        /\ book' = Apply(method, b, i, r)
        /\ UNCHANGED <<client, method, nextTrade>>

\* tx_usecase_delete
RemoveTrade == \E i \in Standing(trades) :
    /\ MayWrite /\ method \in client.deletesIn
    /\ book' = ReverseTrade(method, book, trades, i)
    /\ trades' = [trades EXCEPT ![i] = Absent]
    /\ UNCHANGED <<client, method, nextTrade>>

\* ledger_rebuild_position
RebuildPosition == /\ book' = Rebuilt(method, book, trades, 0)
                   /\ UNCHANGED <<client, method, trades, nextTrade, writes>>

\* asset_update_market_quote
Quote == \E p \in Quotes :
    /\ book' = [book EXCEPT !.net = p,
                    !.value = IF book.qty > 0 THEN Gross(p, book.qty) ELSE @]
    /\ UNCHANGED <<client, method, trades, nextTrade, writes>>

PositionNext == CreateTrade \/ UpdateTrade \/ RemoveTrade \/ RebuildPosition \/ Quote
PositionSpec == PositionInit /\ [][PositionNext]_positionVars

-----------------------------------------------------------------------------
(* Properties *)

\* The account is opened with nothing, and every trade is entered and edited
\* with an amount of price times quantity.
PricedTrades ==
    /\ FirstBook.qty = 0 /\ FirstBook.cost = 0 /\ FirstBook.lots = <<>>
    /\ \A o \in TradeForms : Priced(o)
    /\ \A c \in Clients : \A e \in c.edits :
         \/ e.qty = 0 /\ e.price = 0 /\ e.amount = 0
         \/ e.qty > 0 /\ e.price > 0 /\ e.amount > 0 /\ Priced(e)

(* The position and its lots keep their types: in particular no quantity,  *)
(* cost or remaining quantity is ever negative.                            *)
PositionTypeOK ==
    /\ client \in Clients /\ method \in Methods /\ book \in Book
    /\ trades \in [TradeId -> Trade \cup {Absent}]
    /\ nextTrade \in 1 .. MaxRows + 1 /\ writes \in 0 .. client.writes

\* What rounding may put between the cost of a buy and the worth of its lot:
\* one unit, and the last digit of the unit cost for every unit bought.
Rounding(ls) == Total([k \in DOMAIN ls |-> 1 + ls[k].qty \div PriceUnit], Len(ls))

(* The lots of a FIFO account are in the order in which sales draw on them *)
(* and hold exactly its quantity, there is one lot per buy row, of its     *)
(* quantity, and the cost basis is the worth of the lots up to rounding    *)
(* (transaction_lots against assets).                                      *)
LotsCoverPosition == method = "fifo" =>
    LET ls == book.lots
    IN  /\ \A j, k \in DOMAIN ls : j <= k => ls[j].date <= ls[k].date
        /\ Held(ls) = book.qty
        /\ Len(ls) = Cardinality({i \in Standing(trades) : trades[i].type = "buy"})
        /\ \A k \in DOMAIN ls :
             /\ ls[k].tx \in Standing(trades) /\ trades[ls[k].tx].type = "buy"
             /\ ls[k].qty = trades[ls[k].tx].qty /\ ls[k].rem <= ls[k].qty
        /\ book.cost - Worth(ls) \in -Rounding(ls) .. Rounding(ls)

(* Both, for all clients.                                                   *)
LotsCovered == PositionTypeOK /\ LotsCoverPosition

\* Clients who keep the order of dates and edit nothing.
Orderly == /\ ~ client.backdates /\ client.edits = {}
           /\ client.deletesIn \subseteq {"fifo"}

(* For orderly clients, a lot is only drawn on when every earlier lot is    *)
(* used up.                                                                 *)
OrderlyOldestFirst == Orderly =>
    \A j, k \in DOMAIN book.lots :
        j < k /\ book.lots[k].rem < book.lots[k].qty => book.lots[j].rem = 0

(* Rebuilding the position from its rows gives the quantity, the cost and  *)
(* the lots that are stored: original state == rebuild state.              *)
RebuildAgrees ==
    LET b == Rebuilt(method, book, trades, 0)
    IN  b.qty = book.qty /\ b.cost = book.cost /\ b.lots = book.lots

(* It does for orderly clients.                                             *)
OrderlyRebuildAgrees == Orderly => RebuildAgrees
=============================================================================
