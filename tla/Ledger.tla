------------------------------- MODULE Ledger -------------------------------
(***************************************************************************)
(* The cash side of the Minefolio ledger: the balances of the cash and     *)
(* liability accounts, their audit log (asset_balance_logs), the           *)
(* transaction, transfer and daily-expense rows, and the use cases that    *)
(* change them together (backend/src/core/ledger/ledger_engine.c,          *)
(* common/balance.c and application/{transaction,transfer,daily_expense,   *)
(* cashflow}/usecases.c).                                                  *)
(*                                                                         *)
(* db is what is committed.  A use case opens a scope (db_tx_scope_begin), *)
(* performs its statements one at a time on work, and commits work to db   *)
(* or, when a statement it checks fails, drops it.  It does not check      *)
(* every statement: lapsed says that one it does not check has failed.     *)
(* The server has one connection for all its workers, and a scope belongs  *)
(* to the connection: mixed says that a worker has used it while another   *)
(* had a scope open on it.  This module is about requests that do not meet *)
(* there, whatever the order they come in, and stops where they do; module *)
(* SharedConnection goes on from there.                                    *)
(*                                                                         *)
(* The balance of an investment account is the subject of module           *)
(* Positions; here such an account only appears as the asset of a row.     *)
(***************************************************************************)
EXTENDS Integers, Sequences, FiniteSets

CONSTANTS
    Cash, Liability, Invest,  \* the accounts, by assets.category
    None,                     \* NULL
    Currency, CurOf,          \* currencies; the currency of each account
    Base,                     \* the base currency (CNY)
    Rates,                    \* the values the exchange rate may take
    Opening,                  \* balance of each account when it was opened
    Logged,                   \* accounts opened with an 'init' log row
    Orders,                   \* transaction forms the clients submit
    Patches,                  \* partial forms of the update request
    EditPairs,                \* whether clients edit halves of a pair
    Moves,                    \* transfer requests
    Bills,                    \* daily-expense forms
    Incomes,                  \* cash-flow confirmations
    Workers,                  \* server workers
    MaxTx, MaxExp, MaxOps     \* bounds: row ids, expense ids, commits

Own     == Cash \cup Liability
Account == Own \cup Invest
TxId    == 1..MaxTx
ExpId   == 1..MaxExp
AnyAccount == Account \cup {None}

\* The registry TX_TYPES: which types credit the asset, which the linked one.
TxType == {"deposit", "withdrawal", "buy", "sell", "transfer_in",
           "transfer_out", "fee", "income", "loss", "interest"}
BalanceIn == {"deposit", "sell", "transfer_in", "income", "interest"}
LinkedIn  == {"withdrawal", "sell", "transfer_out", "income"}
\* ledger_tx_type_from_str knows no "loss": ledger_apply_tx refuses it.
Known    == TxType \ {"loss"}
Halves   == {"transfer_in", "transfer_out"}
Trades   == {"buy", "sell"}
KeepLink == Trades \cup Halves \cup {"fee"}

Row == [type : TxType, asset : Account, linked : AnyAccount, amount : Nat,
        fee : Nat, cur : Currency, parent : TxId \cup {None}, fx : Nat]
Form == [type : TxType, asset : Account, linked : AnyAccount, amount : Nat,
         fee : Nat, cur : Currency]
Patch == [type : TxType \cup {None}, asset : AnyAccount, linked : AnyAccount,
          amount : Nat, fee : Int, cur : Currency \cup {None}]
Transfer == [from : Account, to : Account, amount : Nat,
             fromTx : TxId, toTx : TxId]
Move == [from : Account, to : Account, amount : Nat, cur : Currency]
Bill == [asset : Account, amount : Nat, income : BOOLEAN, cur : Currency]
Income == [asset : Account, source : AnyAccount, amount : Nat]
Entry == [delta : Int, after : Int, src : {"init", "posting"}]

ASSUME AccountsAssumption ==
    /\ Cash \cap Liability = {} /\ Own \cap Invest = {}
    /\ None \notin Account \cup Nat \cup TxType \cup Currency \cup Row \cup Bill
    /\ CurOf \in [Account -> Currency] /\ Base \in Currency
    /\ Opening \in [Own -> Int] /\ Logged \subseteq Own
ASSUME InputsAssumption ==
    /\ Rates \subseteq Nat \ {0} /\ Rates # {}
    /\ Orders \subseteq Form /\ Patches \subseteq Patch
    /\ Moves \subseteq Move /\ Bills \subseteq Bill /\ Incomes \subseteq Income
    /\ \A m \in Moves : m.from # m.to
    /\ EditPairs \in BOOLEAN
ASSUME BoundsAssumption ==
    MaxTx \in Nat /\ MaxExp \in Nat /\ MaxOps \in Nat

VARIABLES
    db,     \* the committed tables
    work,   \* the tables as the open scope sees them (db when none is open)
    scope,  \* the open scope: operation, next statement and its arguments
    seen,   \* what each worker read before opening its scope
    rate,   \* the cached exchange rate of the foreign currency
    ops,    \* commits so far (bound)
    lapsed, \* history: a statement whose result nobody looks at has failed
    mixed   \* history: two requests have met on the one connection

books  == <<db, work, scope, seen, rate, ops>>
vars   == <<books, lapsed, mixed>>

Tables == [cur : [Own -> Int], log : [Own -> Seq(Entry)],
           rows : [TxId -> Row \cup {None}], xfers : SUBSET Transfer,
           exps : [ExpId -> Bill \cup {None}],
           next : Nat \ {0}, nextExp : Nat \ {0}]

-----------------------------------------------------------------------------
(* Postings *)

HalfUp(m, q) == IF m >= 0 THEN (2 * m + q) \div (2 * q)
                ELSE -((q - 2 * m) \div (2 * q))

\* exchange_rate_convert_m, at the rate r of the foreign currency.
Convert(m, c, a, r) == IF c = CurOf[a] THEN m
                       ELSE IF CurOf[a] = Base THEN m * r ELSE HalfUp(m, r)

Signed(a, m) == IF a \in Liability THEN -m ELSE m

\* Slips the audit properties must notice: a log row with the balance before
\* the posting, and a liability posting without a log row.
PostStaleAfter(d, a, c, m) ==
    IF a \in Invest THEN d ELSE
    LET s == Signed(a, Convert(m, c, a, rate))
    IN  [d EXCEPT !.cur[a] = @ + s,
                  !.log[a] = Append(@, [delta |-> s, after |-> d.cur[a],
                                        src |-> "posting"])]
PostUnlogged(d, a, c, m) ==
    IF a \in Invest THEN d ELSE
    LET s   == Signed(a, Convert(m, c, a, rate))
        new == d.cur[a] + s
        row == [delta |-> s, after |-> new, src |-> "posting"]
    IN  [d EXCEPT !.cur[a] = new,
                  !.log[a] = IF a \in Liability THEN @ ELSE Append(@, row)]

\* balance_apply_delta_m: move the balance and append the audit row.
Post(d, a, c, m) ==
    IF a \in Invest THEN d ELSE
    LET s   == Signed(a, Convert(m, c, a, rate))
        new == d.cur[a] + s
    IN  [d EXCEPT !.cur[a] = new,
                  !.log[a] = Append(@, [delta |-> s, after |-> new,
                                        src |-> "posting"])]

\* tx_delta_m, and the linked leg as tx_effective_ldelta_m and the buy / sell
\* branches compute it.
Delta(r)       == IF r.type \in BalanceIn THEN r.amount ELSE -r.amount
LinkedDelta(r) == IF r.type \in LinkedIn THEN r.amount ELSE -r.amount

\* A trade moves its asset through the position; a fee paid from a linked
\* account only moves that account.
HasTarget(r) == r.type \notin Trades /\ ~(r.type = "fee" /\ r.linked # None)
Payer(r)     == IF r.linked # None THEN r.linked ELSE r.asset

-----------------------------------------------------------------------------
(* Rows *)

Live(d, i)     == d.rows[i] # None
Children(d, i) == {j \in TxId : Live(d, j) /\ d.rows[j].parent = i}
FeeChildren(d, i) == {j \in Children(d, i) : d.rows[j].type = "fee"}

\* Everything ON DELETE CASCADE takes along: the least set that holds S and
\* the children of its members.
Doomed(d, S) ==
    {i \in TxId : \A C \in SUBSET TxId :
        (S \subseteq C /\ \A j \in C : Children(d, j) \subseteq C) => i \in C}

DeleteRows(d, S) ==
    LET gone == Doomed(d, S)
    IN  [d EXCEPT !.rows  = [i \in TxId |-> IF i \in gone THEN None ELSE @[i]],
                  !.xfers = {x \in @ : {x.fromTx, x.toTx} \cap gone = {}}]

\* ORDER BY id DESC LIMIT 1, as a set of at most one element.
Latest(S) == {i \in S : \A j \in S : j <= i}

\* Rows of the given type that look like the other half of r.
LookAlikes(d, r, type) ==
    {i \in TxId : /\ Live(d, i)
                  /\ d.rows[i].type = type
                  /\ d.rows[i].asset = r.linked
                  /\ d.rows[i].linked = r.asset
                  /\ d.rows[i].amount = r.amount}

\* The transfers rows of transaction i; failing those, the latest one with the
\* same accounts and amount.
ByKey(d, i) == {x \in d.xfers : i \in {x.fromTx, x.toTx}}
ByLook(d, from, to, amount) ==
    LET like == {x \in d.xfers : x.from = from /\ x.to = to
                                 /\ x.amount = amount}
    IN  {x \in like : \A y \in like : y.fromTx <= x.fromTx}
TransfersOf(d, i, from, to, amount) ==
    IF ByKey(d, i) # {} THEN ByKey(d, i) ELSE ByLook(d, from, to, amount)

RowOf(f, parent) ==
    [type |-> f.type, asset |-> f.asset, linked |-> f.linked,
     amount |-> f.amount, fee |-> f.fee, cur |-> f.cur,
     parent |-> parent, fx |-> 0]

InsertRow(d, r) == [d EXCEPT !.rows[d.next] = r, !.next = @ + 1]

-----------------------------------------------------------------------------
(* Scopes *)

Idle == [op |-> "none", by |-> None, pc |-> "idle", id |-> None, self |-> None,
         old |-> None, form |-> None, was |-> None, bill |-> None,
         todo |-> {}, at |-> None, i |-> 0, cum |-> 0]

NoScope == scope.op = "none"
At(p)   == scope.pc = p

Init ==
    /\ db = [cur  |-> Opening,
             log  |-> [a \in Own |->
                         IF a \in Logged
                         THEN <<[delta |-> Opening[a], after |-> Opening[a],
                                 src |-> "init"]>>
                         ELSE <<>>],
             rows |-> [i \in TxId |-> None], xfers |-> {},
             exps |-> [e \in ExpId |-> None], next |-> 1, nextExp |-> 1]
    /\ work = db
    /\ scope = Idle
    /\ seen = [w \in Workers |-> None]
    /\ rate \in Rates
    /\ ops = 0
    /\ lapsed = FALSE /\ mixed = FALSE

\* db_tx_scope_begin, at the head of every use case, by worker w, when the
\* connection is in no transaction.
Open(w, s) == /\ NoScope /\ ops < MaxOps
              /\ scope' = [s EXCEPT !.by = w]
              /\ seen' = [seen EXCEPT ![w] = None]
              /\ UNCHANGED <<db, work, rate, ops>>

\* A worker serves one request at a time.
Free(w) == seen[w] = None /\ scope.by # w

\* One statement of the open scope, and the next one to run.
Step(d, p) == /\ work' = d
              /\ scope' = [scope EXCEPT !.pc = p]
              /\ UNCHANGED <<db, seen, rate, ops>>

Commit == /\ At("commit")
          /\ db' = work
          /\ scope' = Idle
          /\ ops' = ops + 1
          /\ UNCHANGED <<work, seen, rate>>

\* cashflow_usecase_confirm_income and the rebuilds ignore what COMMIT returns.
CommitUnseen == At("commit") /\ scope.op \in {"income", "rebuild"}

\* A statement that is checked fails, and the use case rolls its scope back.
Rollback == /\ ~NoScope /\ ~CommitUnseen
            /\ work' = db
            /\ scope' = Idle
            /\ UNCHANGED <<db, seen, rate, ops>>

\* The quote refresher replaces the cached rate whenever it likes.
SetRate == /\ \E r \in Rates \ {rate} : rate' = r
           /\ UNCHANGED <<db, work, scope, seen, ops>>

-----------------------------------------------------------------------------
(* ledger_reverse_tx *)

\* Slips: the fee row deleted without refunding it, or not looked for at all.
ReverseFeeNoRefund ==
    /\ At("revfee")
    /\ LET fees == FeeChildren(work, scope.id)
       IN  \/ fees = {} /\ Step(work, "revtarget")
           \/ \E j \in fees : Step(DeleteRows(work, {j}), "revfee")
ReverseFeeSkipped == At("revfee") /\ Step(work, "revtarget")

ReverseFee ==
    /\ At("revfee") /\ scope.i = 0
    /\ LET fees == FeeChildren(work, scope.id)
       IN  \/ /\ fees = {}
              /\ Step(work, "revtarget")
           \/ \E j \in fees :
                /\ \A k \in fees : j <= k
                /\ LET fee == work.rows[j]
                   IN  Step(DeleteRows(Post(work, Payer(fee), scope.old.cur,
                                            fee.amount), {j}), "revfee")

ReverseTarget ==
    /\ At("revtarget")
    /\ LET r == scope.old
       IN  Step(IF HasTarget(r) THEN Post(work, r.asset, r.cur, -Delta(r))
                ELSE work, "revlinked")

ReverseLinked ==
    /\ At("revlinked")
    /\ LET r == scope.old
       IN  Step(IF r.linked # None
                THEN Post(work, r.linked, r.cur, -LinkedDelta(r)) ELSE work,
                IF scope.op = "update" THEN "row" ELSE "erase")

-----------------------------------------------------------------------------
(* ledger_apply_tx; the cash-flow confirmation inserts its row and posts the *)
(* target leg only                                                           *)

WriteRow ==
    /\ At("row")
    /\ scope.form.type \in Known
    /\ LET f   == scope.form
           new == scope.op # "update"
       IN  /\ ~new => Live(work, scope.id)
           /\ work' = IF new THEN InsertRow(work, RowOf(f, None))
                      ELSE [work EXCEPT !.rows[scope.id] =
                              [RowOf(f, scope.old.parent)
                                 EXCEPT !.fx = scope.old.fx]]
           /\ scope' = [scope EXCEPT
                !.id = IF new THEN work.next ELSE @,
                !.pc = IF scope.op = "income" THEN "target" ELSE "fee"]
    /\ UNCHANGED <<db, seen, rate, ops>>

\* Without a fee there is nothing to write.
ApplyFee ==
    /\ At("fee")
    /\ LET f     == scope.form
           child == [type |-> "fee", asset |-> f.asset, linked |-> Payer(f),
                     amount |-> f.fee, fee |-> 0, cur |-> f.cur,
                     parent |-> scope.id, fx |-> 0]
           pay(d) == Post(d, Payer(f), f.cur, -f.fee)
       IN  IF f.fee = 0 \/ f.type = "fee"
           THEN Step(work, "target")
           ELSE /\ work.next \in TxId
                /\ Step(pay(InsertRow(work, child)), "target")

ApplyTarget ==
    /\ At("target")
    /\ LET f == scope.form
       IN  Step(IF HasTarget(f) THEN Post(work, f.asset, f.cur, Delta(f))
                ELSE work,
                IF scope.op = "income" THEN "commit" ELSE "linked")

ApplyLinked ==
    /\ At("linked")
    /\ LET f == scope.form
       IN  Step(IF f.linked # None
                THEN Post(work, f.linked, f.cur, LinkedDelta(f)) ELSE work,
                "stamp")

\* fx_rate_to_cny is stamped after the legs have been posted.
StampRate ==
    /\ At("stamp")
    /\ Step([work EXCEPT !.rows[scope.id].fx =
               IF scope.form.cur = Base THEN 1 ELSE rate], "commit")

-----------------------------------------------------------------------------
(* tx_usecase_create, tx_usecase_update, tx_usecase_delete *)

Room(n) == db.next + n - 1 \in TxId

CreateTx(w) == \E o \in Orders :
    /\ Free(w)
    /\ o.amount > 0 /\ o.asset # o.linked
    /\ Room(2)
    /\ Open(w, [Idle EXCEPT !.op = "create", !.pc = "row", !.form = o])

\* A slip: the fee field of the request taken as it is, omitted or not.
MergeRawFee(p, r) ==
    LET type == IF p.type = None THEN r.type ELSE p.type
        link == IF p.linked = None THEN r.linked ELSE p.linked
    IN  [type   |-> type,
         asset  |-> IF p.asset = None THEN r.asset ELSE p.asset,
         linked |-> IF type \in KeepLink THEN link ELSE None,
         amount |-> IF p.amount > 0 THEN p.amount ELSE r.amount,
         fee    |-> p.fee,
         cur    |-> IF p.cur = None THEN r.cur ELSE p.cur]

\* An omitted field keeps its old value; only some types keep a linked account.
Merge(p, r) ==
    LET type == IF p.type = None THEN r.type ELSE p.type
        link == IF p.linked = None THEN r.linked ELSE p.linked
    IN  [type   |-> type,
         asset  |-> IF p.asset = None THEN r.asset ELSE p.asset,
         linked |-> IF type \in KeepLink THEN link ELSE None,
         amount |-> IF p.amount > 0 THEN p.amount ELSE r.amount,
         fee    |-> IF p.fee >= 0 THEN p.fee ELSE r.fee,
         cur    |-> IF p.cur = None THEN r.cur ELSE p.cur]

Editable(r) == EditPairs \/ (r.type \notin Halves /\ r.parent = None)

\* The old row is read, and merged with the request, before the scope opens.
ReadTx(w) == \E i \in TxId, p \in Patches :
    /\ Free(w) /\ NoScope /\ ops < MaxOps
    /\ Live(db, i) /\ Editable(db.rows[i])
    /\ seen' = [seen EXCEPT ![w] =
                  [kind |-> "tx", id |-> i, form |-> Merge(p, db.rows[i]),
                   was |-> None, bill |-> None]]
    /\ UNCHANGED <<db, work, scope, rate, ops>>

UpdateTx(w) ==
    /\ seen[w] # None /\ seen[w].kind = "tx"
    /\ Live(db, seen[w].id) /\ Room(1)
    /\ Open(w, [Idle EXCEPT !.op = "update", !.pc = "revfee", !.id = seen[w].id,
                         !.old = db.rows[seen[w].id], !.form = seen[w].form])

\* The row is gone when the scope opens (or the bound on ids is reached): the
\* request fails and changes nothing.
Refuse(w) ==
    /\ NoScope /\ seen[w] # None /\ seen[w].kind = "tx"
    /\ ~Live(db, seen[w].id) \/ ~Room(1)
    /\ seen' = [seen EXCEPT ![w] = None]
    /\ UNCHANGED <<db, work, scope, rate, ops>>

\* A slip: the half a deletion names taken for the one that holds the legs.
MainOfItself(d, i) == i

\* The row whose legs a deletion reverses: for a transfer_in its other half.
MainOf(d, i) ==
    LET r == d.rows[i]
        twins == Latest(LookAlikes(d, r, "transfer_out"))
    IN  IF r.type # "transfer_in" THEN i
        ELSE IF r.parent # None THEN r.parent
        ELSE IF twins # {} THEN CHOOSE j \in twins : TRUE ELSE i

DeleteTx(w) == \E i \in TxId :
    /\ Free(w)
    /\ Live(db, i) /\ Live(db, MainOf(db, i))
    /\ Open(w, [Idle EXCEPT !.op = "delete", !.pc = "revfee", !.self = i,
                         !.id = MainOf(db, i), !.old = db.rows[MainOf(db, i)]])

EraseRows ==
    /\ At("erase")
    /\ LET i    == scope.self
           main == scope.id
           r    == work.rows[i]
           kids == Children(work, main)
           drop == IF r.type = "transfer_out"
                   THEN TransfersOf(work, i, r.asset, r.linked, r.amount)
                   ELSE IF main # i
                   THEN TransfersOf(work, main, r.linked, r.asset, r.amount)
                   ELSE {}
           dead == IF r.type = "transfer_out" /\ kids = {}
                   THEN {i} \cup Latest(LookAlikes(work, r, "transfer_in"))
                   ELSE IF r.type \in Halves /\ (main # i \/ r.type = "transfer_out")
                   THEN {i, main} \cup kids
                   ELSE {i}
       IN  Step(DeleteRows([work EXCEPT !.xfers = @ \ drop], dead), "commit")

-----------------------------------------------------------------------------
(* transfer_usecase_create and cashflow_usecase_confirm_income *)

CreateTransfer(w) == \E m \in Moves :
    /\ Free(w)
    /\ Room(2)
    /\ Open(w, [Idle EXCEPT !.op = "transfer", !.pc = "pair",
               !.form = [type |-> "transfer_out", asset |-> m.from,
                         linked |-> m.to, amount |-> m.amount, fee |-> 0,
                         cur |-> m.cur]])

\* Both halves, the in half with the out half as its parent, and their
\* transfers row.
WritePair ==
    /\ At("pair")
    /\ LET f   == scope.form
           out == work.next
           in  == RowOf([f EXCEPT !.type = "transfer_in", !.asset = f.linked,
                                  !.linked = f.asset], out)
           d   == InsertRow(InsertRow(work, RowOf(f, None)), in)
       IN  Step([d EXCEPT !.xfers = @ \cup
                   {[from |-> f.asset, to |-> f.linked, amount |-> f.amount,
                     fromTx |-> out, toTx |-> out + 1]}], "send")

Send    == /\ At("send")
           /\ LET f == scope.form
              IN  Step(Post(work, f.asset, f.cur, -f.amount), "receive")
Receive == /\ At("receive")
           /\ LET f == scope.form
              IN  Step(Post(work, f.linked, f.cur, f.amount), "commit")

ConfirmIncome(w) == \E n \in Incomes :
    /\ Free(w)
    /\ Room(1)
    /\ Open(w, [Idle EXCEPT !.op = "income", !.pc = "row",
               !.form = [type |-> "income", asset |-> n.asset,
                         linked |-> n.source, amount |-> n.amount, fee |-> 0,
                         cur |-> CurOf[n.asset]]])

-----------------------------------------------------------------------------
(* Daily expenses *)

Credit(b) == IF b.income THEN b.amount ELSE -b.amount

CreateBill(w) == \E b \in Bills :
    /\ Free(w)
    /\ db.nextExp \in ExpId
    /\ Open(w, [Idle EXCEPT !.op = "bill_new", !.pc = "bill", !.bill = b])

\* Update and delete read the old snapshot before the scope opens.  A delete
\* carries no new bill.
ReadBill(w) == \E e \in ExpId, b \in Bills \cup {None} :
    /\ Free(w) /\ NoScope /\ ops < MaxOps
    /\ db.exps[e] # None
    /\ seen' = [seen EXCEPT ![w] =
                  [kind |-> "bill", id |-> e, form |-> None,
                   was |-> db.exps[e], bill |-> b]]
    /\ UNCHANGED <<db, work, scope, rate, ops>>

ChangeBill(w) ==
    /\ seen[w] # None /\ seen[w].kind = "bill"
    /\ Open(w, [Idle EXCEPT !.op = "bill_edit", !.pc = "unpay",
               !.id = seen[w].id, !.was = seen[w].was, !.bill = seen[w].bill])

Unpay == /\ At("unpay")
         /\ LET b == scope.was
            IN  Step(Post(work, b.asset, b.cur, -Credit(b)), "bill")

\* Updating or deleting a bill that is gone fails: no row is returned.
WriteBill ==
    /\ At("bill")
    /\ LET b == scope.bill
           next == IF b = None THEN "commit" ELSE "pay"
       IN  IF scope.op = "bill_new"
           THEN Step([work EXCEPT !.exps[work.nextExp] = b, !.nextExp = @ + 1],
                     next)
           ELSE /\ work.exps[scope.id] # None
                /\ Step([work EXCEPT !.exps[scope.id] = b], next)

Pay == /\ At("pay")
       /\ LET b == scope.bill
          IN  Step(Post(work, b.asset, b.cur, Credit(b)), "commit")

-----------------------------------------------------------------------------
(* ledger_rebuild_account and ledger_rebuild_portfolio *)

\* A slip: every account taken to start at zero.
BaselineZero(d, a) == 0

\* Without an explicit init row the first entry gives the starting balance.
Baseline(d, a) == IF d.log[a] = <<>> THEN d.cur[a]
                  ELSE IF d.log[a][1].src = "init" THEN 0
                  ELSE d.log[a][1].after - d.log[a][1].delta

Rebuild(w) == \E S \in {{a} : a \in Own} \cup {Own} :
    /\ Free(w)
    /\ Open(w, [Idle EXCEPT !.op = "rebuild", !.pc = "rebuild", !.todo = S])

ReplayStart == \E a \in scope.todo :
    /\ At("rebuild")
    /\ scope' = [scope EXCEPT !.pc = "replay", !.at = a, !.i = 0,
                              !.cum = Baseline(work, a)]
    /\ UNCHANGED <<db, work, seen, rate, ops>>

ReplayEntry ==
    /\ At("replay")
    /\ scope.i < Len(work.log[scope.at])
    /\ scope' = [scope EXCEPT !.i = @ + 1,
                   !.cum = @ + work.log[scope.at][scope.i + 1].delta]
    /\ UNCHANGED <<db, work, seen, rate, ops>>

ReplayStore ==
    /\ At("replay")
    /\ scope.i = Len(work.log[scope.at])
    /\ work' = [work EXCEPT !.cur[scope.at] = scope.cum]
    /\ scope' = [scope EXCEPT !.todo = @ \ {scope.at}, !.at = None,
                   !.pc = IF scope.todo = {scope.at} THEN "commit"
                          ELSE "rebuild"]
    /\ UNCHANGED <<db, seen, rate, ops>>

-----------------------------------------------------------------------------
(* Statements that fail without anybody noticing: the request goes on, and *)
(* commits                                                                 *)

\* ledger_reverse_tx takes fee rows it could not read for none; and of the
\* DELETE that follows their refunds it asks only that it return no less than 0,
\* which it never does: refunded rows then stay (scope.i is the last refunded).
FeesUnread ==
    /\ At("revfee") /\ scope.i = 0
    /\ FeeChildren(work, scope.id) # {}
    /\ Step(work, "revtarget")
FeesKept ==
    /\ At("revfee")
    /\ LET fees == {j \in FeeChildren(work, scope.id) : j > scope.i}
       IN  \/ /\ scope.i # 0 /\ fees = {}
              /\ work' = work
              /\ scope' = [scope EXCEPT !.pc = "revtarget", !.i = 0]
           \/ \E j \in fees :
                /\ \A k \in fees : j <= k
                /\ work' = Post(work, Payer(work.rows[j]), scope.old.cur,
                                work.rows[j].amount)
                /\ scope' = [scope EXCEPT !.i = j]
    /\ UNCHANGED <<db, seen, rate, ops>>

\* ledger_apply_tx does not check the INSERT of the fee row; it does check the
\* debit.
FeeRowLost ==
    /\ At("fee")
    /\ LET f == scope.form
       IN  /\ f.fee # 0 /\ f.type # "fee"
           /\ Step(Post(work, Payer(f), f.cur, -f.fee), "target")

\* tx_usecase_delete takes a transfer_in whose other half it could not look up
\* for a single row.
TwinUnread(w) == \E i \in TxId :
    /\ Free(w)
    /\ Live(db, i) /\ db.rows[i].parent = None /\ MainOf(db, i) # i
    /\ Open(w, [Idle EXCEPT !.op = "delete", !.pc = "revfee", !.self = i,
                         !.id = i, !.old = db.rows[i]])

\* Of the rows of a transfer tx_usecase_delete checks only that the transfer_out
\* it was asked to delete goes.  A DELETE that fails is followed by the one for
\* rows written before halves were paired, which takes what looks like them and
\* may fail as well.
ErasedInPart ==
    /\ At("erase")
    /\ LET i      == scope.self
           main   == scope.id
           r      == work.rows[i]
           kids   == Children(work, main)
           single == r.type = "transfer_in" /\ main = i
           out    == r.type = "transfer_out"
           looks  == IF out THEN ByLook(work, r.asset, r.linked, r.amount)
                     ELSE ByLook(work, r.linked, r.asset, r.amount)
           drops  == {{}, ByKey(work, main)} \cup IF single THEN {} ELSE {looks}
           deads  == IF out
                     THEN {{i} \cup S : S \in
                             {{}, kids, Latest(LookAlikes(work, r, "transfer_in"))}}
                     ELSE {{}, {i}, {main} \cup kids, {i, main} \cup kids}
       IN  /\ r.type \in Halves
           /\ \E drop \in drops, dead \in deads :
                Step(DeleteRows([work EXCEPT !.xfers = @ \ drop], dead), "commit")

\* ledger_rebuild_account does not check its UPDATE.
StoreLost ==
    /\ At("replay")
    /\ scope.i = Len(work.log[scope.at])
    /\ scope' = [scope EXCEPT !.todo = @ \ {scope.at}, !.at = None,
                   !.pc = IF scope.todo = {scope.at} THEN "commit"
                          ELSE "rebuild"]
    /\ UNCHANGED <<db, work, seen, rate, ops>>

Lapse == \/ \E w \in Workers : TwinUnread(w)
         \/ FeesUnread \/ FeesKept \/ FeeRowLost \/ ErasedInPart \/ StoreLost

-----------------------------------------------------------------------------
(* Two requests on the one connection                                      *)

\* A worker runs a statement while another has a scope open: it reads what is
\* not committed, or its own scope becomes a savepoint inside the other's.
Overlap == /\ ~NoScope
           /\ \E w \in Workers : w # scope.by

\* A COMMIT whose failure nobody sees leaves the connection in its transaction,
\* for the next request to run in.
LeftOpen == CommitUnseen

-----------------------------------------------------------------------------
Request(w) == \/ CreateTx(w) \/ ReadTx(w) \/ UpdateTx(w) \/ Refuse(w)
              \/ DeleteTx(w) \/ CreateTransfer(w) \/ ConfirmIncome(w)
              \/ CreateBill(w) \/ ReadBill(w) \/ ChangeBill(w) \/ Rebuild(w)
Statements == \/ ReverseFee \/ ReverseTarget \/ ReverseLinked
              \/ WriteRow \/ ApplyFee \/ ApplyTarget \/ ApplyLinked
              \/ StampRate \/ EraseRows \/ WritePair \/ Send \/ Receive
              \/ Unpay \/ WriteBill \/ Pay
              \/ ReplayStart \/ ReplayEntry \/ ReplayStore
Serial == (\E w \in Workers : Request(w)) \/ Statements \/ Commit \/ Rollback \/ SetRate
Meet   == (Overlap \/ LeftOpen) /\ UNCHANGED books
Next == /\ ~mixed
        /\ \/ Serial /\ UNCHANGED <<lapsed, mixed>>
           \/ Lapse /\ lapsed' = TRUE /\ UNCHANGED mixed
           \/ Meet /\ mixed' = TRUE /\ UNCHANGED lapsed

Spec == Init /\ [][Next]_vars

-----------------------------------------------------------------------------
(* Properties; those that compare balances with rows are in LedgerFacts *)

Op == {"none", "create", "update", "delete", "transfer", "income",
       "bill_new", "bill_edit", "rebuild"}
Pc == {"idle", "revfee", "revtarget", "revlinked", "row", "fee", "target",
       "linked", "stamp", "erase", "pair", "send", "receive", "unpay",
       "bill", "pay", "rebuild", "replay", "commit"}

ScopeType ==
    [op : Op, by : Workers \cup {None}, pc : Pc,
     id : Nat \cup {None}, self : TxId \cup {None},
     old : Row \cup {None}, form : Form \cup {None},
     was : Bill \cup {None}, bill : Bill \cup {None},
     todo : SUBSET Own, at : Own \cup {None}, i : Nat, cum : Int]

SeenType == [kind : {"tx", "bill"}, id : Nat, form : Form \cup {None},
             was : Bill \cup {None}, bill : Bill \cup {None}]

(* Every table, the open scope and every pre-read value has the shape the  *)
(* schema and the use cases give it.                                       *)
BooksOK == /\ db \in Tables /\ work \in Tables
           /\ scope \in ScopeType
           /\ seen \in [Workers -> SeenType \cup {None}]
           /\ rate \in Rates /\ ops \in Nat
TypeOK == BooksOK /\ lapsed \in BOOLEAN /\ mixed \in BOOLEAN

A == INSTANCE AuditedAccounts WITH Accounts <- Own, cur <- db.cur, log <- db.log

\* The audit rows of every account chain up from its first row to its balance.
Chained(d) == \A a \in Own :
    /\ \A i \in 2..Len(d.log[a]) : A!Follows(d.log[a], i, 0)
    /\ d.log[a] # <<>> =>
        /\ d.cur[a] = d.log[a][Len(d.log[a])].after
        /\ d.log[a][1].src = "init" => d.log[a][1].after = d.log[a][1].delta

(* The persisted balance is the one the audit log leads to, after any      *)
(* sequence of requests, failures (noticed or not) and rate changes        *)
(* (balance_apply_delta_m writes both), until two requests meet on the one *)
(* connection.                                                             *)
AuditChain == ~mixed => Chained(db)

(* ledger_rebuild_account and ledger_rebuild_portfolio write back exactly  *)
(* the balance they found: rebuilding a consistent ledger changes nothing, *)
(* as long as no two requests have met on the one connection.              *)
RebuildKeepsBalances == ~mixed /\ scope.op = "rebuild" => work = db

(* The ledger implements the audited accounts: seen from outside, a use    *)
(* case is one step that moves balances only with their audit rows, or no  *)
(* step at all, until two requests meet on the one connection.             *)
ImplementsAudit == A!Spec
=============================================================================
