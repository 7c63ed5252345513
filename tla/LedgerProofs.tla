---------------------------- MODULE LedgerProofs ----------------------------
(***************************************************************************)
(* Theorems about modules Ledger and LedgerFacts, for every set of         *)
(* accounts, forms, workers and bounds: types, audit chain, rebuilds, the  *)
(* refinement of AuditedAccounts; transfer halves and their records, fee   *)
(* rows and their parents, and every balance against the rows that exist.  *)
(***************************************************************************)
EXTENDS LedgerFacts, SumsProofs

-----------------------------------------------------------------------------
(* What the helpers return *)

LEMMA ConvertIsInt ==
    ASSUME NEW c \in Currency, NEW a \in Account, NEW m \in Int,
           NEW r \in Rates
    PROVE  Convert(m, c, a, r) \in Int
<1>1. r \in Nat \ {0}  BY InputsAssumption
<1>2. HalfUp(m, r) \in Int  BY <1>1 DEF HalfUp
<1> QED  BY <1>1, <1>2 DEF Convert

\* A posting keeps the tables well formed and only touches balance and log.
LEMMA PostIsTables ==
    ASSUME NEW d \in Tables, NEW a \in Account, NEW c \in Currency,
           NEW m \in Int, rate \in Rates
    PROVE  /\ Post(d, a, c, m) \in Tables
           /\ Post(d, a, c, m).rows = d.rows
           /\ Post(d, a, c, m).next = d.next
           /\ Post(d, a, c, m).nextExp = d.nextExp
<1>1. CASE a \in Invest  BY <1>1 DEF Post
<1>2. CASE a \notin Invest
  <2> DEFINE s   == Signed(a, Convert(m, c, a, rate))
             new == d.cur[a] + s
             e   == [delta |-> s, after |-> new, src |-> "posting"]
  <2>1. a \in Own  BY <1>2 DEF Account
  <2>2. s \in Int  BY ConvertIsInt DEF Signed
  <2>3. new \in Int  BY <2>1, <2>2 DEF Tables
  <2>4. e \in Entry  BY <2>2, <2>3 DEF Entry
  <2>5. Append(d.log[a], e) \in Seq(Entry)
    <3>1. d.log[a] \in Seq(Entry)  BY <2>1 DEF Tables
    <3> HIDE DEF e
    <3> QED  BY <2>4, <3>1
  <2>6. [d.cur EXCEPT ![a] = new] \in [Own -> Int]
    <3> HIDE DEF new
    <3> QED  BY <2>3 DEF Tables
  <2>7. [d.log EXCEPT ![a] = Append(d.log[a], e)] \in [Own -> Seq(Entry)]
    <3> HIDE DEF e
    <3> QED  BY <2>5 DEF Tables
  <2>8. Post(d, a, c, m) =
          [d EXCEPT !.cur = [d.cur EXCEPT ![a] = new],
                    !.log = [d.log EXCEPT ![a] = Append(d.log[a], e)]]
    BY <1>2 DEF Post
  <2> HIDE DEF new, e
  <2> QED  BY <2>6, <2>7, <2>8 DEF Tables
<1> QED  BY <1>1, <1>2

LEMMA DeleteRowsIsTables ==
    ASSUME NEW d \in Tables, NEW S
    PROVE  /\ DeleteRows(d, S) \in Tables
           /\ DeleteRows(d, S).cur = d.cur
           /\ DeleteRows(d, S).log = d.log
<1> DEFINE gone == Doomed(d, S)
           r == [i \in TxId |-> IF i \in gone THEN None ELSE d.rows[i]]
           x == {y \in d.xfers : {y.fromTx, y.toTx} \cap gone = {}}
<1>1. r \in [TxId -> Row \cup {None}]
  <2> HIDE DEF gone
  <2> QED  BY DEF Tables
<1>2. x \in SUBSET Transfer
  <2> HIDE DEF gone
  <2> QED  BY DEF Tables
<1>3. DeleteRows(d, S) = [d EXCEPT !.rows = r, !.xfers = x]
  BY DEF DeleteRows
<1> HIDE DEF r, x
<1> QED  BY <1>1, <1>2, <1>3 DEF Tables

LEMMA RowOfIsRow ==
    ASSUME NEW f \in Form, NEW p \in TxId \cup {None}
    PROVE  RowOf(f, p) \in Row
BY DEF RowOf, Row, Form

LEMMA InsertRowIsTables ==
    ASSUME NEW d \in Tables, NEW r \in Row, d.next \in TxId
    PROVE  /\ InsertRow(d, r) \in Tables
           /\ InsertRow(d, r).cur = d.cur
           /\ InsertRow(d, r).log = d.log
           /\ InsertRow(d, r).next = d.next + 1
           /\ InsertRow(d, r).rows = [d.rows EXCEPT ![d.next] = r]
<1>1. [d.rows EXCEPT ![d.next] = r] \in [TxId -> Row \cup {None}]
  BY DEF Tables
<1>2. d.next + 1 \in Nat \ {0}  BY DEF Tables
<1>3. InsertRow(d, r) = [d EXCEPT !.rows = [d.rows EXCEPT ![d.next] = r],
                                  !.next = d.next + 1]
  BY DEF InsertRow
<1> QED  BY <1>1, <1>2, <1>3 DEF Tables

LEMMA DeltasAreInts ==
    ASSUME NEW r, r.amount \in Int
    PROVE  Delta(r) \in Int /\ LinkedDelta(r) \in Int
BY DEF Delta, LinkedDelta

LEMMA MergeIsForm ==
    ASSUME NEW p \in Patch, NEW r \in Row
    PROVE  Merge(p, r) \in Form
<1>1. p.fee >= 0 => p.fee \in Nat  BY DEF Patch
<1> QED  BY <1>1, AccountsAssumption DEF Merge, Patch, Row, Form, AnyAccount

LEMMA ChildIsRow ==
    ASSUME NEW d \in Tables, NEW i, NEW j \in FeeChildren(d, i)
    PROVE  /\ j \in TxId /\ d.rows[j] \in Row
           /\ Payer(d.rows[j]) \in Account
<1>1. j \in TxId /\ d.rows[j] # None  BY DEF FeeChildren, Children, Live
<1>2. d.rows[j] \in Row  BY <1>1 DEF Tables
<1> QED  BY <1>1, <1>2 DEF Payer, Row, AnyAccount

-----------------------------------------------------------------------------
(* Types: what the open scope knows at each statement *)

ScopeOK ==
    /\ At("idle") <=> NoScope
    /\ scope.pc \in {"revfee", "revtarget", "revlinked"} =>
        /\ scope.op \in {"update", "delete"}
        /\ scope.id \in TxId /\ scope.old \in Row
        /\ scope.op = "update" => scope.form \in Form
    /\ At("row") =>
        /\ scope.op \in {"create", "update", "income"}
        /\ scope.form \in Form
        /\ scope.op = "update" => scope.id \in TxId /\ scope.old \in Row
        /\ scope.op # "update" => work.next \in TxId
    /\ scope.pc \in {"fee", "target", "linked", "stamp"} =>
        /\ scope.op \in {"create", "update", "income"}
        /\ scope.form \in Form
        /\ scope.id \in TxId /\ work.rows[scope.id] \in Row
    /\ scope.pc \in {"pair", "send", "receive"} =>
        /\ scope.op = "transfer"
        /\ scope.form \in Form /\ scope.form.linked \in Account
    /\ At("pair") => work.next \in TxId /\ work.next + 1 \in TxId
    /\ At("unpay") =>
        scope.op = "bill_edit" /\ scope.was \in Bill /\ scope.id \in ExpId
    /\ At("bill") =>
        /\ scope.op \in {"bill_new", "bill_edit"}
        /\ scope.op = "bill_new" =>
            scope.bill \in Bill /\ work.nextExp \in ExpId
        /\ scope.op = "bill_edit" => scope.id \in ExpId
    /\ At("pay") => scope.op \in {"bill_new", "bill_edit"} /\ scope.bill \in Bill
    /\ scope.pc \in {"rebuild", "replay"} => scope.op = "rebuild"
    /\ scope.op = "rebuild" => scope.pc \in {"rebuild", "replay", "commit"}
    /\ At("replay") => scope.at \in Own
    /\ NoScope => work = db

SeenOK == \A w \in Workers : seen[w] # None =>
    /\ seen[w].kind = "tx" => seen[w].id \in TxId /\ seen[w].form \in Form
    /\ seen[w].kind = "bill" => seen[w].id \in ExpId /\ seen[w].was \in Bill

TypeInv == BooksOK /\ ScopeOK /\ SeenOK

LEMMA IdleType == Idle \in ScopeType
BY DEF Idle, ScopeType, Op, Pc

LEMMA InitTypes == Init => TypeInv
<1> SUFFICES ASSUME Init PROVE TypeInv
  OBVIOUS
<1> USE DEF Init
<1>1. db.cur \in [Own -> Int]  BY AccountsAssumption
<1>2. db.log \in [Own -> Seq(Entry)]
  <2>1. ASSUME NEW a \in Own
        PROVE  db.log[a] \in Seq(Entry)
    <3>1. [delta |-> Opening[a], after |-> Opening[a], src |-> "init"]
            \in Entry
      BY AccountsAssumption DEF Entry
    <3> QED  BY <3>1
  <2> QED  BY <2>1
<1>3. db \in Tables  BY <1>1, <1>2 DEF Tables
<1>4. BooksOK  BY <1>3, IdleType DEF BooksOK
<1>5. ScopeOK  BY DEF ScopeOK, At, NoScope, Idle
<1>6. SeenOK  BY DEF SeenOK
<1> QED  BY <1>4, <1>5, <1>6 DEF TypeInv

\* One statement that leaves well-formed tables keeps the types, and changes
\* nothing of the scope but the next statement.
LEMMA StepKeepsTypes ==
    ASSUME TypeInv, NEW d \in Tables, NEW p \in Pc, Step(d, p)
    PROVE  /\ BooksOK' /\ SeenOK'
           /\ work' = d /\ db' = db
           /\ scope'.pc = p /\ scope'.op = scope.op /\ scope'.id = scope.id
           /\ scope'.old = scope.old /\ scope'.form = scope.form
           /\ scope'.was = scope.was /\ scope'.bill = scope.bill
           /\ scope'.at = scope.at
<1> USE DEF TypeInv, BooksOK, Step
<1>1. scope' \in ScopeType  BY DEF ScopeType
<1>2. BooksOK'  BY <1>1
<1>3. SeenOK'  BY DEF SeenOK
<1> QED  BY <1>2, <1>3 DEF ScopeType

LEMMA ReverseTypes ==
    ASSUME TypeInv, ReverseFee \/ ReverseTarget \/ ReverseLinked
    PROVE  TypeInv'
<1> USE DEF TypeInv, At, NoScope
<1>0. /\ work \in Tables /\ rate \in Rates /\ scope \in ScopeType
      /\ scope.id \in TxId /\ scope.old \in Row
      /\ scope.op \in {"update", "delete"}
      /\ scope.op = "update" => scope.form \in Form
  BY DEF BooksOK, ScopeOK, ReverseFee, ReverseTarget, ReverseLinked
<1> DEFINE r == scope.old
<1>00. /\ r.asset \in Account /\ r.linked \in Account \cup {None}
       /\ r.cur \in Currency /\ r.amount \in Nat
       /\ -Delta(r) \in Int /\ -LinkedDelta(r) \in Int
  BY <1>0, DeltasAreInts DEF Row, AnyAccount
<1>1. CASE ReverseFee
  <2>1. CASE FeeChildren(work, scope.id) = {} /\ Step(work, "revtarget")
    BY <2>1, <1>0, StepKeepsTypes DEF ScopeOK, Pc
  <2>2. ASSUME NEW j \in FeeChildren(work, scope.id),
               Step(DeleteRows(Post(work, Payer(work.rows[j]), scope.old.cur,
                                    work.rows[j].amount), {j}), "revfee")
        PROVE  TypeInv'
    <3>1. Payer(work.rows[j]) \in Account /\ work.rows[j].amount \in Int
      BY <1>0, ChildIsRow DEF Row
    <3>2. DeleteRows(Post(work, Payer(work.rows[j]), scope.old.cur,
                          work.rows[j].amount), {j}) \in Tables
      BY <3>1, <1>0, <1>00, PostIsTables, DeleteRowsIsTables
    <3> QED  BY <2>2, <3>2, <1>0, StepKeepsTypes DEF ScopeOK, Pc
  <2> QED  BY <1>1, <2>1, <2>2 DEF ReverseFee
<1>2. CASE ReverseTarget
  <2>1. PICK d \in Tables : Step(d, "revlinked")
    BY <1>2, <1>0, <1>00, PostIsTables DEF ReverseTarget
  <2> QED  BY <2>1, <1>0, StepKeepsTypes DEF ScopeOK, Pc
<1>3. CASE ReverseLinked
  <2>1. PICK d \in Tables :
            Step(d, IF scope.op = "update" THEN "row" ELSE "erase")
    BY <1>3, <1>0, <1>00, PostIsTables DEF ReverseLinked
  <2>2. CASE scope.op = "update"
    BY <2>1, <2>2, <1>0, StepKeepsTypes DEF ScopeOK, Pc
  <2>3. CASE scope.op = "delete"
    BY <2>1, <2>3, <1>0, StepKeepsTypes DEF ScopeOK, Pc
  <2> QED  BY <2>2, <2>3, <1>0
<1> QED  BY <1>1, <1>2, <1>3

LEMMA ApplyTypes ==
    ASSUME TypeInv,
           WriteRow \/ ApplyFee \/ ApplyTarget \/ ApplyLinked \/ StampRate
    PROVE  TypeInv'
<1> USE DEF TypeInv, At, NoScope
<1>0. /\ work \in Tables /\ rate \in Rates /\ scope \in ScopeType
      /\ scope.op \in {"create", "update", "income"}
      /\ scope.form \in Form
  BY DEF BooksOK, ScopeOK, WriteRow, ApplyFee, ApplyTarget, ApplyLinked,
         StampRate
<1> DEFINE f == scope.form
<1>00. /\ f.asset \in Account /\ f.linked \in Account \cup {None}
       /\ f.cur \in Currency /\ f.amount \in Nat /\ f.fee \in Nat
       /\ Delta(f) \in Int /\ LinkedDelta(f) \in Int
       /\ Payer(f) \in Account
  BY <1>0, DeltasAreInts DEF Form, AnyAccount, Payer
<1>000. ASSUME scope.pc \in {"fee", "target", "linked", "stamp"}
        PROVE  scope.id \in TxId /\ work.rows[scope.id] \in Row
  BY <1>000 DEF ScopeOK
<1>1. CASE WriteRow
  <2>1. CASE scope.op # "update"
    <3> DEFINE r == RowOf(f, None)
               p == IF scope.op = "income" THEN "target" ELSE "fee"
    <3>1. /\ work' = InsertRow(work, r)
          /\ scope' = [scope EXCEPT !.id = work.next, !.pc = p]
          /\ UNCHANGED <<db, seen, rate, ops>>
          /\ work.next \in TxId
      BY <1>1, <2>1 DEF WriteRow, ScopeOK
    <3>2. r \in Row  BY <1>0, RowOfIsRow
    <3>3. work' \in Tables /\ work'.rows[work.next] \in Row
      <4> HIDE DEF r
      <4>1. /\ work' \in Tables
            /\ work'.rows = [work.rows EXCEPT ![work.next] = r]
        BY <3>1, <3>2, <1>0, InsertRowIsTables
      <4>2. work.rows \in [TxId -> Row \cup {None}]  BY <1>0 DEF Tables
      <4> QED  BY <4>1, <4>2, <3>1, <3>2
    <3>4. /\ scope' \in ScopeType /\ scope'.id = work.next /\ scope'.pc = p
          /\ scope'.op = scope.op /\ scope'.form = f
      <4>1. p \in Pc /\ work.next \in Nat  BY <1>0 DEF Pc, Tables
      <4> HIDE DEF p
      <4> QED  BY <4>1, <3>1, <1>0 DEF ScopeType
    <3>5. BooksOK' /\ SeenOK'  BY <3>1, <3>3, <3>4 DEF BooksOK, SeenOK
    <3>6. ScopeOK'  BY <3>1, <3>3, <3>4, <1>0 DEF ScopeOK
    <3> QED  BY <3>5, <3>6
  <2>2. CASE scope.op = "update"
    <3> DEFINE r == [RowOf(f, scope.old.parent) EXCEPT !.fx = scope.old.fx]
               rs == [work.rows EXCEPT ![scope.id] = r]
    <3>1. /\ work' = [work EXCEPT !.rows = rs]
          /\ scope' = [scope EXCEPT !.id = scope.id, !.pc = "fee"]
          /\ UNCHANGED <<db, seen, rate, ops>>
          /\ scope.id \in TxId /\ scope.old \in Row
      BY <1>1, <2>2 DEF WriteRow, ScopeOK
    <3>2. r \in Row
      <4>1. RowOf(f, scope.old.parent) \in Row
        BY <3>1, <1>0, RowOfIsRow DEF Row
      <4>2. scope.old.fx \in Nat  BY <3>1 DEF Row
      <4> HIDE DEF f
      <4> QED  BY <4>1, <4>2 DEF Row
    <3>3. rs \in [TxId -> Row \cup {None}] /\ rs[scope.id] \in Row
      <4> HIDE DEF r
      <4> QED  BY <3>1, <3>2, <1>0 DEF Tables
    <3>4. work' \in Tables /\ work'.rows = rs
      <4> HIDE DEF rs
      <4> QED  BY <3>1, <3>3, <1>0 DEF Tables
    <3>5. /\ scope' \in ScopeType /\ scope'.id = scope.id
          /\ scope'.pc = "fee"
          /\ scope'.op = scope.op /\ scope'.form = f
      BY <3>1, <1>0 DEF ScopeType, Pc
    <3> HIDE DEF rs
    <3>6. BooksOK' /\ SeenOK'  BY <3>1, <3>4, <3>5 DEF BooksOK, SeenOK
    <3>7. ScopeOK'  BY <3>1, <3>3, <3>4, <3>5, <1>0 DEF ScopeOK
    <3> QED  BY <3>6, <3>7
  <2> QED  BY <2>1, <2>2
<1>2. CASE ApplyFee
  <2>0. scope.id \in TxId /\ work.rows[scope.id] \in Row
    BY <1>2, <1>000 DEF ApplyFee
  <2> DEFINE child == [type |-> "fee", asset |-> f.asset,
                       linked |-> Payer(f), amount |-> f.fee, fee |-> 0,
                       cur |-> f.cur, parent |-> scope.id, fx |-> 0]
             pay(d) == Post(d, Payer(f), f.cur, -f.fee)
  <2>1. child \in Row
    BY <1>00, <2>0 DEF Row, TxType, AnyAccount
  <2>2. PICK d \in Tables : Step(d, "target") /\ d.rows[scope.id] \in Row
    <3>1. CASE f.fee = 0 \/ f.type = "fee"
      BY <3>1, <1>2, <1>0, <2>0 DEF ApplyFee
    <3>2. CASE /\ work.next \in TxId
               /\ Step(pay(InsertRow(work, child)), "target")
      <4> DEFINE d == InsertRow(work, child)
      <4>1. d \in Tables /\ d.rows[scope.id] \in Row
        <5> HIDE DEF child
        <5>1. /\ d \in Tables
              /\ d.rows = [work.rows EXCEPT ![work.next] = child]
          BY <3>2, <2>1, <1>0, InsertRowIsTables
        <5>2. work.rows \in [TxId -> Row \cup {None}]  BY <1>0 DEF Tables
        <5> QED  BY <5>1, <5>2, <2>0, <2>1
      <4> HIDE DEF d
      <4>2. pay(d) \in Tables /\ pay(d).rows = d.rows
        <5>1. -f.fee \in Int  BY <1>00
        <5> HIDE DEF f
        <5> QED  BY <4>1, <5>1, <1>0, <1>00, PostIsTables
      <4>3. Step(pay(d), "target")  BY <3>2 DEF d
      <4> HIDE DEF pay
      <4> QED  BY <4>1, <4>2, <4>3
    <3>3. CASE Step(pay(work), "target")
      <4>2. pay(work) \in Tables /\ pay(work).rows = work.rows
        <5>1. -f.fee \in Int  BY <1>00
        <5> HIDE DEF f
        <5> QED  BY <5>1, <1>0, <1>00, PostIsTables
      <4> HIDE DEF pay
      <4> QED  BY <4>2, <3>3, <2>0
    <3> QED  BY <1>2, <3>1, <3>2, <3>3 DEF ApplyFee
  <2> QED  BY <2>0, <2>2, <1>0, StepKeepsTypes DEF ScopeOK, Pc
<1>3. CASE ApplyTarget
  <2>0. scope.id \in TxId /\ work.rows[scope.id] \in Row
    BY <1>3, <1>000 DEF ApplyTarget
  <2> DEFINE p == IF scope.op = "income" THEN "commit" ELSE "linked"
  <2>1. PICK d \in Tables : Step(d, p) /\ d.rows[scope.id] \in Row
    BY <1>3, <2>0, <1>0, <1>00, PostIsTables DEF ApplyTarget
  <2>2. CASE scope.op = "income"
    BY <2>0, <2>1, <2>2, <1>0, StepKeepsTypes DEF ScopeOK, Pc
  <2>3. CASE scope.op # "income"
    BY <2>0, <2>1, <2>3, <1>0, StepKeepsTypes DEF ScopeOK, Pc
  <2> QED  BY <2>2, <2>3
<1>4. CASE ApplyLinked
  <2>0. scope.id \in TxId /\ work.rows[scope.id] \in Row
    BY <1>4, <1>000 DEF ApplyLinked
  <2>1. PICK d \in Tables : Step(d, "stamp") /\ d.rows[scope.id] \in Row
    BY <1>4, <2>0, <1>0, <1>00, PostIsTables DEF ApplyLinked
  <2> QED  BY <2>0, <2>1, <1>0, StepKeepsTypes DEF ScopeOK, Pc
<1>5. CASE StampRate
  <2>0. scope.id \in TxId /\ work.rows[scope.id] \in Row
    BY <1>5, <1>000 DEF StampRate
  <2> DEFINE q  == IF scope.form.cur = Base THEN 1 ELSE rate
             r  == [work.rows[scope.id] EXCEPT !.fx = q]
             rs == [work.rows EXCEPT ![scope.id] = r]
             d  == [work EXCEPT !.rows = rs]
  <2>1. q \in Nat  BY <1>0, InputsAssumption
  <2>2. r \in Row
    <3> HIDE DEF q
    <3> QED  BY <2>0, <2>1 DEF Row
  <2>3. rs \in [TxId -> Row \cup {None}]
    <3> HIDE DEF r
    <3> QED  BY <2>0, <2>2, <1>0 DEF Tables
  <2>4. d \in Tables
    <3> HIDE DEF rs
    <3> QED  BY <2>3, <1>0 DEF Tables
  <2>5. Step(d, "commit")  BY <1>5 DEF StampRate
  <2> HIDE DEF d
  <2> QED  BY <2>4, <2>5, <1>0, StepKeepsTypes DEF ScopeOK, Pc
<1> QED  BY <1>1, <1>2, <1>3, <1>4, <1>5

LEMMA OtherStatementTypes ==
    ASSUME TypeInv,
           EraseRows \/ WritePair \/ Send \/ Receive
             \/ Unpay \/ WriteBill \/ Pay
    PROVE  TypeInv'
<1> USE DEF TypeInv, At, NoScope
<1>0. work \in Tables /\ rate \in Rates /\ scope \in ScopeType
  BY DEF BooksOK
<1>1. CASE EraseRows
  <2>1. PICK drop, dead :
            Step(DeleteRows([work EXCEPT !.xfers = work.xfers \ drop], dead),
                 "commit")
    BY <1>1 DEF EraseRows
  <2>2. [work EXCEPT !.xfers = work.xfers \ drop] \in Tables
    BY <1>0 DEF Tables
  <2>3. scope.op # "none" /\ scope.op # "rebuild"
    BY <1>1 DEF ScopeOK, EraseRows
  <2> QED
    BY <2>1, <2>2, <2>3, DeleteRowsIsTables, StepKeepsTypes DEF ScopeOK, Pc
<1>2. CASE WritePair
  <2> DEFINE f   == scope.form
             out == RowOf(f, None)
             in  == RowOf([f EXCEPT !.type = "transfer_in",
                             !.asset = f.linked, !.linked = f.asset],
                          work.next)
             d1  == InsertRow(work, out)
             d2  == InsertRow(d1, in)
             x   == [from |-> f.asset, to |-> f.linked,
                     amount |-> f.amount, fromTx |-> work.next,
                     toTx |-> work.next + 1]
  <2>0. /\ f \in Form /\ f.linked \in Account /\ scope.op = "transfer"
        /\ work.next \in TxId /\ work.next + 1 \in TxId
    BY <1>2 DEF WritePair, ScopeOK
  <2>1. out \in Row  BY <2>0, RowOfIsRow
  <2>2. in \in Row
    <3>1. [f EXCEPT !.type = "transfer_in", !.asset = f.linked,
                    !.linked = f.asset] \in Form
      BY <2>0 DEF Form, TxType, AnyAccount
    <3> QED  BY <3>1, <2>0, RowOfIsRow
  <2>3. x \in Transfer  BY <2>0 DEF Transfer, Form
  <2>4. Step([d2 EXCEPT !.xfers = d2.xfers \cup {x}], "send")
    BY <1>2 DEF WritePair
  <2> HIDE DEF out, in, x
  <2>5. d1 \in Tables /\ d1.next = work.next + 1
    BY <2>0, <2>1, <1>0, InsertRowIsTables
  <2> HIDE DEF d1
  <2>6. d2 \in Tables  BY <2>0, <2>2, <2>5, InsertRowIsTables
  <2> HIDE DEF d2
  <2>7. [d2 EXCEPT !.xfers = d2.xfers \cup {x}] \in Tables
    BY <2>3, <2>6 DEF Tables
  <2> QED  BY <2>0, <2>4, <2>7, StepKeepsTypes DEF ScopeOK, Pc
<1>3. CASE Send \/ Receive
  <2> DEFINE f == scope.form
  <2>0. f \in Form /\ f.linked \in Account /\ scope.op = "transfer"
    BY <1>3 DEF Send, Receive, ScopeOK
  <2>1. /\ f.asset \in Account /\ f.cur \in Currency /\ f.amount \in Int
        /\ -f.amount \in Int
    BY <2>0 DEF Form
  <2>2. \/ \E d \in Tables : Step(d, "receive")
        \/ \E d \in Tables : Step(d, "commit")
    BY <1>3, <2>0, <2>1, <1>0, PostIsTables DEF Send, Receive
  <2> QED  BY <2>0, <2>2, StepKeepsTypes DEF ScopeOK, Pc
<1>4. CASE Unpay
  <2> DEFINE b == scope.was
  <2>0. b \in Bill /\ scope.op = "bill_edit" /\ scope.id \in ExpId
    BY <1>4 DEF Unpay, ScopeOK
  <2>1. b.asset \in Account /\ b.cur \in Currency /\ -Credit(b) \in Int
    BY <2>0 DEF Bill, Credit
  <2>2. PICK d \in Tables : Step(d, "bill")
    BY <1>4, <2>1, <1>0, PostIsTables DEF Unpay
  <2> QED  BY <2>0, <2>2, StepKeepsTypes DEF ScopeOK, Pc
<1>5. CASE Pay
  <2> DEFINE b == scope.bill
  <2>0. b \in Bill /\ scope.op \in {"bill_new", "bill_edit"}
    BY <1>5 DEF Pay, ScopeOK
  <2>1. b.asset \in Account /\ b.cur \in Currency /\ Credit(b) \in Int
    BY <2>0 DEF Bill, Credit
  <2>2. PICK d \in Tables : Step(d, "commit")
    BY <1>5, <2>1, <1>0, PostIsTables DEF Pay
  <2> QED  BY <2>0, <2>2, StepKeepsTypes DEF ScopeOK, Pc
<1>6. CASE WriteBill
  <2> DEFINE b    == scope.bill
             e    == IF scope.op = "bill_new" THEN work.nextExp ELSE scope.id
             es   == [work.exps EXCEPT ![e] = b]
             n    == IF scope.op = "bill_new" THEN work.nextExp + 1
                     ELSE work.nextExp
             d    == [work EXCEPT !.exps = es, !.nextExp = n]
             next == IF b = None THEN "commit" ELSE "pay"
  <2>0. scope.op \in {"bill_new", "bill_edit"} /\ b \in Bill \cup {None}
    BY <1>6, <1>0 DEF WriteBill, ScopeOK, ScopeType
  <2>1. Step(d, next)
    <3>1. CASE scope.op = "bill_new"  BY <1>6, <3>1 DEF WriteBill
    <3>2. CASE scope.op = "bill_edit"
      <4>1. Step([work EXCEPT !.exps = es], next)
        BY <1>6, <3>2 DEF WriteBill
      <4>2. [work EXCEPT !.exps = es] = d
        BY <3>2, <1>0 DEF Tables
      <4> HIDE DEF es, d, next
      <4> QED  BY <4>1, <4>2
    <3> QED  BY <2>0, <3>1, <3>2
  <2>2. es \in [ExpId -> Bill \cup {None}]  BY <2>0, <1>0 DEF Tables
  <2>3. n \in Nat \ {0}  BY <1>0 DEF Tables
  <2>4. d \in Tables
    <3> HIDE DEF es, n
    <3> QED  BY <2>2, <2>3, <1>0 DEF Tables
  <2> HIDE DEF d
  <2>5. CASE b = None
    BY <2>0, <2>1, <2>4, <2>5, StepKeepsTypes DEF ScopeOK, Pc
  <2>6. CASE b # None
    BY <2>0, <2>1, <2>4, <2>6, StepKeepsTypes DEF ScopeOK, Pc
  <2> QED  BY <2>5, <2>6
<1> QED  BY <1>1, <1>2, <1>3, <1>4, <1>5, <1>6

LEMMA BaselineIsInt ==
    ASSUME NEW d \in Tables, NEW a \in Own
    PROVE  Baseline(d, a) \in Int
<1>1. d.log[a] \in Seq(Entry) /\ d.cur[a] \in Int  BY DEF Tables
<1>2. CASE d.log[a] = <<>>  BY <1>1, <1>2 DEF Baseline
<1>3. CASE d.log[a] # <<>>
  <2>1. d.log[a][1] \in Entry  BY <1>1, <1>3
  <2> QED  BY <2>1, <1>3 DEF Baseline, Entry
<1> QED  BY <1>2, <1>3

LEMMA ReplayTypes ==
    ASSUME TypeInv, ReplayStart \/ ReplayEntry \/ ReplayStore
    PROVE  TypeInv'
<1> USE DEF TypeInv, At, NoScope
<1>0. work \in Tables /\ scope \in ScopeType /\ scope.op = "rebuild"
  BY DEF BooksOK, ScopeOK, ReplayStart, ReplayEntry, ReplayStore
<1>1. CASE ReplayStart
  <2>1. PICK a \in scope.todo :
            scope' = [scope EXCEPT !.pc = "replay", !.at = a, !.i = 0,
                                   !.cum = Baseline(work, a)]
    BY <1>1 DEF ReplayStart
  <2>2. a \in Own  BY <1>0 DEF ScopeType
  <2>3. Baseline(work, a) \in Int  BY <2>2, <1>0, BaselineIsInt
  <2>4. /\ scope' \in ScopeType /\ scope'.op = "rebuild"
        /\ scope'.pc = "replay" /\ scope'.at = a
    BY <2>1, <2>2, <2>3, <1>0 DEF ScopeType, Pc
  <2>5. UNCHANGED <<db, work, seen, rate, ops>>  BY <1>1 DEF ReplayStart
  <2> QED  BY <2>2, <2>4, <2>5 DEF BooksOK, ScopeOK, SeenOK
<1>2. CASE ReplayEntry
  <2> DEFINE l == work.log[scope.at]
             m == scope.cum + l[scope.i + 1].delta
  <2>0. scope.at \in Own /\ scope.i < Len(l) /\ scope.pc = "replay"
    BY <1>2 DEF ReplayEntry, ScopeOK
  <2>1. l \in Seq(Entry) /\ scope.i \in Nat /\ scope.cum \in Int
    BY <2>0, <1>0 DEF Tables, ScopeType
  <2>2. l[scope.i + 1] \in Entry
    <3> HIDE DEF l
    <3> QED  BY <2>0, <2>1
  <2>3. m \in Int /\ scope.i + 1 \in Nat
    <3>1. l[scope.i + 1].delta \in Int  BY <2>2 DEF Entry
    <3> HIDE DEF l
    <3> QED  BY <2>1, <3>1
  <2>4. /\ scope' = [scope EXCEPT !.i = scope.i + 1, !.cum = m]
        /\ UNCHANGED <<db, work, seen, rate, ops>>
    BY <1>2 DEF ReplayEntry
  <2> HIDE DEF m
  <2>5. /\ scope' \in ScopeType /\ scope'.op = "rebuild"
        /\ scope'.pc = "replay" /\ scope'.at = scope.at
    BY <2>0, <2>3, <2>4, <1>0 DEF ScopeType
  <2> QED  BY <2>0, <2>4, <2>5 DEF BooksOK, ScopeOK, SeenOK
<1>3. CASE ReplayStore
  <2> DEFINE c == [work.cur EXCEPT ![scope.at] = scope.cum]
             p == IF scope.todo = {scope.at} THEN "commit" ELSE "rebuild"
  <2>0. scope.at \in Own  BY <1>3 DEF ReplayStore, ScopeOK
  <2>1. c \in [Own -> Int]  BY <2>0, <1>0 DEF Tables, ScopeType
  <2>2. /\ work' = [work EXCEPT !.cur = c]
        /\ scope' = [scope EXCEPT !.todo = scope.todo \ {scope.at},
                                  !.at = None, !.pc = p]
        /\ UNCHANGED <<db, seen, rate, ops>>
    BY <1>3 DEF ReplayStore
  <2>3. p \in Pc /\ p \in {"commit", "rebuild"}  BY DEF Pc
  <2> HIDE DEF c, p
  <2>4. work' \in Tables  BY <2>1, <2>2, <1>0 DEF Tables
  <2>5. scope' \in ScopeType /\ scope'.op = "rebuild" /\ scope'.pc = p
    BY <2>2, <2>3, <1>0 DEF ScopeType
  <2> QED  BY <2>2, <2>3, <2>4, <2>5 DEF BooksOK, ScopeOK, SeenOK
<1> QED  BY <1>1, <1>2, <1>3

\* A request either reads a row or bill first, or opens a scope that starts
\* with what its first statement needs.
LEMMA OpenKeepsTypes ==
    ASSUME TypeInv, NEW w \in Workers, NEW s \in ScopeType, Open(w, s)
    PROVE  /\ BooksOK' /\ SeenOK' /\ db' = db /\ work' = work /\ work = db
           /\ scope'.op = s.op /\ scope'.pc = s.pc /\ scope'.id = s.id
           /\ scope'.old = s.old /\ scope'.form = s.form
           /\ scope'.was = s.was /\ scope'.bill = s.bill /\ scope'.at = s.at
<1> USE DEF TypeInv, BooksOK, Open
<1>1. scope' \in ScopeType  BY DEF ScopeType
<1>2. seen' \in [Workers -> SeenType \cup {None}]  OBVIOUS
<1>3. SeenOK'  BY DEF SeenOK
<1>4. work = db  BY DEF ScopeOK
<1> QED  BY <1>1, <1>2, <1>3, <1>4 DEF ScopeType

LEMMA FormsAreTyped ==
    /\ Orders \subseteq Form /\ Bills \subseteq Bill
    /\ \A m \in Moves : m.from \in Account /\ m.to \in Account
    /\ None \notin Account /\ None \notin Nat
BY InputsAssumption, AccountsAssumption DEF Move

LEMMA RequestTypes ==
    ASSUME TypeInv, NEW w \in Workers, Request(w)
    PROVE  TypeInv'
<1> USE DEF TypeInv, At, NoScope
<1>0. db \in Tables /\ db.next \in Nat \ {0} /\ seen \in [Workers -> SeenType \cup {None}]
  BY DEF BooksOK, Tables
<1>1. CASE CreateTx(w)
  <2>1. PICK o \in Orders :
          /\ Room(2)
          /\ Open(w, [Idle EXCEPT !.op = "create", !.pc = "row", !.form = o])
    BY <1>1 DEF CreateTx
  <2> DEFINE s == [Idle EXCEPT !.op = "create", !.pc = "row", !.form = o]
  <2>2. o \in Form /\ db.next \in TxId
    BY <2>1, <1>0, FormsAreTyped, BoundsAssumption DEF Room, TxId
  <2>3. /\ s \in ScopeType
        /\ s.op = "create" /\ s.pc = "row" /\ s.form = o
    <3>5. "create" \in Op /\ "row" \in Pc  BY DEF Op, Pc
    <3> QED  BY <2>2, <3>5, IdleType DEF ScopeType
  <2> HIDE DEF s
  <2>4. Open(w, s)  BY <2>1 DEF s
  <2> QED  BY <2>2, <2>3, <2>4, OpenKeepsTypes DEF ScopeOK
<1>2. CASE UpdateTx(w)
  <2> DEFINE n == seen[w]
             s == [Idle EXCEPT !.op = "update", !.pc = "revfee",
                     !.id = n.id, !.old = db.rows[n.id], !.form = n.form]
  <2>1. n # None /\ n.kind = "tx" /\ Live(db, n.id) /\ Open(w, s)
    BY <1>2 DEF UpdateTx
  <2>2. n.id \in TxId /\ n.form \in Form
    BY <2>1 DEF SeenOK
  <2>3. db.rows[n.id] \in Row  BY <2>1, <2>2, <1>0 DEF Live, Tables
  <2>4. /\ s \in ScopeType
        /\ s.op = "update" /\ s.pc = "revfee" /\ s.id = n.id
        /\ s.old = db.rows[n.id] /\ s.form = n.form
    <3>1. n.id \in Nat  BY <2>2, BoundsAssumption DEF TxId
    <3>2. "update" \in Op /\ "revfee" \in Pc  BY DEF Op, Pc
    <3>3. PICK id, old, form : id = n.id /\ old = db.rows[n.id] /\ form = n.form
      OBVIOUS
    <3>4. s = [Idle EXCEPT !.op = "update", !.pc = "revfee", !.id = id, !.old = old, !.form = form]
      BY <3>3
    <3>5. id \in Nat /\ old \in Row /\ form \in Form
      BY <2>2, <2>3, <3>1, <3>3
    <3> HIDE DEF n, s
    <3>6. /\ s \in ScopeType
          /\ s.op = "update" /\ s.pc = "revfee" /\ s.id = id /\ s.old = old /\ s.form = form
      BY ONLY <3>2, <3>4, <3>5, IdleType DEF ScopeType
    <3> QED  BY <3>3, <3>6
  <2> HIDE DEF s
  <2> QED  BY <2>1, <2>2, <2>3, <2>4, OpenKeepsTypes DEF ScopeOK
<1>3. CASE DeleteTx(w)
  <2>1. PICK i \in TxId :
          /\ Live(db, i) /\ Live(db, MainOf(db, i))
          /\ Open(w, [Idle EXCEPT !.op = "delete", !.pc = "revfee",
                        !.self = i, !.id = MainOf(db, i),
                        !.old = db.rows[MainOf(db, i)]])
    BY <1>3 DEF DeleteTx
  <2> DEFINE m == MainOf(db, i)
             s == [Idle EXCEPT !.op = "delete", !.pc = "revfee",
                     !.self = i, !.id = m, !.old = db.rows[m]]
  <2>2. m \in TxId
    <3>1. \A S \in SUBSET TxId : S # {} => (CHOOSE j \in S : TRUE) \in TxId
      OBVIOUS
    <3>2. Latest(LookAlikes(db, db.rows[i], "transfer_out")) \in SUBSET TxId
      BY DEF Latest, LookAlikes
    <3>3. db.rows[i].parent \in TxId \cup {None}
      BY <2>1, <1>0 DEF Live, Tables, Row
    <3> QED  BY <3>1, <3>2, <3>3 DEF MainOf
  <2> HIDE DEF m
  <2>3. db.rows[m] \in Row  BY <2>1, <2>2, <1>0 DEF m, Live, Tables
  <2>4. /\ s \in ScopeType
        /\ s.op = "delete" /\ s.pc = "revfee" /\ s.id = m
        /\ s.old = db.rows[m]
    <3>1. m \in Nat  BY <2>2, BoundsAssumption DEF TxId
    <3>2. "delete" \in Op /\ "revfee" \in Pc  BY DEF Op, Pc
    <3>3. PICK id, old : id = m /\ old = db.rows[m]
      OBVIOUS
    <3>4. s = [Idle EXCEPT !.op = "delete", !.pc = "revfee", !.self = i, !.id = id, !.old = old]
      BY <3>3
    <3>5. id \in Nat /\ old \in Row /\ i \in TxId
      BY <2>1, <2>3, <3>1, <3>3
    <3> HIDE DEF s
    <3>6. /\ s \in ScopeType
          /\ s.op = "delete" /\ s.pc = "revfee" /\ s.id = id /\ s.old = old
      BY ONLY <3>2, <3>4, <3>5, IdleType DEF ScopeType
    <3> QED  BY <3>3, <3>6
  <2>5. Open(w, s)  BY <2>1 DEF m
  <2> HIDE DEF s
  <2> QED  BY <2>2, <2>3, <2>4, <2>5, OpenKeepsTypes DEF ScopeOK
<1>4. CASE CreateTransfer(w)
  <2>1. PICK t \in Moves :
          /\ Room(2)
          /\ Open(w, [Idle EXCEPT !.op = "transfer", !.pc = "pair",
               !.form = [type |-> "transfer_out", asset |-> t.from,
                         linked |-> t.to, amount |-> t.amount, fee |-> 0,
                         cur |-> t.cur]])
    BY <1>4 DEF CreateTransfer
  <2> DEFINE f == [type |-> "transfer_out", asset |-> t.from,
                   linked |-> t.to, amount |-> t.amount, fee |-> 0,
                   cur |-> t.cur]
             s == [Idle EXCEPT !.op = "transfer", !.pc = "pair", !.form = f]
  <2>2. f \in Form /\ f.linked \in Account
    BY InputsAssumption DEF Move, Form, TxType, AnyAccount
  <2>3. db.next \in TxId /\ db.next + 1 \in TxId
    BY <2>1, <1>0, BoundsAssumption DEF Room, TxId
  <2>4. Open(w, s)  BY <2>1
  <2> HIDE DEF f
  <2>5. /\ s \in ScopeType
        /\ s.op = "transfer" /\ s.pc = "pair" /\ s.form = f
    <3>5. "transfer" \in Op /\ "pair" \in Pc  BY DEF Op, Pc
    <3> QED  BY <2>2, <3>5, IdleType DEF ScopeType
  <2> HIDE DEF s
  <2> QED  BY <2>2, <2>3, <2>4, <2>5, OpenKeepsTypes DEF ScopeOK
<1>5. CASE ConfirmIncome(w)
  <2>1. PICK n \in Incomes :
          /\ Room(1)
          /\ Open(w, [Idle EXCEPT !.op = "income", !.pc = "row",
               !.form = [type |-> "income", asset |-> n.asset,
                         linked |-> n.source, amount |-> n.amount, fee |-> 0,
                         cur |-> CurOf[n.asset]]])
    BY <1>5 DEF ConfirmIncome
  <2> DEFINE f == [type |-> "income", asset |-> n.asset,
                   linked |-> n.source, amount |-> n.amount, fee |-> 0,
                   cur |-> CurOf[n.asset]]
             s == [Idle EXCEPT !.op = "income", !.pc = "row", !.form = f]
  <2>2. f \in Form
    BY InputsAssumption, AccountsAssumption DEF Income, Form, TxType
  <2>3. db.next \in TxId
    BY <2>1, <1>0, BoundsAssumption DEF Room, TxId
  <2>4. Open(w, s)  BY <2>1
  <2> HIDE DEF f
  <2>5. /\ s \in ScopeType
        /\ s.op = "income" /\ s.pc = "row" /\ s.form = f
    <3>5. "income" \in Op /\ "row" \in Pc  BY DEF Op, Pc
    <3> QED  BY <2>2, <3>5, IdleType DEF ScopeType
  <2> HIDE DEF s
  <2> QED  BY <2>2, <2>3, <2>4, <2>5, OpenKeepsTypes DEF ScopeOK
<1>6. CASE CreateBill(w)
  <2>1. PICK b \in Bills :
          /\ db.nextExp \in ExpId
          /\ Open(w, [Idle EXCEPT !.op = "bill_new", !.pc = "bill",
                                  !.bill = b])
    BY <1>6 DEF CreateBill
  <2> DEFINE s == [Idle EXCEPT !.op = "bill_new", !.pc = "bill", !.bill = b]
  <2>2. b \in Bill  BY FormsAreTyped
  <2>3. /\ s \in ScopeType
        /\ s.op = "bill_new" /\ s.pc = "bill" /\ s.bill = b
    <3>5. "bill_new" \in Op /\ "bill" \in Pc  BY DEF Op, Pc
    <3>6. PICK c \in Bill : c = b
      BY <2>2
    <3>7. PICK r : r = [Idle EXCEPT !.op = "bill_new", !.pc = "bill", !.bill = c]
      OBVIOUS
    <3>8. r \in ScopeType /\ r.op = "bill_new" /\ r.pc = "bill" /\ r.bill = c
      BY ONLY c \in Bill, <3>5, <3>7, IdleType DEF ScopeType
    <3> QED  BY <3>6, <3>7, <3>8
  <2> HIDE DEF s
  <2>4. Open(w, s)  BY <2>1 DEF s
  <2> QED  BY <2>1, <2>2, <2>3, <2>4, OpenKeepsTypes DEF ScopeOK
<1>7. CASE ChangeBill(w)
  <2> DEFINE n == seen[w]
             s == [Idle EXCEPT !.op = "bill_edit", !.pc = "unpay",
                     !.id = n.id, !.was = n.was, !.bill = n.bill]
  <2>1. n # None /\ n.kind = "bill" /\ Open(w, s)
    BY <1>7 DEF ChangeBill
  <2>2. n.id \in ExpId /\ n.was \in Bill /\ n.bill \in Bill \cup {None}
    <3>1. n \in SeenType  BY <2>1, <1>0
    <3>2. n.id \in ExpId /\ n.was \in Bill  BY <2>1 DEF SeenOK
    <3> HIDE DEF n
    <3> QED  BY <3>1, <3>2 DEF SeenType
  <2>3. /\ s \in ScopeType
        /\ s.op = "bill_edit" /\ s.pc = "unpay" /\ s.id = n.id
        /\ s.was = n.was
    <3>1. n.id \in Nat  BY <2>2, BoundsAssumption DEF ExpId
    <3>2. "bill_edit" \in Op /\ "unpay" \in Pc  BY DEF Op, Pc
    <3>3. PICK id, was, bill : id = n.id /\ was = n.was /\ bill = n.bill
      OBVIOUS
    <3>4. s = [Idle EXCEPT !.op = "bill_edit", !.pc = "unpay", !.id = id, !.was = was, !.bill = bill]
      BY <3>3
    <3>5. id \in Nat /\ was \in Bill /\ bill \in Bill \cup {None}
      BY <2>2, <3>1, <3>3
    <3> HIDE DEF n, s
    <3>6. /\ s \in ScopeType
          /\ s.op = "bill_edit" /\ s.pc = "unpay" /\ s.id = id /\ s.was = was
      BY ONLY <3>2, <3>4, <3>5, IdleType DEF ScopeType
    <3> QED  BY <3>3, <3>6
  <2> HIDE DEF s
  <2> QED  BY <2>1, <2>2, <2>3, OpenKeepsTypes DEF ScopeOK
<1>8. CASE Rebuild(w)
  <2>1. PICK S \in {{a} : a \in Own} \cup {Own} :
          Open(w, [Idle EXCEPT !.op = "rebuild", !.pc = "rebuild",
                               !.todo = S])
    BY <1>8 DEF Rebuild
  <2> DEFINE s == [Idle EXCEPT !.op = "rebuild", !.pc = "rebuild", !.todo = S]
  <2>2. S \in SUBSET Own  OBVIOUS
  <2>3. s \in ScopeType /\ s.op = "rebuild" /\ s.pc = "rebuild"
    <3>5. "rebuild" \in Op /\ "rebuild" \in Pc  BY DEF Op, Pc
    <3>6. PICK T \in SUBSET Own : T = S
      BY <2>2
    <3>7. PICK r : r = [Idle EXCEPT !.op = "rebuild", !.pc = "rebuild", !.todo = T]
      OBVIOUS
    <3>8. r \in ScopeType /\ r.op = "rebuild" /\ r.pc = "rebuild"
      BY ONLY T \in SUBSET Own, <3>5, <3>7, IdleType DEF ScopeType
    <3> QED  BY <3>6, <3>7, <3>8
  <2> HIDE DEF s
  <2>4. Open(w, s)  BY <2>1 DEF s
  <2> QED  BY <2>3, <2>4, OpenKeepsTypes DEF ScopeOK
<1>9. CASE ReadTx(w)
  <2>1. PICK i \in TxId, p \in Patches :
          /\ Live(db, i)
          /\ seen' = [seen EXCEPT ![w] =
                  [kind |-> "tx", id |-> i, form |-> Merge(p, db.rows[i]),
                   was |-> None, bill |-> None]]
          /\ UNCHANGED <<db, work, scope, rate, ops>>
    BY <1>9 DEF ReadTx
  <2>2. Merge(p, db.rows[i]) \in Form
    BY <2>1, <1>0, MergeIsForm, InputsAssumption DEF Live, Tables
  <2> DEFINE n == [kind |-> "tx", id |-> i, form |-> Merge(p, db.rows[i]),
                   was |-> None, bill |-> None]
  <2>3. n \in SeenType
    BY <2>2, BoundsAssumption DEF SeenType, TxId
  <2>4. n.kind = "tx" /\ n.id \in TxId /\ n.form \in Form  BY <2>2
  <2> HIDE DEF n
  <2>5. seen' = [seen EXCEPT ![w] = n]  BY <2>1 DEF n
  <2>6. BooksOK'  BY <2>1, <2>3, <2>5 DEF BooksOK
  <2>7. SeenOK'  BY <2>4, <2>5, <1>0 DEF SeenOK
  <2> QED  BY <2>1, <2>6, <2>7 DEF ScopeOK
<1>10. CASE ReadBill(w)
  <2>1. PICK e \in ExpId, b \in Bills \cup {None} :
          /\ db.exps[e] # None
          /\ seen' = [seen EXCEPT ![w] =
                  [kind |-> "bill", id |-> e, form |-> None,
                   was |-> db.exps[e], bill |-> b]]
          /\ UNCHANGED <<db, work, scope, rate, ops>>
    BY <1>10 DEF ReadBill
  <2>2. db.exps[e] \in Bill /\ b \in Bill \cup {None}
    BY <2>1, <1>0, FormsAreTyped DEF Tables
  <2> DEFINE n == [kind |-> "bill", id |-> e, form |-> None,
                   was |-> db.exps[e], bill |-> b]
  <2>3. n \in SeenType
    BY <2>2, BoundsAssumption DEF SeenType, ExpId
  <2>4. n.kind = "bill" /\ n.id \in ExpId /\ n.was \in Bill  BY <2>2
  <2> HIDE DEF n
  <2>5. seen' = [seen EXCEPT ![w] = n]  BY <2>1 DEF n
  <2>6. BooksOK'  BY <2>1, <2>3, <2>5 DEF BooksOK
  <2>7. SeenOK'  BY <2>4, <2>5, <1>0 DEF SeenOK
  <2> QED  BY <2>1, <2>6, <2>7 DEF ScopeOK
<1>11. CASE Refuse(w)
  BY <1>11, <1>0 DEF Refuse, BooksOK, ScopeOK, SeenOK
<1> QED
  BY <1>1, <1>2, <1>3, <1>4, <1>5, <1>6, <1>7, <1>8, <1>9, <1>10, <1>11
  DEF Request

LEMMA EndTypes ==
    ASSUME TypeInv, Commit \/ Rollback \/ SetRate \/ UNCHANGED books
    PROVE  TypeInv'
<1> USE DEF TypeInv, At, NoScope
<1>0. /\ db \in Tables /\ work \in Tables /\ rate \in Rates /\ ops \in Nat
      /\ scope \in ScopeType /\ seen \in [Workers -> SeenType \cup {None}]
  BY DEF BooksOK
<1>1. /\ Idle.op = "none" /\ Idle.pc = "idle"
  BY DEF Idle
<1>2. CASE Commit
  <2>1. /\ db' = work /\ scope' = Idle /\ ops' = ops + 1
        /\ UNCHANGED <<work, seen, rate>>
    BY <1>2 DEF Commit
  <2>2. BooksOK'  BY <2>1, <1>0, IdleType DEF BooksOK
  <2>3. ScopeOK'  BY <2>1, <1>1 DEF ScopeOK
  <2>4. SeenOK'  BY <2>1 DEF SeenOK
  <2> QED  BY <2>2, <2>3, <2>4
<1>3. CASE Rollback
  <2>1. /\ work' = db /\ scope' = Idle /\ UNCHANGED <<db, seen, rate, ops>>
    BY <1>3 DEF Rollback
  <2>2. BooksOK'  BY <2>1, <1>0, IdleType DEF BooksOK
  <2>3. ScopeOK'  BY <2>1, <1>1 DEF ScopeOK
  <2>4. SeenOK'  BY <2>1 DEF SeenOK
  <2> QED  BY <2>2, <2>3, <2>4
<1>4. CASE SetRate
  BY <1>0, <1>4 DEF SetRate, BooksOK, ScopeOK, SeenOK
<1>5. CASE UNCHANGED books
  BY <1>0, <1>5 DEF books, BooksOK, ScopeOK, SeenOK
<1> QED  BY <1>2, <1>3, <1>4, <1>5

LEMMA SerialTypes == TypeInv /\ [Serial]_books => TypeInv'
<1> SUFFICES ASSUME TypeInv, [Serial]_books PROVE TypeInv'
  OBVIOUS
<1>1. ASSUME NEW w \in Workers, Request(w) PROVE TypeInv'
  BY <1>1, RequestTypes
<1>2. CASE Statements
  BY <1>2, ReverseTypes, ApplyTypes, OtherStatementTypes, ReplayTypes
     DEF Statements
<1>3. CASE Commit \/ Rollback \/ SetRate \/ UNCHANGED books
  BY <1>3, EndTypes
<1> QED  BY <1>1, <1>2, <1>3 DEF Serial

\* A step of Next is one of a request by itself, one whose failing statement
\* nobody sees, or leaves the tables alone.
LEMMA StepKinds ==
    ASSUME [Next]_vars
    PROVE  \/ Serial /\ lapsed' = lapsed /\ mixed' = mixed
           \/ Lapse /\ lapsed' = TRUE /\ mixed' = mixed
           \/ UNCHANGED books /\ lapsed' = lapsed /\ mixed' \in {mixed, TRUE}
<1>1. CASE Next  BY <1>1 DEF Next, Meet
<1>2. CASE UNCHANGED vars  BY <1>2 DEF vars
<1> QED  BY <1>1, <1>2

LEMMA LapseTypes ==
    ASSUME TypeInv, Lapse
    PROVE  TypeInv'
<1> USE DEF TypeInv, At, NoScope
<1>0. /\ db \in Tables /\ work \in Tables /\ rate \in Rates /\ ops \in Nat
      /\ scope \in ScopeType /\ seen \in [Workers -> SeenType \cup {None}]
  BY DEF BooksOK
<1>1. ASSUME NEW w \in Workers, TwinUnread(w)
      PROVE  TypeInv'
  <2>1. PICK i \in TxId :
          /\ Live(db, i)
          /\ Open(w, [Idle EXCEPT !.op = "delete", !.pc = "revfee", !.self = i,
                                 !.id = i, !.old = db.rows[i]])
    BY <1>1 DEF TwinUnread
  <2> DEFINE s == [Idle EXCEPT !.op = "delete", !.pc = "revfee", !.self = i,
                               !.id = i, !.old = db.rows[i]]
  <2>2. db.rows[i] \in Row  BY <1>0, <2>1 DEF Live, Tables
  <2>3. i \in Nat  BY BoundsAssumption DEF TxId
  <2>4. s \in ScopeType
    BY <2>2, <2>3, IdleType DEF ScopeType, Op, Pc
  <2>5. /\ BooksOK' /\ SeenOK' /\ scope'.op = "delete" /\ scope'.pc = "revfee"
        /\ scope'.id = i /\ scope'.old = db.rows[i]
    <3>1. Open(w, s)  BY <2>1
    <3>2. /\ s.op = "delete" /\ s.pc = "revfee" /\ s.id = i
          /\ s.old = db.rows[i]
      BY DEF Idle
    <3> HIDE DEF s
    <3> QED  BY <3>1, <3>2, <2>4, OpenKeepsTypes
  <2> QED  BY <2>2, <2>5 DEF ScopeOK
<1>2. CASE FeesUnread
  <2>1. Step(work, "revtarget") /\ scope.pc = "revfee"  BY <1>2 DEF FeesUnread
  <2> QED  BY <1>0, <2>1, StepKeepsTypes DEF ScopeOK, Pc
<1>3. CASE FeesKept
  <2>1. /\ scope.pc = "revfee" /\ scope.id \in TxId /\ scope.old \in Row
        /\ scope.op \in {"update", "delete"}
        /\ scope.op = "update" => scope.form \in Form
        /\ UNCHANGED <<db, seen, rate, ops>>
    BY <1>3 DEF FeesKept, ScopeOK
  <2>2. /\ work' \in Tables /\ scope' \in ScopeType
        /\ scope'.pc \in {"revfee", "revtarget"} /\ scope'.op = scope.op
        /\ scope'.id = scope.id /\ scope'.old = scope.old
        /\ scope'.form = scope.form
    <3>1. CASE work' = work /\ scope' = [scope EXCEPT !.pc = "revtarget", !.i = 0]
      BY <1>0, <3>1 DEF ScopeType, Pc
    <3>2. ASSUME NEW j \in FeeChildren(work, scope.id),
                 work' = Post(work, Payer(work.rows[j]), scope.old.cur,
                              work.rows[j].amount),
                 scope' = [scope EXCEPT !.i = j]
          PROVE  /\ work' \in Tables /\ scope' \in ScopeType
                 /\ scope'.pc \in {"revfee", "revtarget"} /\ scope'.op = scope.op
                 /\ scope'.id = scope.id /\ scope'.old = scope.old
                 /\ scope'.form = scope.form
      <4>1. /\ j \in TxId /\ Payer(work.rows[j]) \in Account
            /\ work.rows[j].amount \in Int
        BY <1>0, ChildIsRow DEF Row
      <4>2. work' \in Tables
        BY <4>1, <1>0, <2>1, <3>2, PostIsTables DEF Row
      <4>3. j \in Nat  BY <4>1, BoundsAssumption DEF TxId
      <4> QED  BY <1>0, <2>1, <3>2, <4>2, <4>3 DEF ScopeType
    <3> QED  BY <1>3, <3>1, <3>2 DEF FeesKept
  <2>3. BooksOK' /\ SeenOK'  BY <1>0, <2>1, <2>2 DEF BooksOK, SeenOK
  <2> QED  BY <2>1, <2>2, <2>3 DEF ScopeOK
<1>4. CASE FeeRowLost
  <2> DEFINE f == scope.form
  <2>1. /\ scope.pc = "fee" /\ scope.form \in Form
        /\ scope.op \in {"create", "update", "income"}
        /\ scope.id \in TxId /\ work.rows[scope.id] \in Row
        /\ Step(Post(work, Payer(f), f.cur, -f.fee), "target")
    BY <1>4 DEF FeeRowLost, ScopeOK
  <2>2. Payer(f) \in Account /\ f.cur \in Currency /\ -f.fee \in Int
    BY <2>1 DEF Form, AnyAccount, Payer
  <2> HIDE DEF f
  <2>3. PICK d \in Tables : d.rows = work.rows /\ Step(d, "target")
    BY <1>0, <2>1, <2>2, PostIsTables
  <2> QED  BY <1>0, <2>1, <2>3, StepKeepsTypes DEF ScopeOK, Pc
<1>5. CASE ErasedInPart
  <2>1. PICK drop, dead :
            Step(DeleteRows([work EXCEPT !.xfers = @ \ drop], dead), "commit")
    BY <1>5 DEF ErasedInPart
  <2> DEFINE e == [work EXCEPT !.xfers = @ \ drop]
  <2>2. e \in Tables  BY <1>0 DEF Tables
  <2> HIDE DEF e
  <2>3. PICK d \in Tables : Step(d, "commit")
    BY <2>1, <2>2, DeleteRowsIsTables DEF e
  <2>4. scope.op # "none" /\ scope.op # "rebuild"
    BY <1>5 DEF ErasedInPart, ScopeOK
  <2> QED  BY <1>0, <2>3, <2>4, StepKeepsTypes DEF ScopeOK, Pc
<1>6. CASE StoreLost
  <2>1. /\ scope.pc = "replay" /\ scope.op = "rebuild"
        /\ scope' = [scope EXCEPT !.todo = @ \ {scope.at}, !.at = None,
                       !.pc = IF scope.todo = {scope.at} THEN "commit"
                              ELSE "rebuild"]
        /\ UNCHANGED <<db, work, seen, rate, ops>>
    BY <1>6 DEF StoreLost, ScopeOK
  <2>2. /\ scope' \in ScopeType /\ scope'.op = "rebuild"
        /\ scope'.pc \in {"commit", "rebuild"}
    BY <1>0, <2>1 DEF ScopeType, Pc
  <2>3. BooksOK' /\ SeenOK'  BY <1>0, <2>1, <2>2 DEF BooksOK, SeenOK
  <2> QED  BY <2>2, <2>3 DEF ScopeOK
<1> QED  BY <1>1, <1>2, <1>3, <1>4, <1>5, <1>6 DEF Lapse

LEMMA NextTypes == TypeInv /\ [Next]_vars => TypeInv'
BY StepKinds, SerialTypes, LapseTypes

(* Every table, the open scope and every pre-read value keeps its type,    *)
(* whatever the accounts, the requests, the workers and the bounds: no     *)
(* statement of a use case ever meets a value it has no branch for.        *)
THEOREM TypeCorrect == Spec => []TypeOK
<1> DEFINE Flags == lapsed \in BOOLEAN /\ mixed \in BOOLEAN
<1>1. TypeInv /\ Flags => TypeOK  BY DEF TypeInv, TypeOK
<1>2. Init => Flags  BY DEF Init
<1>3. Flags /\ [Next]_vars => Flags'  BY StepKinds
<1> HIDE DEF Flags
<1> QED  BY InitTypes, NextTypes, <1>1, <1>2, <1>3, PTL DEF Spec

(* What the types and the step that is open require of one another never   *)
(* breaks either: the invariant the proofs below start from.               *)
THEOREM TypesStay == Spec => []TypeInv
BY InitTypes, NextTypes, PTL DEF Spec

-----------------------------------------------------------------------------
(* The audit chain: every balance is the one its log leads to, a rebuild   *)
(* changes nothing, and the ledger implements AuditedAccounts.             *)
(* The invariant relates the open scope to the committed tables: what the  *)
(* scope holds differs from them only by entries appended to the logs,     *)
(* each of which follows from the one before, and by the balances those    *)
(* entries lead to.                                                        *)

\* The books of account a in e are those in d with postings appended.
Grows(d, e, a) ==
    /\ A!Extends(d.log[a], e.log[a])
    /\ \A i \in Len(d.log[a]) + 1 .. Len(e.log[a]) :
        A!Follows(e.log[a], i, d.cur[a]) /\ e.log[a][i].src = "posting"
    /\ e.cur[a] = A!Ending(e.log[a], d.cur[a])

Grown(d, e) == \A a \in Own : Grows(d, e, a)

\* A replay has added up the log as far as entry i.
ReplayOK == At("replay") =>
    LET l == work.log[scope.at]
    IN  /\ scope.i <= Len(l)
        /\ scope.cum = IF scope.i = 0 THEN Baseline(work, scope.at)
                       ELSE l[scope.i].after

RebuildIdle == scope.op = "rebuild" => work = db

AuditInv == /\ Chained(db)
            /\ Grown(db, work)
            /\ RebuildIdle
            /\ ReplayOK

-----------------------------------------------------------------------------
(* How books grow *)

LEMMA LogIsSeq ==
    ASSUME NEW d \in Tables, NEW a \in Own
    PROVE  /\ d.log[a] \in Seq(Entry) /\ d.cur[a] \in Int
           /\ Len(d.log[a]) \in Nat
           /\ d.log[a] = <<>> <=> Len(d.log[a]) = 0
           /\ \A i \in 1..Len(d.log[a]) : d.log[a][i] \in Entry
<1>1. d.log[a] \in Seq(Entry) /\ d.cur[a] \in Int  BY DEF Tables
<1> QED  BY <1>1

LEMMA PostGrows ==
    ASSUME NEW d \in Tables, NEW e \in Tables, Grown(d, e),
           NEW a \in Account, NEW c \in Currency, NEW m \in Int, rate \in Rates
    PROVE  Grown(d, Post(e, a, c, m))
<1>1. CASE a \in Invest  BY <1>1 DEF Post
<1>2. CASE a \notin Invest
  <2> DEFINE s   == Signed(a, Convert(m, c, a, rate))
             new == e.cur[a] + s
             x   == [delta |-> s, after |-> new, src |-> "posting"]
             f   == Post(e, a, c, m)
  <2>1. a \in Own  BY <1>2 DEF Account
  <2>2. s \in Int  BY ConvertIsInt DEF Signed
  <2>3. f = [e EXCEPT !.cur = [e.cur EXCEPT ![a] = new],
                      !.log = [e.log EXCEPT ![a] = Append(e.log[a], x)]]
    BY <1>2 DEF Post
  <2>4. /\ x.delta = s /\ x.after = new /\ x.src = "posting"
        /\ new = e.cur[a] + s
    OBVIOUS
  <2> HIDE DEF s, new, x, f
  <2>5. /\ f.cur = [e.cur EXCEPT ![a] = new]
        /\ f.log = [e.log EXCEPT ![a] = Append(e.log[a], x)]
    BY <2>3 DEF Tables
  <2>6. ASSUME NEW b \in Own, b # a PROVE Grows(d, f, b)
    <3>1. f.cur[b] = e.cur[b] /\ f.log[b] = e.log[b]
      BY <2>5, <2>6 DEF Tables
    <3>2. Grows(d, e, b)  BY DEF Grown
    <3> QED  BY <3>1, <3>2 DEF Grows
  <2>7. Grows(d, f, a)
    <3> DEFINE l == d.log[a]
               k == e.log[a]
               n == Append(k, x)
    <3>1. f.cur[a] = new /\ f.log[a] = n
      BY <2>1, <2>5 DEF Tables
    <3>2. /\ k \in Seq(Entry) /\ Len(k) \in Nat /\ (k = <<>> <=> Len(k) = 0)
          /\ Len(l) \in Nat
      BY <2>1, LogIsSeq
    <3>3. /\ A!Extends(l, k)
          /\ \A i \in Len(l) + 1 .. Len(k) :
                A!Follows(k, i, d.cur[a]) /\ k[i].src = "posting"
          /\ e.cur[a] = A!Ending(k, d.cur[a])
      BY <2>1 DEF Grown, Grows
    <3>4. /\ Len(n) = Len(k) + 1 /\ n[Len(k) + 1] = x /\ n # <<>>
          /\ \A i \in 1..Len(k) : n[i] = k[i]
      BY <3>2
    <3> HIDE DEF l, k, n
    <3>5. A!Extends(l, n)  BY <3>2, <3>3, <3>4 DEF A!Extends
    <3>6. ASSUME NEW i \in Len(l) + 1 .. Len(n)
          PROVE  A!Follows(n, i, d.cur[a]) /\ n[i].src = "posting"
      <4>1. CASE i <= Len(k)
        <5>1. A!Follows(k, i, d.cur[a]) /\ k[i].src = "posting"
          BY <3>2, <3>3, <3>4, <4>1
        <5>2. n[i] = k[i] /\ (i # 1 => n[i - 1] = k[i - 1])
          BY <3>2, <3>4, <4>1
        <5> QED  BY <5>1, <5>2 DEF A!Follows
      <4>2. CASE i = Len(k) + 1
        <5>1. CASE Len(k) = 0
          <6>1. i = 1 /\ n[i] = x  BY <3>4, <4>2, <5>1
          <6>2. e.cur[a] = d.cur[a]  BY <3>2, <3>3, <5>1 DEF A!Ending
          <6>3. e.cur[a] \in Int  BY <2>1, LogIsSeq
          <6> QED  BY <2>2, <2>4, <6>1, <6>2, <6>3 DEF A!Follows
        <5>2. CASE Len(k) # 0
          <6>1. n[i - 1] = k[Len(k)] /\ i # 1  BY <3>2, <3>4, <4>2, <5>2
          <6>2. e.cur[a] = k[Len(k)].after
            BY <3>2, <3>3, <5>2 DEF A!Ending
          <6>3. e.cur[a] \in Int  BY <2>1, LogIsSeq
          <6> QED  BY <2>2, <2>4, <3>4, <4>2, <6>1, <6>2, <6>3 DEF A!Follows
        <5> QED  BY <5>1, <5>2
      <4> QED  BY <3>2, <3>4, <4>1, <4>2
    <3>7. new = A!Ending(n, d.cur[a])  BY <2>4, <3>4 DEF A!Ending
    <3> QED  BY <3>1, <3>5, <3>6, <3>7 DEF Grows, l
  <2> QED  BY <2>6, <2>7 DEF Grown, f
<1> QED  BY <1>1, <1>2

LEMMA SameBooks ==
    ASSUME NEW d, NEW e, NEW f, Grown(d, e), f.cur = e.cur, f.log = e.log
    PROVE  Grown(d, f)
BY DEF Grown, Grows

LEMMA GrownIsChained ==
    ASSUME NEW d \in Tables, NEW e \in Tables, Chained(d), Grown(d, e)
    PROVE  Chained(e)
<1> SUFFICES ASSUME NEW a \in Own
             PROVE  /\ \A i \in 2..Len(e.log[a]) : A!Follows(e.log[a], i, 0)
                    /\ e.log[a] # <<>> =>
                        /\ e.cur[a] = e.log[a][Len(e.log[a])].after
                        /\ e.log[a][1].src = "init"
                             => e.log[a][1].after = e.log[a][1].delta
  BY DEF Chained
<1> DEFINE l == d.log[a]
           k == e.log[a]
<1>1. /\ Len(k) \in Nat /\ (k = <<>> <=> Len(k) = 0)
      /\ Len(l) \in Nat /\ (l = <<>> <=> Len(l) = 0)
  BY LogIsSeq
<1>2. /\ \A i \in 2..Len(l) : A!Follows(l, i, 0)
      /\ l # <<>> => (l[1].src = "init" => l[1].after = l[1].delta)
  BY DEF Chained
<1>3. /\ A!Extends(l, k)
      /\ \A i \in Len(l) + 1 .. Len(k) :
            A!Follows(k, i, d.cur[a]) /\ k[i].src = "posting"
      /\ e.cur[a] = A!Ending(k, d.cur[a])
  BY DEF Grown, Grows
<1> HIDE DEF l, k
<1>4. ASSUME NEW i \in 2..Len(k) PROVE A!Follows(k, i, 0)
  <2>1. CASE i <= Len(l)
    <3>1. A!Follows(l, i, 0)  BY <1>1, <1>2, <2>1
    <3>2. k[i] = l[i] /\ k[i - 1] = l[i - 1]
      BY <1>1, <1>3, <2>1 DEF A!Extends
    <3> QED  BY <3>1, <3>2 DEF A!Follows
  <2>2. CASE i > Len(l)
    <3>1. A!Follows(k, i, d.cur[a]) /\ i # 1  BY <1>1, <1>3, <2>2
    <3> QED  BY <3>1 DEF A!Follows
  <2> QED  BY <1>1, <2>1, <2>2
<1>5. ASSUME k # <<>>
      PROVE  /\ e.cur[a] = k[Len(k)].after
             /\ k[1].src = "init" => k[1].after = k[1].delta
  <2>1. e.cur[a] = k[Len(k)].after  BY <1>3, <1>5 DEF A!Ending
  <2>2. CASE Len(l) = 0
    <3>1. k[1].src = "posting"  BY <1>1, <1>3, <1>5, <2>2
    <3> QED  BY <2>1, <3>1
  <2>3. CASE Len(l) # 0
    <3>1. k[1] = l[1] /\ l # <<>>  BY <1>1, <1>3, <2>3 DEF A!Extends
    <3> QED  BY <1>2, <2>1, <3>1
  <2> QED  BY <2>2, <2>3
<1> QED  BY <1>4, <1>5 DEF k

LEMMA ChainedGrown ==
    ASSUME NEW d \in Tables, Chained(d)
    PROVE  Grown(d, d)
<1> SUFFICES ASSUME NEW a \in Own PROVE Grows(d, d, a)
  BY DEF Grown
<1>1. Len(d.log[a]) \in Nat  BY LogIsSeq
<1>2. A!Extends(d.log[a], d.log[a])  BY <1>1 DEF A!Extends
<1>3. d.cur[a] = A!Ending(d.log[a], d.cur[a])
  BY DEF Chained, A!Ending
<1> QED  BY <1>1, <1>2, <1>3 DEF Grows

-----------------------------------------------------------------------------
(* What each statement does to the books *)

LEMMA DeleteGrows ==
    ASSUME NEW d, NEW e \in Tables, NEW S, Grown(d, e)
    PROVE  Grown(d, DeleteRows(e, S))
BY DeleteRowsIsTables, SameBooks

LEMMA ReverseGrows ==
    ASSUME TypeInv, Grown(db, work),
           ReverseFee \/ ReverseTarget \/ ReverseLinked
    PROVE  Grown(db, work')
<1> USE DEF TypeInv, At
<1>0. /\ db \in Tables /\ work \in Tables /\ rate \in Rates
      /\ scope.id \in TxId /\ scope.old \in Row
  BY DEF BooksOK, ScopeOK, ReverseFee, ReverseTarget, ReverseLinked
<1> DEFINE r == scope.old
<1>00. /\ r.asset \in Account /\ r.linked \in Account \cup {None}
       /\ r.cur \in Currency
       /\ -Delta(r) \in Int /\ -LinkedDelta(r) \in Int
  BY <1>0, DeltasAreInts DEF Row, AnyAccount
<1>1. CASE ReverseFee
  <2>1. CASE work' = work  BY <2>1
  <2>2. ASSUME NEW j \in FeeChildren(work, scope.id),
               work' = DeleteRows(Post(work, Payer(work.rows[j]),
                                       scope.old.cur, work.rows[j].amount),
                                  {j})
        PROVE  Grown(db, work')
    <3> DEFINE e == Post(work, Payer(work.rows[j]), scope.old.cur,
                         work.rows[j].amount)
    <3>1. Payer(work.rows[j]) \in Account /\ work.rows[j].amount \in Int
      BY <1>0, ChildIsRow DEF Row
    <3>2. e \in Tables /\ Grown(db, e)
      BY <3>1, <1>0, <1>00, PostIsTables, PostGrows
    <3>3. work' = DeleteRows(e, {j})  BY <2>2
    <3> HIDE DEF e
    <3> QED  BY <3>2, <3>3, DeleteGrows
  <2> QED  BY <1>1, <2>1, <2>2 DEF ReverseFee, Step
<1>2. CASE ReverseTarget
  BY <1>2, <1>0, <1>00, PostGrows DEF ReverseTarget, Step
<1>3. CASE ReverseLinked
  BY <1>3, <1>0, <1>00, PostGrows DEF ReverseLinked, Step
<1> QED  BY <1>1, <1>2, <1>3

LEMMA ApplyGrows ==
    ASSUME TypeInv, Grown(db, work),
           WriteRow \/ ApplyFee \/ ApplyTarget \/ ApplyLinked \/ StampRate
    PROVE  Grown(db, work')
<1> USE DEF TypeInv, At
<1>0. /\ db \in Tables /\ work \in Tables /\ rate \in Rates
      /\ scope.form \in Form
  BY DEF BooksOK, ScopeOK, WriteRow, ApplyFee, ApplyTarget, ApplyLinked,
         StampRate
<1> DEFINE f == scope.form
<1>00. /\ f.asset \in Account /\ f.linked \in Account \cup {None}
       /\ f.cur \in Currency /\ -f.fee \in Int
       /\ Delta(f) \in Int /\ LinkedDelta(f) \in Int
       /\ Payer(f) \in Account
  BY <1>0, DeltasAreInts DEF Form, AnyAccount, Payer
<1>1. CASE WriteRow
  <2>1. work'.cur = work.cur /\ work'.log = work.log
    BY <1>1, <1>0 DEF WriteRow, InsertRow, Tables
  <2> QED  BY <2>1, SameBooks
<1>2. CASE ApplyFee
  <2> DEFINE child == [type |-> "fee", asset |-> f.asset,
                       linked |-> Payer(f), amount |-> f.fee, fee |-> 0,
                       cur |-> f.cur, parent |-> scope.id, fx |-> 0]
             d == InsertRow(work, child)
  <2>1. CASE work' = work  BY <2>1
  <2>2. CASE work' = Post(work, Payer(f), f.cur, -f.fee)
    BY <2>2, <1>0, <1>00, PostGrows
  <2>3. CASE work' = Post(d, Payer(f), f.cur, -f.fee) /\ work.next \in TxId
    <3>1. child \in Row
      <4>1. scope.id \in TxId  BY <1>2 DEF ApplyFee, ScopeOK
      <4> QED  BY <1>0, <1>00, <4>1 DEF Row, TxType, AnyAccount, Form
    <3> HIDE DEF child
    <3>2. d \in Tables /\ d.cur = work.cur /\ d.log = work.log
      BY <1>0, <2>3, <3>1, InsertRowIsTables
    <3> HIDE DEF d
    <3>3. Grown(db, d)  BY <3>2, SameBooks
    <3> QED  BY <2>3, <3>2, <3>3, <1>0, <1>00, PostGrows
  <2> QED  BY <1>2, <2>1, <2>2, <2>3 DEF ApplyFee, Step
<1>3. CASE ApplyTarget
  BY <1>3, <1>0, <1>00, PostGrows DEF ApplyTarget, Step
<1>4. CASE ApplyLinked
  BY <1>4, <1>0, <1>00, PostGrows DEF ApplyLinked, Step
<1>5. CASE StampRate
  <2>1. work'.cur = work.cur /\ work'.log = work.log
    BY <1>5, <1>0 DEF StampRate, Step, Tables
  <2> QED  BY <2>1, SameBooks
<1> QED  BY <1>1, <1>2, <1>3, <1>4, <1>5

LEMMA OthersGrow ==
    ASSUME TypeInv, Grown(db, work),
           EraseRows \/ WritePair \/ Send \/ Receive
             \/ Unpay \/ WriteBill \/ Pay
    PROVE  Grown(db, work')
<1> USE DEF TypeInv, At
<1>0. db \in Tables /\ work \in Tables /\ rate \in Rates
  BY DEF BooksOK
<1>1. CASE EraseRows
  <2>1. PICK drop, dead :
            work' = DeleteRows([work EXCEPT !.xfers = work.xfers \ drop], dead)
    BY <1>1 DEF EraseRows, Step
  <2> DEFINE e == [work EXCEPT !.xfers = work.xfers \ drop]
  <2>2. e \in Tables /\ e.cur = work.cur /\ e.log = work.log
    BY <1>0 DEF Tables
  <2>3. work' = DeleteRows(e, dead)  BY <2>1
  <2> HIDE DEF e
  <2> QED  BY <2>2, <2>3, SameBooks, DeleteGrows
<1>2. CASE WritePair
  <2>1. work'.cur = work.cur /\ work'.log = work.log
    BY <1>2, <1>0 DEF WritePair, Step, InsertRow, Tables
  <2> QED  BY <2>1, SameBooks
<1>3. CASE Send \/ Receive
  <2> DEFINE f == scope.form
  <2>0. f \in Form /\ f.linked \in Account
    BY <1>3 DEF Send, Receive, ScopeOK
  <2>1. /\ f.asset \in Account /\ f.cur \in Currency /\ f.amount \in Int
        /\ -f.amount \in Int
    BY <2>0 DEF Form
  <2> QED  BY <1>3, <2>0, <2>1, <1>0, PostGrows DEF Send, Receive, Step
<1>4. CASE Unpay
  <2> DEFINE b == scope.was
  <2>0. b \in Bill  BY <1>4 DEF Unpay, ScopeOK
  <2>1. b.asset \in Account /\ b.cur \in Currency /\ -Credit(b) \in Int
    BY <2>0 DEF Bill, Credit
  <2> QED  BY <1>4, <2>1, <1>0, PostGrows DEF Unpay, Step
<1>5. CASE Pay
  <2> DEFINE b == scope.bill
  <2>0. b \in Bill  BY <1>5 DEF Pay, ScopeOK
  <2>1. b.asset \in Account /\ b.cur \in Currency /\ Credit(b) \in Int
    BY <2>0 DEF Bill, Credit
  <2> QED  BY <1>5, <2>1, <1>0, PostGrows DEF Pay, Step
<1>6. CASE WriteBill
  <2>1. work'.cur = work.cur /\ work'.log = work.log
    BY <1>6, <1>0 DEF WriteBill, Step, Tables
  <2> QED  BY <2>1, SameBooks
<1> QED  BY <1>1, <1>2, <1>3, <1>4, <1>5, <1>6

-----------------------------------------------------------------------------
(* Rebuilding adds a log up to the balance it already has *)

LEMMA ReplayKeepsBooks ==
    ASSUME TypeInv, AuditInv, ReplayStart \/ ReplayEntry \/ ReplayStore
    PROVE  work' = work /\ ReplayOK'
<1> USE DEF TypeInv, AuditInv, At
<1>0. /\ db \in Tables /\ work \in Tables /\ scope \in ScopeType
      /\ scope.op = "rebuild" /\ work = db /\ Chained(work)
  BY DEF BooksOK, ScopeOK, RebuildIdle,
         ReplayStart, ReplayEntry, ReplayStore
<1>1. CASE ReplayStart
  <2>1. PICK a \in scope.todo :
          /\ scope' = [scope EXCEPT !.pc = "replay", !.at = a, !.i = 0,
                                    !.cum = Baseline(work, a)]
          /\ work' = work
    BY <1>1 DEF ReplayStart
  <2>2. /\ scope'.at = a /\ scope'.i = 0 /\ scope'.cum = Baseline(work, a)
        /\ a \in Own
    BY <2>1, <1>0 DEF ScopeType
  <2>3. Len(work.log[a]) \in Nat  BY <2>2, <1>0, LogIsSeq
  <2>4. Baseline(work', a) = Baseline(work, a) /\ work'.log = work.log
    BY <2>1
  <2> QED  BY <2>1, <2>2, <2>3, <2>4 DEF ReplayOK
<1>2. CASE ReplayEntry
  <2> DEFINE a == scope.at
             l == work.log[a]
             n == scope.i + 1
             m == scope.cum + l[n].delta
  <2>1. /\ a \in Own /\ scope.pc = "replay" /\ scope.i < Len(l)
        /\ scope' = [scope EXCEPT !.i = n, !.cum = m]
        /\ work' = work
    BY <1>2 DEF ReplayEntry, ScopeOK
  <2>2. /\ l \in Seq(Entry) /\ Len(l) \in Nat
        /\ scope.i \in Nat /\ scope.cum \in Int
    BY <2>1, <1>0, LogIsSeq DEF ScopeType
  <2>3. scope.cum = IF scope.i = 0 THEN Baseline(work, a)
                    ELSE l[scope.i].after
    BY <2>1 DEF ReplayOK
  <2>4. l[n] \in Entry /\ (scope.i # 0 => l[scope.i] \in Entry)
    BY <2>1, <2>2
  <2>5. l[n].delta \in Int /\ l[n].after \in Int  BY <2>4 DEF Entry
  <2>6. m = l[n].after
    <3>1. CASE scope.i = 0
      <4>1. l # <<>>  BY <2>1, <2>2, <3>1
      <4>2. l[1].src = "init" => l[1].after = l[1].delta
        BY <1>0, <2>1, <4>1 DEF Chained
      <4>3. Baseline(work, a) = l[1].after - l[1].delta
        BY <2>5, <3>1, <4>1, <4>2 DEF Baseline
      <4> QED  BY <2>3, <2>5, <3>1, <4>3
    <3>2. CASE scope.i # 0
      <4>1. n \in 2..Len(l)  BY <2>1, <2>2, <3>2
      <4>2. A!Follows(l, n, 0)  BY <1>0, <2>1, <4>1 DEF Chained
      <4>3. n # 1 /\ n - 1 = scope.i  BY <2>2, <3>2
      <4>4. l[n].after = l[n].delta + l[scope.i].after
        <5> HIDE DEF n, l
        <5> QED  BY <4>2, <4>3 DEF A!Follows
      <4>5. l[scope.i].after \in Int  BY <2>4, <3>2 DEF Entry
      <4> QED  BY <2>3, <2>5, <3>2, <4>4, <4>5
    <3> QED  BY <3>1, <3>2
  <2> HIDE DEF m
  <2>7. scope'.i = n /\ scope'.cum = m /\ scope'.at = a
    BY <2>1, <1>0 DEF ScopeType
  <2>8. n <= Len(l) /\ n # 0  BY <2>1, <2>2
  <2>9. work'.log[scope'.at] = l  BY <2>1, <2>7
  <2> HIDE DEF l, n, a
  <2> QED  BY <2>1, <2>6, <2>7, <2>8, <2>9 DEF ReplayOK
<1>3. CASE ReplayStore
  <2> DEFINE a == scope.at
             l == work.log[a]
  <2>1. /\ a \in Own /\ scope.pc = "replay" /\ scope.i = Len(l)
        /\ work' = [work EXCEPT !.cur[a] = scope.cum]
        /\ scope' = [scope EXCEPT !.todo = scope.todo \ {a}, !.at = None,
                       !.pc = IF scope.todo = {a} THEN "commit"
                              ELSE "rebuild"]
    BY <1>3 DEF ReplayStore, ScopeOK
  <2>2. l = <<>> <=> Len(l) = 0  BY <2>1, <1>0, LogIsSeq
  <2>3. scope.cum = work.cur[a]
    <3>1. scope.cum = IF scope.i = 0 THEN Baseline(work, a)
                      ELSE l[scope.i].after
      BY <2>1 DEF ReplayOK
    <3>2. l # <<>> => work.cur[a] = l[Len(l)].after
      BY <1>0, <2>1 DEF Chained
    <3> QED  BY <2>1, <2>2, <3>1, <3>2 DEF Baseline
  <2>4. work' = work  BY <2>1, <2>3, <1>0 DEF Tables
  <2>5. scope'.pc # "replay"  BY <2>1, <1>0 DEF ScopeType
  <2> QED  BY <2>4, <2>5 DEF ReplayOK
<1> QED  BY <1>1, <1>2, <1>3

-----------------------------------------------------------------------------
(* The invariant *)

LEMMA InitAudit == Init => AuditInv
<1> SUFFICES ASSUME Init PROVE AuditInv
  OBVIOUS
<1>1. TypeInv  BY InitTypes
<1>2. db \in Tables /\ work = db /\ scope = Idle
  BY <1>1 DEF Init, TypeInv, BooksOK
<1>3. Chained(db)
  <2> SUFFICES ASSUME NEW a \in Own
               PROVE  /\ \A i \in 2..Len(db.log[a]) :
                            A!Follows(db.log[a], i, 0)
                      /\ db.log[a] # <<>> =>
                          /\ db.cur[a] = db.log[a][Len(db.log[a])].after
                          /\ db.log[a][1].src = "init" =>
                              db.log[a][1].after = db.log[a][1].delta
    BY DEF Chained
  <2>1. db.cur[a] = Opening[a]  BY DEF Init
  <2>2. CASE a \in Logged
    <3>1. db.log[a] = <<[delta |-> Opening[a], after |-> Opening[a],
                         src |-> "init"]>>
      BY <2>2 DEF Init
    <3>2. Len(db.log[a]) = 1 /\ db.log[a][1].after = Opening[a]
          /\ db.log[a][1].delta = Opening[a]
      BY <3>1
    <3> QED  BY <2>1, <3>2
  <2>3. CASE a \notin Logged
    <3>1. db.log[a] = <<>> /\ Len(db.log[a]) = 0  BY <2>3 DEF Init
    <3> QED  BY <3>1
  <2> QED  BY <2>2, <2>3
<1>4. Grown(db, work)  BY <1>2, <1>3, ChainedGrown
<1>5. ReplayOK /\ RebuildIdle
  BY <1>2 DEF ReplayOK, RebuildIdle, At, Idle
<1> QED  BY <1>3, <1>4, <1>5 DEF AuditInv

\* What a step keeps while db stays as it is and the scope is no rebuild.
LEMMA StatementsKeepAudit ==
    ASSUME TypeInv, AuditInv, Statements
    PROVE  AuditInv' /\ db' = db
<1> USE DEF TypeInv, AuditInv, At, NoScope
<1>0. scope \in ScopeType  BY DEF BooksOK
<1>1. CASE ReplayStart \/ ReplayEntry \/ ReplayStore
  <2>1. work' = work /\ ReplayOK'  BY <1>1, ReplayKeepsBooks
  <2>2. db' = db /\ work = db
    BY <1>1 DEF ReplayStart, ReplayEntry, ReplayStore, ScopeOK,
                RebuildIdle
  <2>3. Chained(db)' /\ Grown(db, work)'
    BY <2>1, <2>2 DEF Chained, Grown, Grows
  <2> QED  BY <2>1, <2>2, <2>3 DEF RebuildIdle
<1>2. CASE ~(ReplayStart \/ ReplayEntry \/ ReplayStore)
  <2>1. Grown(db, work')
    BY <1>2, ReverseGrows, ApplyGrows, OthersGrow DEF Statements
  <2>2. db' = db /\ scope.op # "rebuild" /\ scope'.op = scope.op
        /\ scope'.pc # "replay"
    <3>2. scope.op # "rebuild"
      BY <1>2 DEF ScopeOK, Statements, ReverseFee, ReverseTarget,
                  ReverseLinked, WriteRow, ApplyFee, ApplyTarget,
                  ApplyLinked, StampRate, EraseRows, WritePair, Send,
                  Receive, Unpay, WriteBill, Pay
    <3> DEFINE Goes(p) == /\ db' = db /\ scope' = [scope EXCEPT !.pc = p]
                          /\ p # "replay"
    <3>3. ASSUME NEW p, Goes(p)
          PROVE  db' = db /\ scope'.op = scope.op /\ scope'.pc # "replay"
      BY <3>3, <1>0 DEF ScopeType
    <3>4. CASE ReverseFee
      <4>1. Goes("revtarget") \/ Goes("revfee")
        BY <3>4 DEF ReverseFee, Step
      <4> HIDE DEF Goes
      <4> QED  BY <3>2, <3>3, <4>1
    <3>5. CASE ReverseTarget \/ ReverseLinked
      <4>1. Goes("revlinked") \/ Goes("row") \/ Goes("erase")
        BY <3>5 DEF ReverseTarget, ReverseLinked, Step
      <4> HIDE DEF Goes
      <4> QED  BY <3>2, <3>3, <4>1
    <3>6. CASE WriteRow
      <4>1. /\ db' = db
            /\ \/ scope'.pc = "target"
               \/ scope'.pc = "fee"
            /\ scope'.op = scope.op
        BY <3>6, <1>0 DEF WriteRow, ScopeType
      <4> QED  BY <3>2, <4>1
    <3>7. CASE ApplyFee
      <4>1. Goes("target")  BY <3>7 DEF ApplyFee, Step
      <4> HIDE DEF Goes
      <4> QED  BY <3>2, <3>3, <4>1
    <3>8. CASE ApplyTarget \/ ApplyLinked \/ StampRate
      <4>1. Goes("commit") \/ Goes("linked") \/ Goes("stamp")
        BY <3>8 DEF ApplyTarget, ApplyLinked, StampRate, Step
      <4> HIDE DEF Goes
      <4> QED  BY <3>2, <3>3, <4>1
    <3>9. CASE EraseRows \/ WritePair \/ Send \/ Receive
      <4>1. Goes("commit") \/ Goes("send") \/ Goes("receive")
        BY <3>9 DEF EraseRows, WritePair, Send, Receive, Step
      <4> HIDE DEF Goes
      <4> QED  BY <3>2, <3>3, <4>1
    <3>10. CASE Unpay \/ WriteBill \/ Pay
      <4>1. Goes("bill") \/ Goes("commit") \/ Goes("pay")
        BY <3>10 DEF Unpay, WriteBill, Pay, Step
      <4> HIDE DEF Goes
      <4> QED  BY <3>2, <3>3, <4>1
    <3> QED
      BY <1>2, <3>4, <3>5, <3>6, <3>7, <3>8, <3>9, <3>10 DEF Statements
  <2>3. Chained(db)' /\ Grown(db, work)'
    BY <2>1, <2>2 DEF Chained, Grown, Grows
  <2> QED  BY <2>2, <2>3 DEF RebuildIdle, ReplayOK
<1> QED  BY <1>1, <1>2

LEMMA SerialAudit == TypeInv /\ AuditInv /\ [Serial]_books => AuditInv'
<1> SUFFICES ASSUME TypeInv, AuditInv, [Serial]_books PROVE AuditInv'
  OBVIOUS
<1> USE DEF TypeInv, AuditInv, At, NoScope
<1>0. db \in Tables /\ work \in Tables /\ scope \in ScopeType
  BY DEF BooksOK
<1>1. CASE Statements  BY <1>1, StatementsKeepAudit
<1>2. ASSUME NEW w \in Workers, Request(w) PROVE AuditInv'
  <2>1. db' = db /\ work' = work
    BY <1>2 DEF Request, Open, CreateTx, ReadTx, UpdateTx, Refuse, DeleteTx,
                CreateTransfer, ConfirmIncome, CreateBill, ReadBill,
                ChangeBill, Rebuild
  <2>2. Chained(db)' /\ Grown(db, work)'
    BY <2>1 DEF Chained, Grown, Grows
  <2>3. \/ scope' = scope
        \/ work = db /\ scope'.pc # "replay"
    <3>1. CASE ReadTx(w) \/ ReadBill(w) \/ Refuse(w)
      BY <3>1 DEF ReadTx, ReadBill, Refuse
    <3>2. CASE CreateTx(w) \/ UpdateTx(w) \/ DeleteTx(w)
      <4>1. scope'.pc = "row" \/ scope'.pc = "revfee"
        <5>1. CreateTx(w) => scope'.pc = "row"
          BY DEF CreateTx, Open, Idle
        <5>2. UpdateTx(w) => scope'.pc = "revfee"
          BY DEF UpdateTx, Open, Idle
        <5>3. DeleteTx(w) => scope'.pc = "revfee"
          BY DEF DeleteTx, Open, Idle
        <5> QED  BY <3>2, <5>1, <5>2, <5>3
      <4>2. NoScope  BY <3>2 DEF CreateTx, UpdateTx, DeleteTx, Open
      <4> QED  BY <4>1, <4>2 DEF ScopeOK
    <3>3. CASE CreateTransfer(w) \/ ConfirmIncome(w) \/ CreateBill(w)
      <4>1. scope'.pc = "pair" \/ scope'.pc = "row" \/ scope'.pc = "bill"
        <5>1. CreateTransfer(w) => scope'.pc = "pair"
          BY DEF CreateTransfer, Open, Idle
        <5>2. ConfirmIncome(w) => scope'.pc = "row"
          BY DEF ConfirmIncome, Open, Idle
        <5>3. CreateBill(w) => scope'.pc = "bill"
          BY DEF CreateBill, Open, Idle
        <5> QED  BY <3>3, <5>1, <5>2, <5>3
      <4>2. NoScope
        BY <3>3 DEF CreateTransfer, ConfirmIncome, CreateBill, Open
      <4> QED  BY <4>1, <4>2 DEF ScopeOK
    <3>4. CASE ChangeBill(w) \/ Rebuild(w)
      <4>1. scope'.pc = "unpay" \/ scope'.pc = "rebuild"
        BY <3>4 DEF ChangeBill, Rebuild, Open, Idle
      <4>2. NoScope  BY <3>4 DEF ChangeBill, Rebuild, Open
      <4> QED  BY <4>1, <4>2 DEF ScopeOK
    <3> QED  BY <1>2, <3>1, <3>2, <3>3, <3>4 DEF Request
  <2> QED  BY <2>1, <2>2, <2>3 DEF RebuildIdle, ReplayOK, Baseline
<1>3. CASE Commit
  <2>1. db' = work /\ work' = work /\ scope' = Idle  BY <1>3 DEF Commit
  <2>2. Chained(work)  BY <1>0, GrownIsChained
  <2>3. Grown(work, work)  BY <2>2, <1>0, ChainedGrown
  <2>4. Chained(db)' /\ Grown(db, work)'
    BY <2>1, <2>2, <2>3 DEF Chained, Grown, Grows
  <2> QED  BY <2>1, <2>4 DEF RebuildIdle, ReplayOK, Idle
<1>4. CASE Rollback
  <2>1. db' = db /\ work' = db /\ scope' = Idle  BY <1>4 DEF Rollback
  <2>2. Grown(db, db)  BY <1>0, ChainedGrown
  <2>3. Chained(db)' /\ Grown(db, work)'
    BY <2>1, <2>2 DEF Chained, Grown, Grows
  <2> QED  BY <2>1, <2>3 DEF RebuildIdle, ReplayOK, Idle
<1>5. CASE SetRate \/ UNCHANGED books
  <2>1. db' = db /\ work' = work /\ scope' = scope
    BY <1>5 DEF SetRate, books
  <2> QED
    BY <2>1 DEF Chained, Grown, Grows, RebuildIdle, ReplayOK,
                Baseline
<1> QED  BY <1>1, <1>2, <1>3, <1>4, <1>5 DEF Serial

\* A statement that fails unseen moves no balance without its log row either.
LEMMA LapseKeepsAudit ==
    ASSUME TypeInv, AuditInv, Lapse
    PROVE  AuditInv' /\ db' = db
<1> USE DEF TypeInv, AuditInv, At, NoScope
<1>0. /\ db \in Tables /\ work \in Tables /\ scope \in ScopeType /\ rate \in Rates
  BY DEF BooksOK
<1>1. ASSUME db' = db, Grown(db, work'), scope'.pc # "replay",
             scope'.op # "rebuild"
      PROVE  AuditInv' /\ db' = db
  BY <1>1 DEF Chained, Grown, Grows, RebuildIdle, ReplayOK
<1>2. ASSUME NEW w \in Workers, TwinUnread(w)
      PROVE  AuditInv' /\ db' = db
  <2>1. /\ db' = db /\ work' = work /\ scope'.pc = "revfee"
        /\ scope'.op = "delete"
    BY <1>2 DEF TwinUnread, Open, Idle
  <2> QED  BY <1>1, <2>1
<1>3. CASE FeesUnread
  <2>1. scope.pc = "revfee" /\ scope.op # "rebuild"
    BY <1>3 DEF FeesUnread, ScopeOK
  <2>2. /\ db' = db /\ work' = work /\ scope'.pc = "revtarget"
        /\ scope'.op = scope.op
    BY <1>0, <1>3 DEF FeesUnread, Step, ScopeType
  <2> QED  BY <1>1, <2>1, <2>2
<1>4. CASE FeesKept
  <2>1. scope.pc = "revfee" /\ scope.op # "rebuild" /\ scope.old \in Row
        /\ db' = db
    BY <1>4 DEF FeesKept, ScopeOK
  <2>2. CASE work' = work /\ scope' = [scope EXCEPT !.pc = "revtarget", !.i = 0]
    BY <1>0, <1>1, <2>1, <2>2 DEF ScopeType
  <2>3. ASSUME NEW j \in FeeChildren(work, scope.id),
               work' = Post(work, Payer(work.rows[j]), scope.old.cur,
                            work.rows[j].amount),
               scope' = [scope EXCEPT !.i = j]
        PROVE  AuditInv' /\ db' = db
    <3>1. Payer(work.rows[j]) \in Account /\ work.rows[j].amount \in Int
      BY <1>0, ChildIsRow DEF Row
    <3>2. Grown(db, work')
      BY <3>1, <1>0, <2>1, <2>3, PostGrows DEF Row
    <3>3. scope'.pc = "revfee" /\ scope'.op = scope.op
      BY <1>0, <2>1, <2>3 DEF ScopeType
    <3> QED  BY <1>1, <2>1, <3>2, <3>3
  <2> QED  BY <1>4, <2>2, <2>3 DEF FeesKept
<1>5. CASE FeeRowLost
  <2> DEFINE f == scope.form
  <2>1. /\ scope.pc = "fee" /\ scope.form \in Form /\ scope.op # "rebuild"
        /\ db' = db /\ scope'.pc = "target" /\ scope'.op = scope.op
        /\ work' = Post(work, Payer(f), f.cur, -f.fee)
    BY <1>0, <1>5 DEF FeeRowLost, ScopeOK, Step, ScopeType
  <2>2. Payer(f) \in Account /\ f.cur \in Currency /\ -f.fee \in Int
    BY <2>1 DEF Form, AnyAccount, Payer
  <2>3. Grown(db, work')  BY <1>0, <2>1, <2>2, PostGrows
  <2> QED  BY <1>1, <2>1, <2>3
<1>6. CASE ErasedInPart
  <2>1. PICK drop, dead :
            Step(DeleteRows([work EXCEPT !.xfers = @ \ drop], dead), "commit")
    BY <1>6 DEF ErasedInPart
  <2> DEFINE e == [work EXCEPT !.xfers = @ \ drop]
  <2>2. e \in Tables /\ e.cur = work.cur /\ e.log = work.log
    BY <1>0 DEF Tables
  <2>3. Grown(db, e)
    <3> HIDE DEF e
    <3> QED  BY <1>0, <2>2 DEF Grown, Grows
  <2>4. work' = DeleteRows(e, dead) /\ db' = db /\ scope'.pc = "commit"
        /\ scope'.op = scope.op
    BY <1>0, <2>1 DEF Step, ScopeType
  <2>5. Grown(db, work')
    <3> HIDE DEF e
    <3> QED  BY <2>2, <2>3, <2>4, DeleteGrows
  <2>6. scope.op # "rebuild"  BY <1>6 DEF ErasedInPart, ScopeOK
  <2> QED  BY <1>1, <2>4, <2>5, <2>6
<1>7. CASE StoreLost
  <2>1. /\ scope.op = "rebuild" /\ db' = db /\ work' = work
        /\ scope'.pc \in {"commit", "rebuild"}
    BY <1>0, <1>7 DEF StoreLost, ScopeOK, ScopeType
  <2>2. work' = db'  BY <2>1 DEF RebuildIdle
  <2> QED  BY <2>1, <2>2 DEF Chained, Grown, Grows, RebuildIdle, ReplayOK
<1> QED  BY <1>2, <1>3, <1>4, <1>5, <1>6, <1>7 DEF Lapse

LEMMA NextAudit == TypeInv /\ AuditInv /\ [Next]_vars => AuditInv'
BY StepKinds, SerialAudit, LapseKeepsAudit

LEMMA AuditHolds == Spec => [](TypeInv /\ AuditInv)
<1>1. Init => TypeInv /\ AuditInv  BY InitTypes, InitAudit
<1>2. (TypeInv /\ AuditInv) /\ [Next]_vars => (TypeInv /\ AuditInv)'
  BY NextTypes, NextAudit
<1> QED  BY <1>1, <1>2, PTL DEF Spec

(* The persisted balance of every account is the one its audit log leads   *)
(* to, in every reachable state in which no two requests have met on the   *)
(* connection: whichever statement fails, seen or unseen.                  *)
THEOREM AuditChainHolds == Spec => []AuditChain
<1>1. AuditInv => AuditChain  BY DEF AuditInv, AuditChain
<1> QED  BY AuditHolds, <1>1, PTL

(* Rebuilding one account or the portfolio from the audit log writes back  *)
(* the balance it found, at every step of the rebuild, as long as no other *)
(* request has met it on the connection.                                   *)
THEOREM RebuildIsExact == Spec => []RebuildKeepsBalances
<1>1. AuditInv => RebuildKeepsBalances
  BY DEF AuditInv, RebuildIdle, RebuildKeepsBalances
<1> QED  BY AuditHolds, <1>1, PTL

-----------------------------------------------------------------------------
(* The refinement *)

LEMMA InitRefines == Init => A!Init
BY DEF Init, A!Init

LEMMA SerialRefines ==
    TypeInv /\ AuditInv /\ [Serial]_books
        => A!Settle \/ UNCHANGED <<db.cur, db.log>>
<1> SUFFICES ASSUME TypeInv, AuditInv, [Serial]_books
             PROVE  A!Settle \/ UNCHANGED <<db.cur, db.log>>
  OBVIOUS
<1>1. CASE Commit
  <2>1. db' = work /\ work \in Tables  BY <1>1 DEF Commit, TypeInv, BooksOK
  <2>2. DOMAIN work.cur = Own /\ DOMAIN work.log = Own
    BY <2>1 DEF Tables
  <2>3. \A a \in Own : Grows(db, work, a)  BY DEF AuditInv, Grown
  <2> QED  BY <2>1, <2>2, <2>3 DEF A!Settle, Grows
<1>2. CASE ~Commit
  <2>1. db' = db
    <3>1. CASE Statements  BY <3>1, StatementsKeepAudit
    <3>2. ASSUME NEW w \in Workers, Request(w) PROVE db' = db
      BY <3>2 DEF Request, Open, CreateTx, ReadTx, UpdateTx, Refuse,
                  DeleteTx, CreateTransfer, ConfirmIncome, CreateBill,
                  ReadBill, ChangeBill, Rebuild
    <3>3. CASE Rollback \/ SetRate \/ UNCHANGED books
      BY <3>3 DEF Rollback, SetRate, books
    <3> QED  BY <1>2, <3>1, <3>2, <3>3 DEF Serial
  <2> QED  BY <2>1
<1> QED  BY <1>1, <1>2

LEMMA StepRefines ==
    TypeInv /\ AuditInv /\ [Next]_vars => [A!Next]_<<db.cur, db.log, mixed>>
<1> SUFFICES ASSUME TypeInv, AuditInv, [Next]_vars
             PROVE  A!Next \/ UNCHANGED <<db.cur, db.log, mixed>>
  OBVIOUS
<1>1. CASE Next /\ mixed' = mixed
  <2>1. ~mixed  BY <1>1 DEF Next
  <2>2. CASE Serial
    BY <1>1, <2>1, <2>2, SerialRefines DEF A!Next
  <2>3. CASE Lapse
    BY <1>1, <2>3, LapseKeepsAudit
  <2>4. CASE Meet
    BY <1>1, <2>4 DEF Meet, books
  <2> QED  BY <1>1, <2>2, <2>3, <2>4 DEF Next
<1>2. CASE Next /\ mixed' # mixed
  <2>1. mixed' = TRUE  BY <1>2 DEF Next
  <2> QED  BY <2>1 DEF A!Next
<1>3. CASE UNCHANGED vars  BY <1>3 DEF vars, books
<1> QED  BY <1>1, <1>2, <1>3

(* The ledger implements the audited accounts: until two requests meet, a  *)
(* committed use case only appends audit rows, each following from the one *)
(* before, and moves every balance to where its rows lead; nothing else    *)
(* moves a balance.                                                        *)
THEOREM LedgerImplementsAudit == Spec => ImplementsAudit
<1>1. Init => A!Init  BY InitRefines
<1>2. TypeInv /\ AuditInv /\ [Next]_vars => [A!Next]_<<db.cur, db.log, mixed>>
  BY StepRefines
<1> QED  BY AuditHolds, <1>1, <1>2, PTL DEF Spec, ImplementsAudit, A!Spec

-----------------------------------------------------------------------------
(* The properties of LedgerFacts.  ShapeInv says how the rows depend on each *)
(* other in the committed tables and in those of the open scope, and which   *)
(* row the scope is working on.  MoneyInv says that the open scope's         *)
(* balances are what its rows explain except for one amount, Short, which    *)
(* the next step of the request pays: after reversing a fee the row still    *)
(* counts, after inserting a row its legs are still to be posted.            *)

(* How rows depend on each other: only rows without a parent have children,  *)
(* fee rows and the in half of a transfer.                                   *)
IsHalf(r) == r.type \in Halves
Families(d) == \A i \in TxId : Live(d, i) =>
    LET r == d.rows[i]
    IN  /\ i < d.next
        /\ r.parent # None =>
             /\ Live(d, r.parent) /\ d.rows[r.parent].parent = None
             /\ \/ r.type = "fee"
                \/ r.type = "transfer_in" /\ d.rows[r.parent].type = "transfer_out"
        /\ r.type = "transfer_in" => r.parent # None
        /\ r.type = "transfer_out" => r.parent = None
Shape(d) == Families(d) /\ FeesMatch(d) /\ PairsWhole(d)

(* What a scope leaves of an older row: it is no new row and stays a half or *)
(* no half, with its parent.                                                 *)
Succeeds(d, e) ==
    /\ d.next <= e.next
    /\ \A i \in TxId : Live(e, i) /\ i < d.next =>
          /\ Live(d, i) /\ e.rows[i].parent = d.rows[i].parent
          /\ IsHalf(e.rows[i]) <=> IsHalf(d.rows[i])

Undoing == scope.pc \in {"revfee", "revtarget", "revlinked", "erase"}
           \/ (At("row") /\ scope.op = "update")
Applying == scope.pc \in {"fee", "target", "linked", "stamp"}

\* The row that the open scope reverses, and the one it applies.
OldKnown == Undoing =>
    /\ scope.id \in TxId /\ Live(work, scope.id) /\ work.rows[scope.id] = scope.old
    /\ scope.op \in {"update", "delete"}
    /\ scope.pc # "revfee" => FeeChildren(work, scope.id) = {}
    /\ scope.pc = "erase" => scope.op = "delete"
    /\ scope.op = "update" => /\ scope.old.parent = None /\ ~ IsHalf(scope.old)
                              /\ ~ IsHalf(scope.form)
    /\ scope.op = "delete" =>
         /\ scope.self \in TxId /\ Live(work, scope.self)
         /\ IF scope.self = scope.id THEN scope.old.type # "transfer_in"
            ELSE /\ work.rows[scope.self].type = "transfer_in"
                 /\ work.rows[scope.self].parent = scope.id
NewKnown == Applying =>
    /\ scope.id \in TxId /\ Live(work, scope.id)
    /\ LET r == work.rows[scope.id]
       IN  /\ r.type = scope.form.type /\ r.asset = scope.form.asset
           /\ r.linked = scope.form.linked /\ r.amount = scope.form.amount
           /\ r.fee = scope.form.fee /\ r.cur = scope.form.cur
           /\ r.parent = None /\ ~ IsHalf(r)
    /\ At("fee") => FeeChildren(work, scope.id) = {}
FormKnown == /\ At("row") => ~ IsHalf(scope.form)
             /\ scope.pc \in {"pair", "send", "receive"} => scope.form.type = "transfer_out"
\* A request that has read a row: the row, if it is still there, is no half.
SeenKnown == \A w \in Workers : seen[w] # None /\ seen[w].kind = "tx" =>
    LET i == seen[w].id
    IN  /\ i < db.next /\ ~ IsHalf(seen[w].form)
        /\ Live(db, i) => db.rows[i].parent = None /\ ~ IsHalf(db.rows[i])

ShapeInv == /\ Shape(db) /\ Shape(work) /\ Succeeds(db, work)
            /\ OldKnown /\ NewKnown /\ FormKnown /\ SeenKnown

-----------------------------------------------------------------------------
(* What the helpers do to the shape *)

SameRows(d, e) == e.rows = d.rows /\ e.xfers = d.xfers /\ e.next = d.next

LEMMA NoneIsNothing ==
    /\ None \notin Account /\ None \notin Nat /\ None \notin Row /\ None \notin Bill
    /\ TxId \subseteq Nat /\ None \notin TxId
BY AccountsAssumption, BoundsAssumption DEF TxId

LEMMA SameShape ==
    ASSUME NEW d, NEW e, SameRows(d, e)
    PROVE  /\ Shape(d) => Shape(e)
           /\ \A b : Succeeds(b, d) => Succeeds(b, e)
           /\ \A i : FeeChildren(e, i) = FeeChildren(d, i) /\ (Live(e, i) <=> Live(d, i))
<1>1. \A i : (Live(e, i) <=> Live(d, i)) /\ Children(e, i) = Children(d, i)
  BY DEF SameRows, Live, Children
<1>2. \A i : FeeChildren(e, i) = FeeChildren(d, i)
  BY <1>1 DEF SameRows, FeeChildren
<1>3. Shape(d) => Shape(e)
  BY <1>1, <1>2 DEF SameRows, Shape, Families, FeesMatch, PairsWhole
<1>4. \A b : Succeeds(b, d) => Succeeds(b, e)
  BY <1>1 DEF SameRows, Succeeds
<1> QED  BY <1>1, <1>2, <1>3, <1>4

LEMMA PostKeeps ==
    ASSUME NEW d \in Tables, NEW a, NEW c, NEW m
    PROVE  LET e == Post(d, a, c, m)
           IN  SameRows(d, e) /\ e.exps = d.exps /\ e.nextExp = d.nextExp
BY DEF Post, SameRows, Tables

\* The rows that ON DELETE CASCADE takes along.
LEMMA DoomedIsLeast ==
    ASSUME NEW d, NEW S \in SUBSET TxId
    PROVE  /\ S \subseteq Doomed(d, S) /\ Doomed(d, S) \subseteq TxId
           /\ \A j \in Doomed(d, S) : Children(d, j) \subseteq Doomed(d, S)
           /\ \A C \in SUBSET TxId :
                 S \subseteq C /\ (\A j \in C : Children(d, j) \subseteq C) => Doomed(d, S) \subseteq C
BY DEF Doomed, Children

LEMMA RowsGo ==
    ASSUME NEW d \in Tables, NEW S
    PROVE  LET e == DeleteRows(d, S)
           IN  /\ \A i \in TxId : e.rows[i] = IF i \in Doomed(d, S) THEN None ELSE d.rows[i]
               /\ e.xfers = {x \in d.xfers : {x.fromTx, x.toTx} \cap Doomed(d, S) = {}}
               /\ e.next = d.next /\ e.exps = d.exps /\ e.nextExp = d.nextExp /\ e.cur = d.cur
<1> DEFINE gone == Doomed(d, S)
           r == [i \in TxId |-> IF i \in gone THEN None ELSE d.rows[i]]
           x == {y \in d.xfers : {y.fromTx, y.toTx} \cap gone = {}}
<1>1. DeleteRows(d, S) = [d EXCEPT !.rows = r, !.xfers = x]
  BY DEF DeleteRows
<1>2. \A i \in TxId : r[i] = IF i \in gone THEN None ELSE d.rows[i]
  OBVIOUS
<1> HIDE DEF r, x, gone
<1>3. LET e == DeleteRows(d, S)
      IN  e.rows = r /\ e.xfers = x /\ e.next = d.next /\ e.exps = d.exps /\ e.nextExp = d.nextExp
          /\ e.cur = d.cur
  BY <1>1 DEF Tables
<1> QED  BY <1>2, <1>3 DEF x, gone

\* f is d, whose transfers records may be fewer.
LEMMA DeleteShape ==
    ASSUME NEW d \in Tables, NEW f \in Tables, Shape(d), f.rows = d.rows, f.next = d.next,
           f.xfers \subseteq d.xfers, NEW S \in SUBSET TxId,
           \A x \in d.xfers : x \notin f.xfers \/ {x.fromTx, x.toTx} \cap Doomed(f, S) # {}
                              => {x.fromTx, x.toTx} \subseteq Doomed(f, S)
    PROVE  Shape(DeleteRows(f, S)) /\ (\A b : Succeeds(b, d) => Succeeds(b, DeleteRows(f, S)))
<1>1. PICK e, gone : e = DeleteRows(f, S) /\ gone = Doomed(f, S)
  OBVIOUS
<1>2. /\ \A i \in TxId : e.rows[i] = IF i \in gone THEN None ELSE d.rows[i]
      /\ e.xfers = {x \in f.xfers : {x.fromTx, x.toTx} \cap gone = {}}
      /\ e.next = d.next
  BY <1>1, RowsGo
<1>3. \A i \in TxId : Live(e, i) <=> i \notin gone /\ Live(d, i)
  BY <1>2 DEF Live
<1>4. \A i \in TxId : Live(d, i) /\ d.rows[i].parent \in gone => i \in gone
  <2>1. \A j \in gone : Children(f, j) \subseteq gone
    BY <1>1, DoomedIsLeast
  <2> QED  BY <2>1 DEF Children, Live
<1>5. \A i \in TxId : Live(e, i) =>
        /\ Live(d, i) /\ i \notin gone /\ e.rows[i] = d.rows[i] /\ d.rows[i] \in Row
        /\ d.rows[i].parent \in TxId \cup {None} /\ d.rows[i].parent \notin gone
  BY <1>2, <1>3, <1>4 DEF Live, Tables, Row
<1>6. Families(e)
  <2> SUFFICES ASSUME NEW i \in TxId, Live(e, i), NEW r, r = e.rows[i]
               PROVE  /\ i < e.next
                      /\ r.parent # None =>
                           /\ Live(e, r.parent) /\ e.rows[r.parent].parent = None
                           /\ \/ r.type = "fee"
                              \/ r.type = "transfer_in" /\ e.rows[r.parent].type = "transfer_out"
                      /\ r.type = "transfer_in" => r.parent # None
                      /\ r.type = "transfer_out" => r.parent = None
    BY DEF Families
  <2>1. r = d.rows[i] /\ Live(d, i) /\ r.parent \in TxId \cup {None} /\ r.parent \notin gone
    BY <1>5
  <2>2. /\ i < d.next
        /\ r.parent # None =>
             /\ Live(d, r.parent) /\ d.rows[r.parent].parent = None
             /\ \/ r.type = "fee"
                \/ r.type = "transfer_in" /\ d.rows[r.parent].type = "transfer_out"
        /\ r.type = "transfer_in" => r.parent # None
        /\ r.type = "transfer_out" => r.parent = None
    BY <2>1 DEF Shape, Families
  <2>3. r.parent # None => Live(e, r.parent) /\ e.rows[r.parent] = d.rows[r.parent]
    BY <1>2, <1>3, <2>1, <2>2
  <2> QED  BY <1>2, <2>2, <2>3
<1>7. FeesMatch(e)
  <2> SUFFICES ASSUME NEW i \in TxId, Live(e, i)
               PROVE  LET r    == e.rows[i]
                          kids == FeeChildren(e, i)
                      IN  /\ r.parent # None => Live(e, r.parent)
                          /\ \A j, k \in kids : j = k
                          /\ \A j \in kids :
                              /\ r.type # "fee" /\ r.fee # 0
                              /\ e.rows[j].amount = r.fee
                              /\ e.rows[j].linked = Payer(r)
    BY DEF FeesMatch
  <2>1. \A j \in FeeChildren(e, i) : j \in FeeChildren(d, i) /\ e.rows[j] = d.rows[j]
    BY <1>5 DEF FeeChildren, Children
  <2>2. Live(d, i) /\ e.rows[i] = d.rows[i]
    BY <1>5
  <2>3. e.rows[i].parent # None => Live(e, e.rows[i].parent)
    BY <1>6 DEF Families
  <2> QED  BY <2>1, <2>2, <2>3 DEF Shape, FeesMatch
<1>8. PairsWhole(e)
  <2>1. \A x \in e.xfers : x \in d.xfers /\ x.fromTx \in TxId /\ x.toTx \in TxId
                           /\ x.fromTx \notin gone /\ x.toTx \notin gone
    BY <1>2 DEF Tables, Transfer
  <2>2. \A x \in e.xfers : Live(e, x.fromTx) /\ Live(e, x.toTx) /\ e.rows[x.fromTx] = d.rows[x.fromTx]
                           /\ e.rows[x.toTx] = d.rows[x.toTx]
    BY <1>2, <1>3, <2>1 DEF Shape, PairsWhole
  <2>3. ASSUME NEW i \in TxId, Live(e, i), e.rows[i].type \in Halves
        PROVE  \E x \in e.xfers : i \in {x.fromTx, x.toTx}
    <3>1. Live(d, i) /\ i \notin gone /\ d.rows[i].type \in Halves
      BY <1>5, <2>3
    <3>2. PICK x \in d.xfers : i \in {x.fromTx, x.toTx}
      BY <3>1 DEF Shape, PairsWhole
    <3>3. x \in f.xfers /\ {x.fromTx, x.toTx} \cap gone = {}
      BY <1>1, <3>1, <3>2
    <3> QED  BY <1>2, <3>2, <3>3
  <2> QED  BY <2>1, <2>2, <2>3 DEF Shape, PairsWhole
<1>9. \A b : Succeeds(b, d) => Succeeds(b, e)
  BY <1>2, <1>5 DEF Succeeds
<1> QED  BY <1>1, <1>6, <1>7, <1>8, <1>9 DEF Shape

\* A new row: one without a parent, or the fee row of a row that has none yet.
FeeRowFor(d, i, r) ==
    /\ r.type = "fee" /\ r.parent = i /\ i \in TxId /\ Live(d, i)
    /\ LET p == d.rows[i]
       IN  /\ p.parent = None /\ p.type # "fee" /\ p.fee # 0
           /\ r.amount = p.fee /\ r.linked = Payer(p)
    /\ FeeChildren(d, i) = {}

LEMMA InsertShape ==
    ASSUME NEW d \in Tables, Shape(d), NEW r \in Row, d.next \in TxId, ~ IsHalf(r),
           r.parent = None \/ FeeRowFor(d, r.parent, r)
    PROVE  LET e == InsertRow(d, r)
           IN  /\ Shape(e) /\ (\A b \in Tables : Succeeds(b, d) => Succeeds(b, e))
               /\ Live(e, d.next) /\ e.rows[d.next] = r /\ FeeChildren(e, d.next) = {}
               /\ \A i \in TxId : i # d.next => e.rows[i] = d.rows[i]
               /\ ~ Live(d, d.next)
<1>1. PICK e, n : e = InsertRow(d, r) /\ n = d.next
  OBVIOUS
<1>2. /\ n \in TxId /\ n \in Nat /\ e.next = n + 1 /\ e.xfers = d.xfers
      /\ e.rows[n] = r /\ \A i \in TxId : i # n => e.rows[i] = d.rows[i]
  <2>1. e.xfers = d.xfers
    BY <1>1 DEF InsertRow, Tables
  <2>2. e.next = d.next + 1 /\ e.rows = [d.rows EXCEPT ![d.next] = r]
    BY <1>1, InsertRowIsTables
  <2>3. d.rows \in [TxId -> Row \cup {None}]
    BY DEF Tables
  <2> QED  BY <1>1, <2>1, <2>2, <2>3, NoneIsNothing
<1>3. r # None
  BY NoneIsNothing
<1>4. \A i \in TxId : Live(d, i) => i < n /\ i # n /\ d.rows[i].parent \in TxId \cup {None}
                                    /\ (d.rows[i].parent # None => Live(d, d.rows[i].parent))
  <2>1. \A i \in TxId : Live(d, i) => i < n /\ (d.rows[i].parent # None => Live(d, d.rows[i].parent))
    BY <1>1 DEF Shape, Families
  <2>2. \A i \in TxId : Live(d, i) => d.rows[i].parent \in TxId \cup {None}
    BY DEF Live, Tables, Row
  <2> QED  BY <1>2, <2>1, <2>2, NoneIsNothing
<1>5. ~ Live(d, n)
  BY <1>2, <1>4
<1>6. \A i \in TxId : Live(e, i) <=> i = n \/ Live(d, i)
  BY <1>2, <1>3, <1>5 DEF Live
<1>7. \A i \in TxId : Live(d, i) => Live(e, i) /\ e.rows[i] = d.rows[i] /\ d.rows[i].parent # n
  <2>1. \A i \in TxId : Live(d, i) => Live(e, i) /\ e.rows[i] = d.rows[i]
    BY <1>2, <1>4, <1>6
  <2>2. ASSUME NEW i \in TxId, Live(d, i), d.rows[i].parent = n PROVE FALSE
    <3>1. d.rows[i].parent # None
      BY <1>2, <2>2, NoneIsNothing
    <3> QED  BY <1>4, <1>5, <2>2, <3>1
  <2> QED  BY <2>1, <2>2
<1>8. r.parent # n /\ (r.parent # None => r.parent \in TxId /\ Live(d, r.parent))
  BY <1>2, <1>5, NoneIsNothing DEF FeeRowFor
<1>9. FeeChildren(e, n) = {}
  BY <1>2, <1>6, <1>7, <1>8 DEF FeeChildren, Children
<1>10. Families(e)
  <2> SUFFICES ASSUME NEW i \in TxId, Live(e, i), NEW s, s = e.rows[i]
               PROVE  /\ i < e.next
                      /\ s.parent # None =>
                           /\ Live(e, s.parent) /\ e.rows[s.parent].parent = None
                           /\ \/ s.type = "fee"
                              \/ s.type = "transfer_in" /\ e.rows[s.parent].type = "transfer_out"
                      /\ s.type = "transfer_in" => s.parent # None
                      /\ s.type = "transfer_out" => s.parent = None
    BY DEF Families
  <2>1. CASE i = n
    <3>1. s = r /\ i < e.next
      BY <1>2, <2>1
    <3>2. r.type # "transfer_in" /\ r.type # "transfer_out"
      BY DEF IsHalf, Halves
    <3>3. r.parent # None => /\ r.type = "fee" /\ Live(e, r.parent)
                             /\ e.rows[r.parent].parent = None
      BY <1>7, <1>8 DEF FeeRowFor
    <3> QED  BY <3>1, <3>2, <3>3
  <2>2. CASE i # n
    <3>1. Live(d, i) /\ s = d.rows[i] /\ i < n
      BY <1>4, <1>6, <1>7, <2>2
    <3>2. i \in Nat /\ i < e.next
      BY <1>2, <3>1, NoneIsNothing
    <3>3. /\ s.parent # None =>
               /\ Live(d, s.parent) /\ d.rows[s.parent].parent = None
               /\ \/ s.type = "fee"
                  \/ s.type = "transfer_in" /\ d.rows[s.parent].type = "transfer_out"
          /\ s.type = "transfer_in" => s.parent # None
          /\ s.type = "transfer_out" => s.parent = None
      BY <3>1 DEF Shape, Families
    <3>4. s.parent # None => Live(e, s.parent) /\ e.rows[s.parent] = d.rows[s.parent]
      BY <1>4, <1>7, <3>1, <3>3
    <3> QED  BY <3>2, <3>3, <3>4
  <2> QED  BY <2>1, <2>2
<1>11. FeesMatch(e)
  <2> SUFFICES ASSUME NEW i \in TxId, Live(e, i)
               PROVE  LET s    == e.rows[i]
                          kids == FeeChildren(e, i)
                      IN  /\ s.parent # None => Live(e, s.parent)
                          /\ \A j, k \in kids : j = k
                          /\ \A j \in kids :
                              /\ s.type # "fee" /\ s.fee # 0
                              /\ e.rows[j].amount = s.fee
                              /\ e.rows[j].linked = Payer(s)
    BY DEF FeesMatch
  <2>1. e.rows[i].parent # None => Live(e, e.rows[i].parent)
    BY <1>10 DEF Families
  <2>2. CASE i = n
    BY <1>9, <2>1, <2>2
  <2>3. CASE i # n
    <3>1. Live(d, i) /\ e.rows[i] = d.rows[i]
      BY <1>6, <1>7, <2>3
    <3>2. \A j \in FeeChildren(e, i) : j # n => j \in FeeChildren(d, i) /\ e.rows[j] = d.rows[j]
      BY <1>6, <1>7 DEF FeeChildren, Children
    <3>3. n \in FeeChildren(e, i) => FeeRowFor(d, i, r)
      BY <1>2, <3>1, NoneIsNothing DEF FeeChildren, Children, Live
    <3>4. CASE n \in FeeChildren(e, i)
      <4>1. \A j \in FeeChildren(e, i) : j = n
        BY <3>2, <3>3, <3>4 DEF FeeRowFor
      <4> QED  BY <1>2, <2>1, <3>1, <3>3, <3>4, <4>1 DEF FeeRowFor
    <3>5. CASE n \notin FeeChildren(e, i)
      BY <2>1, <3>1, <3>2, <3>5 DEF Shape, FeesMatch
    <3> QED  BY <3>4, <3>5
  <2> QED  BY <2>2, <2>3
<1>12. PairsWhole(e)
  <2>1. \A x \in e.xfers : x \in d.xfers /\ x.fromTx \in TxId /\ x.toTx \in TxId
    BY <1>2 DEF Tables, Transfer
  <2>2. \A x \in e.xfers : Live(e, x.fromTx) /\ Live(e, x.toTx) /\ e.rows[x.fromTx] = d.rows[x.fromTx]
                           /\ e.rows[x.toTx] = d.rows[x.toTx]
    BY <1>7, <2>1 DEF Shape, PairsWhole
  <2>3. ASSUME NEW i \in TxId, Live(e, i), e.rows[i].type \in Halves
        PROVE  \E x \in e.xfers : i \in {x.fromTx, x.toTx}
    BY <1>2, <1>6, <1>7, <2>3 DEF Shape, PairsWhole, IsHalf
  <2> QED  BY <2>1, <2>2, <2>3 DEF Shape, PairsWhole
<1>13. ASSUME NEW b \in Tables, Succeeds(b, d) PROVE Succeeds(b, e)
  <2>1. b.next <= d.next /\ b.next \in Nat
    BY <1>13 DEF Succeeds, Tables
  <2>2. b.next <= e.next /\ \A i \in TxId : i < b.next => i # n
    BY <1>1, <1>2, <2>1
  <2>3. \A i \in TxId : Live(e, i) /\ i < b.next => Live(d, i) /\ e.rows[i] = d.rows[i]
    BY <1>6, <1>7, <2>2
  <2> QED  BY <1>13, <2>2, <2>3 DEF Succeeds
<1> QED  BY <1>1, <1>2, <1>3, <1>5, <1>6, <1>9, <1>10, <1>11, <1>12, <1>13 DEF Shape


\* A row without a parent, no half and without a fee row, written anew.
LEMMA RewriteShape ==
    ASSUME NEW d \in Tables, Shape(d), NEW n \in TxId, Live(d, n), NEW r \in Row,
           ~ IsHalf(d.rows[n]), d.rows[n].parent = None, FeeChildren(d, n) = {},
           ~ IsHalf(r), r.parent = None,
           NEW e, e = [d EXCEPT !.rows[n] = r]
    PROVE  /\ Shape(e) /\ (\A b \in Tables : Succeeds(b, d) => Succeeds(b, e))
           /\ Live(e, n) /\ e.rows[n] = r /\ FeeChildren(e, n) = {}
           /\ \A i \in TxId : i # n => e.rows[i] = d.rows[i]
<1>2. /\ e.next = d.next /\ e.xfers = d.xfers
      /\ e.rows[n] = r /\ \A i \in TxId : i # n => e.rows[i] = d.rows[i]
  BY DEF Tables
<1>3. r # None
  BY NoneIsNothing
<1>4. \A i \in TxId : Live(e, i) <=> Live(d, i)
  BY <1>2, <1>3 DEF Live
<1>5. \A i \in TxId : Live(d, i) => d.rows[i].parent # n
  <2> SUFFICES ASSUME NEW i \in TxId, Live(d, i), d.rows[i].parent = n PROVE FALSE
    OBVIOUS
  <2>1. n # None
    BY NoneIsNothing
  <2>2. d.rows[i].type = "fee" \/ d.rows[n].type = "transfer_out"
    BY <2>1 DEF Shape, Families
  <2>3. d.rows[n].type # "transfer_out"
    BY DEF IsHalf, Halves
  <2>4. i \in FeeChildren(d, n)
    BY <2>2, <2>3 DEF FeeChildren, Children
  <2> QED  BY <2>4
<1>6. Children(e, n) = {} /\ FeeChildren(e, n) = {}
  BY <1>2, <1>4, <1>5, NoneIsNothing DEF FeeChildren, Children
<1>7. \A i \in TxId : Live(e, i) => d.rows[i].parent \in TxId \cup {None}
  BY <1>4 DEF Live, Tables, Row
<1>8. Families(e)
  <2> SUFFICES ASSUME NEW i \in TxId, Live(e, i), NEW s, s = e.rows[i]
               PROVE  /\ i < e.next
                      /\ s.parent # None =>
                           /\ Live(e, s.parent) /\ e.rows[s.parent].parent = None
                           /\ \/ s.type = "fee"
                              \/ s.type = "transfer_in" /\ e.rows[s.parent].type = "transfer_out"
                      /\ s.type = "transfer_in" => s.parent # None
                      /\ s.type = "transfer_out" => s.parent = None
    BY DEF Families
  <2>1. Live(d, i) /\ i < e.next
    BY <1>2, <1>4 DEF Shape, Families
  <2>2. CASE i = n
    <3>1. s.type # "transfer_in" /\ s.type # "transfer_out" /\ s.parent = None
      BY <1>2, <2>2 DEF IsHalf, Halves
    <3> QED  BY <2>1, <3>1
  <2>3. CASE i # n
    <3>1. s = d.rows[i]
      BY <1>2, <2>3
    <3>2. /\ s.parent # None =>
               /\ Live(d, s.parent) /\ d.rows[s.parent].parent = None
               /\ \/ s.type = "fee"
                  \/ s.type = "transfer_in" /\ d.rows[s.parent].type = "transfer_out"
          /\ s.type = "transfer_in" => s.parent # None
          /\ s.type = "transfer_out" => s.parent = None
      BY <2>1, <3>1 DEF Shape, Families
    <3>3. s.parent # None => s.parent \in TxId /\ s.parent # n
      BY <1>5, <1>7, <2>1, <3>1
    <3>4. s.parent # None => Live(e, s.parent) /\ e.rows[s.parent] = d.rows[s.parent]
      BY <1>2, <1>4, <3>2, <3>3
    <3> QED  BY <2>1, <3>2, <3>4
  <2> QED  BY <2>2, <2>3
<1>9. FeesMatch(e)
  <2> SUFFICES ASSUME NEW i \in TxId, Live(e, i)
               PROVE  LET s    == e.rows[i]
                          kids == FeeChildren(e, i)
                      IN  /\ s.parent # None => Live(e, s.parent)
                          /\ \A j, k \in kids : j = k
                          /\ \A j \in kids :
                              /\ s.type # "fee" /\ s.fee # 0
                              /\ e.rows[j].amount = s.fee
                              /\ e.rows[j].linked = Payer(s)
    BY DEF FeesMatch
  <2>1. e.rows[i].parent # None => Live(e, e.rows[i].parent)
    BY <1>8 DEF Families
  <2>2. CASE i = n
    BY <1>6, <2>1, <2>2
  <2>3. CASE i # n
    <3>1. Live(d, i) /\ e.rows[i] = d.rows[i]
      BY <1>2, <1>4, <2>3
    <3>2. \A j \in FeeChildren(e, i) : j \in FeeChildren(d, i) /\ e.rows[j] = d.rows[j]
      BY <1>2, <1>4, NoneIsNothing DEF FeeChildren, Children
    <3> QED  BY <2>1, <3>1, <3>2 DEF Shape, FeesMatch
  <2> QED  BY <2>2, <2>3
<1>10. PairsWhole(e)
  <2>0. d.rows[n].type # "transfer_in" /\ d.rows[n].type # "transfer_out"
    BY DEF IsHalf, Halves
  <2>1. \A x \in e.xfers : x \in d.xfers /\ x.fromTx \in TxId /\ x.toTx \in TxId
    BY <1>2 DEF Tables, Transfer
  <2>2. \A x \in e.xfers : x.fromTx # n /\ x.toTx # n
    BY <2>0, <2>1 DEF Shape, PairsWhole
  <2>3. \A x \in e.xfers : Live(e, x.fromTx) /\ Live(e, x.toTx) /\ e.rows[x.fromTx] = d.rows[x.fromTx]
                           /\ e.rows[x.toTx] = d.rows[x.toTx]
    BY <1>2, <1>4, <2>1, <2>2 DEF Shape, PairsWhole
  <2>4. ASSUME NEW i \in TxId, Live(e, i), e.rows[i].type \in Halves
        PROVE  \E x \in e.xfers : i \in {x.fromTx, x.toTx}
    BY <1>2, <1>4, <2>4 DEF Shape, PairsWhole, IsHalf
  <2> QED  BY <2>1, <2>3, <2>4 DEF Shape, PairsWhole
<1>11. ASSUME NEW b \in Tables, Succeeds(b, d) PROVE Succeeds(b, e)
  <2>1. \A i \in TxId : Live(e, i) /\ i < b.next =>
          Live(b, i) /\ d.rows[i].parent = b.rows[i].parent /\ (IsHalf(d.rows[i]) <=> IsHalf(b.rows[i]))
    BY <1>4, <1>11 DEF Succeeds
  <2>2. \A i \in TxId : Live(e, i) => e.rows[i].parent = d.rows[i].parent
                                      /\ (IsHalf(e.rows[i]) <=> IsHalf(d.rows[i]))
    BY <1>2
  <2> QED  BY <1>2, <1>11, <2>1, <2>2 DEF Succeeds
<1> QED  BY <1>2, <1>3, <1>4, <1>6, <1>8, <1>9, <1>10, <1>11 DEF Shape

\* The stamp on a row is no part of its shape.
LEMMA StampShape ==
    ASSUME NEW d \in Tables, Shape(d), NEW n \in TxId, Live(d, n), NEW q \in Nat,
           NEW e, e = [d EXCEPT !.rows[n].fx = q]
    PROVE  /\ Shape(e) /\ (\A b \in Tables : Succeeds(b, d) => Succeeds(b, e))
           /\ \A i \in TxId : i # n => e.rows[i] = d.rows[i]
           /\ Live(e, n) /\ e.rows[n] = [d.rows[n] EXCEPT !.fx = q]
<1>1. PICK s : s = [d.rows[n] EXCEPT !.fx = q]
  OBVIOUS
<1>2. /\ e.next = d.next /\ e.xfers = d.xfers
      /\ e.rows[n] = s /\ \A i \in TxId : i # n => e.rows[i] = d.rows[i]
  BY <1>1 DEF Tables
<1>3. d.rows[n] \in Row /\ s \in Row
  BY <1>1 DEF Live, Tables, Row
<1>4. /\ s.type = d.rows[n].type /\ s.asset = d.rows[n].asset /\ s.linked = d.rows[n].linked
      /\ s.amount = d.rows[n].amount /\ s.fee = d.rows[n].fee /\ s.parent = d.rows[n].parent
  BY <1>1, <1>3 DEF Row
<1>5. \A i \in TxId : Live(e, i) <=> Live(d, i)
  BY <1>2, <1>3, NoneIsNothing DEF Live
<1>6. \A i \in TxId :
        /\ e.rows[i].type = d.rows[i].type /\ e.rows[i].asset = d.rows[i].asset
        /\ e.rows[i].linked = d.rows[i].linked /\ e.rows[i].amount = d.rows[i].amount
        /\ e.rows[i].fee = d.rows[i].fee /\ e.rows[i].parent = d.rows[i].parent
  BY <1>2, <1>4
<1>7. \A i : FeeChildren(e, i) = FeeChildren(d, i)
  BY <1>5, <1>6 DEF FeeChildren, Children
<1>8. \A i \in TxId : Live(e, i) => e.rows[i].parent \in TxId \cup {None}
  BY <1>5, <1>6 DEF Live, Tables, Row
<1>9. \A i \in TxId : Payer(e.rows[i]) = Payer(d.rows[i])
  BY <1>6 DEF Payer
<1>10. Families(e)
  <2> SUFFICES ASSUME NEW i \in TxId, Live(e, i)
               PROVE  LET t == e.rows[i]
                      IN  /\ i < e.next
                          /\ t.parent # None =>
                               /\ Live(e, t.parent) /\ e.rows[t.parent].parent = None
                               /\ \/ t.type = "fee"
                                  \/ t.type = "transfer_in" /\ e.rows[t.parent].type = "transfer_out"
                          /\ t.type = "transfer_in" => t.parent # None
                          /\ t.type = "transfer_out" => t.parent = None
    BY DEF Families
  <2>1. PICK t, u : t = e.rows[i] /\ u = d.rows[i]
    OBVIOUS
  <2>2. t.type = u.type /\ t.parent = u.parent /\ u.parent \in TxId \cup {None} /\ Live(d, i)
    BY <1>5, <1>6, <1>8, <2>1
  <2>3. /\ i < d.next
        /\ u.parent # None =>
             /\ Live(d, u.parent) /\ d.rows[u.parent].parent = None
             /\ \/ u.type = "fee"
                \/ u.type = "transfer_in" /\ d.rows[u.parent].type = "transfer_out"
        /\ u.type = "transfer_in" => u.parent # None
        /\ u.type = "transfer_out" => u.parent = None
    BY <2>1, <2>2 DEF Shape, Families
  <2>4. u.parent # None => /\ Live(e, u.parent) /\ e.rows[u.parent].parent = d.rows[u.parent].parent
                           /\ e.rows[u.parent].type = d.rows[u.parent].type
    BY <1>5, <1>6, <2>2, <2>3
  <2> QED  BY <1>2, <2>1, <2>2, <2>3, <2>4
<1>11. FeesMatch(e)
  <2> SUFFICES ASSUME NEW i \in TxId, Live(e, i)
               PROVE  LET t    == e.rows[i]
                          kids == FeeChildren(e, i)
                      IN  /\ t.parent # None => Live(e, t.parent)
                          /\ \A j, k \in kids : j = k
                          /\ \A j \in kids :
                              /\ t.type # "fee" /\ t.fee # 0
                              /\ e.rows[j].amount = t.fee
                              /\ e.rows[j].linked = Payer(t)
    BY DEF FeesMatch
  <2>1. e.rows[i].parent # None => Live(e, e.rows[i].parent)
    BY <1>10 DEF Families
  <2>2. PICK t, u : t = e.rows[i] /\ u = d.rows[i]
    OBVIOUS
  <2>3. /\ t.type = u.type /\ t.fee = u.fee /\ Payer(t) = Payer(u)
        /\ FeeChildren(e, i) = FeeChildren(d, i)
    BY <1>6, <1>7, <1>9, <2>2
  <2>4. \A j \in FeeChildren(e, i) : e.rows[j].amount = d.rows[j].amount /\ e.rows[j].linked = d.rows[j].linked
    BY <1>6 DEF FeeChildren, Children
  <2>5. /\ \A j, k \in FeeChildren(d, i) : j = k
        /\ \A j \in FeeChildren(d, i) :
              /\ u.type # "fee" /\ u.fee # 0
              /\ d.rows[j].amount = u.fee
              /\ d.rows[j].linked = Payer(u)
    BY <1>5, <2>2 DEF Shape, FeesMatch
  <2> QED  BY <2>1, <2>2, <2>3, <2>4, <2>5
<1>12. PairsWhole(e)
  <2>1. \A x \in e.xfers : x \in d.xfers /\ x.fromTx \in TxId /\ x.toTx \in TxId
    BY <1>2 DEF Tables, Transfer
  <2>2. \A x \in e.xfers : Live(e, x.fromTx) /\ Live(e, x.toTx)
    BY <1>5, <2>1 DEF Shape, PairsWhole
  <2>3. ASSUME NEW x \in e.xfers
        PROVE  LET o == e.rows[x.fromTx]
                   r == e.rows[x.toTx]
               IN  /\ o.type = "transfer_out" /\ r.type = "transfer_in"
                   /\ r.parent = x.fromTx
                   /\ o.asset = x.from /\ o.linked = x.to
                   /\ r.asset = x.to /\ r.linked = x.from
                   /\ o.amount = x.amount /\ r.amount = x.amount
    <3>1. PICK o, r, p, t : /\ o = e.rows[x.fromTx] /\ r = e.rows[x.toTx]
                            /\ p = d.rows[x.fromTx] /\ t = d.rows[x.toTx]
      OBVIOUS
    <3>2. /\ o.type = p.type /\ o.asset = p.asset /\ o.linked = p.linked /\ o.amount = p.amount
          /\ r.type = t.type /\ r.asset = t.asset /\ r.linked = t.linked /\ r.amount = t.amount
          /\ r.parent = t.parent
      BY <1>6, <2>1, <3>1
    <3>3. /\ p.type = "transfer_out" /\ t.type = "transfer_in"
          /\ t.parent = x.fromTx
          /\ p.asset = x.from /\ p.linked = x.to
          /\ t.asset = x.to /\ t.linked = x.from
          /\ p.amount = x.amount /\ t.amount = x.amount
      BY <2>1, <3>1 DEF Shape, PairsWhole
    <3> QED  BY <3>1, <3>2, <3>3
  <2>4. \A i \in TxId : Live(e, i) /\ e.rows[i].type \in Halves
            => \E x \in e.xfers : i \in {x.fromTx, x.toTx}
    BY <1>2, <1>5, <1>6 DEF Shape, PairsWhole
  <2> QED  BY <2>2, <2>3, <2>4 DEF PairsWhole
<1>13. ASSUME NEW b \in Tables, Succeeds(b, d) PROVE Succeeds(b, e)
  BY <1>2, <1>5, <1>6, <1>13 DEF Succeeds, IsHalf
<1> QED  BY <1>1, <1>2, <1>3, <1>5, <1>10, <1>11, <1>12, <1>13, NoneIsNothing DEF Shape, Live

\* Both halves of a transfer and its record, written at once.
LEMMA PairShape ==
    ASSUME NEW d \in Tables, Shape(d), NEW o \in Row, NEW r \in Row, NEW x \in Transfer, NEW e,
           NEW n \in TxId, NEW m \in TxId, n = d.next, m = n + 1,
           e.rows[n] = o, e.rows[m] = r, \A i \in TxId : i # n /\ i # m => e.rows[i] = d.rows[i],
           e.next = m + 1, e.xfers = d.xfers \cup {x},
           o.type = "transfer_out", r.type = "transfer_in", o.parent = None, r.parent = n,
           r.asset = o.linked, r.linked = o.asset, r.amount = o.amount,
           x.from = o.asset, x.to = o.linked, x.amount = o.amount, x.fromTx = n, x.toTx = m
    PROVE  Shape(e) /\ (\A b \in Tables : Succeeds(b, d) => Succeeds(b, e))
<1>1. /\ n \in Nat /\ m \in Nat /\ n < m /\ m < e.next /\ n # m /\ n # None
      /\ o # None /\ r # None
  BY NoneIsNothing
<1>2. \A i \in TxId : Live(d, i) => i < n /\ i # n /\ i # m /\ i < e.next
  <2>1. \A i \in TxId : Live(d, i) => i < n
    BY DEF Shape, Families
  <2> QED  BY <1>1, <2>1, NoneIsNothing
<1>3. \A i \in TxId : Live(d, i) => d.rows[i].parent # n /\ d.rows[i].parent # m
                                    /\ (d.rows[i].parent # None => Live(d, d.rows[i].parent))
                                    /\ d.rows[i].parent \in TxId \cup {None}
  <2>1. \A i \in TxId : Live(d, i) => (d.rows[i].parent # None => Live(d, d.rows[i].parent))
                                      /\ d.rows[i].parent \in TxId \cup {None}
    BY DEF Shape, Families, Live, Tables, Row
  <2>2. ~ Live(d, n) /\ ~ Live(d, m)
    BY <1>2
  <2>3. n # None /\ m # None
    BY NoneIsNothing
  <2> QED  BY <2>1, <2>2, <2>3
<1>4. \A i \in TxId : Live(e, i) <=> i = n \/ i = m \/ Live(d, i)
  BY <1>1, <1>2 DEF Live
<1>5. \A i \in TxId : Live(d, i) => Live(e, i) /\ e.rows[i] = d.rows[i]
  BY <1>2, <1>4
<1>6. \A i \in TxId : \A j \in FeeChildren(e, i) :
        i # n /\ i # m /\ Live(d, i) /\ j \in FeeChildren(d, i) /\ e.rows[j] = d.rows[j]
  <2> SUFFICES ASSUME NEW i \in TxId, NEW j \in TxId, Live(e, j), e.rows[j].parent = i, e.rows[j].type = "fee"
               PROVE  i # n /\ i # m /\ Live(d, i) /\ j \in FeeChildren(d, i) /\ e.rows[j] = d.rows[j]
    BY DEF FeeChildren, Children
  <2>1. j # n /\ j # m
    OBVIOUS
  <2>2. Live(d, j) /\ e.rows[j] = d.rows[j]
    BY <1>4, <2>1
  <2>3. i # None
    BY NoneIsNothing
  <2> QED  BY <1>3, <2>2, <2>3 DEF FeeChildren, Children
<1>7. Families(e)
  <2> SUFFICES ASSUME NEW i \in TxId, Live(e, i), NEW s, s = e.rows[i]
               PROVE  /\ i < e.next
                      /\ s.parent # None =>
                           /\ Live(e, s.parent) /\ e.rows[s.parent].parent = None
                           /\ \/ s.type = "fee"
                              \/ s.type = "transfer_in" /\ e.rows[s.parent].type = "transfer_out"
                      /\ s.type = "transfer_in" => s.parent # None
                      /\ s.type = "transfer_out" => s.parent = None
    BY DEF Families
  <2>1. CASE i = n
    BY <1>1, <2>1
  <2>2. CASE i = m
    BY <1>1, <1>4, <2>2
  <2>3. CASE i # n /\ i # m
    <3>1. Live(d, i) /\ s = d.rows[i] /\ i < e.next
      BY <1>2, <1>4, <1>5, <2>3
    <3>2. /\ s.parent # None =>
               /\ Live(d, s.parent) /\ d.rows[s.parent].parent = None
               /\ \/ s.type = "fee"
                  \/ s.type = "transfer_in" /\ d.rows[s.parent].type = "transfer_out"
          /\ s.type = "transfer_in" => s.parent # None
          /\ s.type = "transfer_out" => s.parent = None
      BY <3>1 DEF Shape, Families
    <3>3. s.parent # None => Live(e, s.parent) /\ e.rows[s.parent] = d.rows[s.parent]
      BY <1>3, <1>5, <3>1, <3>2
    <3> QED  BY <3>1, <3>2, <3>3
  <2> QED  BY <2>1, <2>2, <2>3
<1>8. FeesMatch(e)
  <2> SUFFICES ASSUME NEW i \in TxId, Live(e, i)
               PROVE  LET s    == e.rows[i]
                          kids == FeeChildren(e, i)
                      IN  /\ s.parent # None => Live(e, s.parent)
                          /\ \A j, k \in kids : j = k
                          /\ \A j \in kids :
                              /\ s.type # "fee" /\ s.fee # 0
                              /\ e.rows[j].amount = s.fee
                              /\ e.rows[j].linked = Payer(s)
    BY DEF FeesMatch
  <2>1. e.rows[i].parent # None => Live(e, e.rows[i].parent)
    BY <1>7 DEF Families
  <2>2. CASE FeeChildren(e, i) = {}
    BY <2>1, <2>2
  <2>3. CASE FeeChildren(e, i) # {}
    <3>1. Live(d, i) /\ e.rows[i] = d.rows[i]
      BY <1>5, <1>6, <2>3
    <3>2. \A j \in FeeChildren(e, i) : j \in FeeChildren(d, i) /\ e.rows[j] = d.rows[j]
      BY <1>6
    <3> QED  BY <2>1, <3>1, <3>2 DEF Shape, FeesMatch
  <2> QED  BY <2>2, <2>3
<1>9. PairsWhole(e)
  <2> SUFFICES /\ \A y \in e.xfers :
                    /\ Live(e, y.fromTx) /\ Live(e, y.toTx)
                    /\ LET p == e.rows[y.fromTx]
                           q == e.rows[y.toTx]
                       IN  /\ p.type = "transfer_out" /\ q.type = "transfer_in"
                           /\ q.parent = y.fromTx
                           /\ p.asset = y.from /\ p.linked = y.to
                           /\ q.asset = y.to /\ q.linked = y.from
                           /\ p.amount = y.amount /\ q.amount = y.amount
               /\ \A i \in TxId : Live(e, i) /\ e.rows[i].type \in Halves
                    => \E y \in e.xfers : i \in {y.fromTx, y.toTx}
    BY DEF PairsWhole
  <2>1. \A y \in d.xfers : y \in e.xfers /\ y.fromTx \in TxId /\ y.toTx \in TxId
    BY DEF Tables, Transfer
  <2>2. \A y \in d.xfers : /\ Live(e, y.fromTx) /\ Live(e, y.toTx)
                           /\ e.rows[y.fromTx] = d.rows[y.fromTx] /\ e.rows[y.toTx] = d.rows[y.toTx]
    BY <1>5, <2>1 DEF Shape, PairsWhole
  <2>3. ASSUME NEW y \in e.xfers
        PROVE  /\ Live(e, y.fromTx) /\ Live(e, y.toTx)
               /\ LET p == e.rows[y.fromTx]
                      q == e.rows[y.toTx]
                  IN  /\ p.type = "transfer_out" /\ q.type = "transfer_in"
                      /\ q.parent = y.fromTx
                      /\ p.asset = y.from /\ p.linked = y.to
                      /\ q.asset = y.to /\ q.linked = y.from
                      /\ p.amount = y.amount /\ q.amount = y.amount
    <3>1. CASE y \in d.xfers
      BY <2>2, <3>1 DEF Shape, PairsWhole
    <3>2. CASE y = x
      BY <1>4, <3>2
    <3> QED  BY <3>1, <3>2
  <2>4. ASSUME NEW i \in TxId, Live(e, i), e.rows[i].type \in Halves
        PROVE  \E y \in e.xfers : i \in {y.fromTx, y.toTx}
    <3>1. CASE i = n \/ i = m
      <4>1. i \in {x.fromTx, x.toTx} /\ x \in e.xfers
        BY <3>1
      <4> QED  BY <4>1
    <3>2. CASE i # n /\ i # m
      <4>1. Live(d, i) /\ d.rows[i].type \in Halves
        BY <1>4, <2>4, <3>2
      <4>2. PICK y \in d.xfers : i \in {y.fromTx, y.toTx}
        BY <4>1 DEF Shape, PairsWhole
      <4> QED  BY <2>1, <4>2
    <3> QED  BY <3>1, <3>2
  <2> QED  BY <2>3, <2>4
<1>10. ASSUME NEW b \in Tables, Succeeds(b, d) PROVE Succeeds(b, e)
  <2>1. b.next <= n /\ b.next \in Nat
    BY <1>10 DEF Succeeds, Tables
  <2>2. b.next <= e.next /\ \A i \in TxId : i < b.next => i # n /\ i # m
    BY <1>1, <2>1
  <2>3. \A i \in TxId : Live(e, i) /\ i < b.next => Live(d, i) /\ e.rows[i] = d.rows[i]
    BY <1>4, <1>5, <2>2
  <2> QED  BY <1>10, <2>2, <2>3 DEF Succeeds
<1> QED  BY <1>7, <1>8, <1>9, <1>10 DEF Shape

\* A row and its children go: a row that is no in half, with the records of
\* its pair.
LEMMA EraseShape ==
    ASSUME NEW d \in Tables, NEW f \in Tables, Shape(d), f.rows = d.rows, f.next = d.next,
           f.xfers \subseteq d.xfers, NEW n \in TxId, Live(d, n), d.rows[n].type # "transfer_in",
           \A x \in d.xfers : x \notin f.xfers => n \in {x.fromTx, x.toTx},
           NEW S \in SUBSET TxId, n \in S, S \subseteq {n} \cup Children(d, n)
    PROVE  /\ Doomed(f, S) = {n} \cup Children(d, n)
           /\ Shape(DeleteRows(f, S)) /\ (\A b : Succeeds(b, d) => Succeeds(b, DeleteRows(f, S)))
<1> DEFINE C == {n} \cup Children(d, n)
<1>1. \A i : Children(f, i) = Children(d, i)
  BY DEF Children, Live
<1>2. n # None
  BY NoneIsNothing
<1>3. \A k \in Children(d, n) : k \in TxId /\ Live(d, k) /\ d.rows[k].parent = n /\ Children(d, k) = {}
  <2>1. \A k \in Children(d, n) : k \in TxId /\ Live(d, k) /\ d.rows[k].parent = n
    BY DEF Children
  <2>2. ASSUME NEW k \in Children(d, n), NEW j \in Children(d, k) PROVE FALSE
    <3>1. k \in TxId /\ d.rows[k].parent = n /\ j \in TxId /\ Live(d, j) /\ d.rows[j].parent = k /\ k # None
      BY <2>1, NoneIsNothing DEF Children
    <3>2. d.rows[k].parent = None
      BY <3>1 DEF Shape, Families
    <3> QED  BY <1>2, <3>1, <3>2
  <2> QED  BY <2>1, <2>2
<1>4. C \in SUBSET TxId /\ S \subseteq C /\ \A j \in C : Children(f, j) \subseteq C
  BY <1>1, <1>3
<1>5. Doomed(f, S) \subseteq C
  <2> HIDE DEF C
  <2> QED  BY <1>4, DoomedIsLeast
<1>6. C \subseteq Doomed(f, S)
  <2>1. n \in Doomed(f, S)
    BY DoomedIsLeast
  <2>2. Children(f, n) \subseteq Doomed(f, S)
    BY <2>1, DoomedIsLeast
  <2> QED  BY <1>1, <2>1, <2>2
<1>7. Doomed(f, S) = C
  BY <1>5, <1>6
<1>8. ASSUME NEW x \in d.xfers, x \notin f.xfers \/ {x.fromTx, x.toTx} \cap C # {}
      PROVE  {x.fromTx, x.toTx} \subseteq C
  <2>1. /\ x.fromTx \in TxId /\ x.toTx \in TxId /\ Live(d, x.fromTx) /\ Live(d, x.toTx)
        /\ d.rows[x.fromTx].type = "transfer_out" /\ d.rows[x.toTx].type = "transfer_in"
        /\ d.rows[x.toTx].parent = x.fromTx
    BY DEF Shape, PairsWhole, Tables, Transfer
  <2>2. d.rows[x.fromTx].parent = None
    BY <2>1 DEF Shape, Families
  <2>3. x.toTx # n /\ x.fromTx \notin Children(d, n)
    BY <1>2, <1>3, <2>1, <2>2
  <2>4. x.fromTx = n
    <3>1. CASE n \in {x.fromTx, x.toTx}
      BY <2>3, <3>1
    <3>2. CASE {x.fromTx, x.toTx} \cap C # {}
      <4>1. x.fromTx = n \/ x.toTx \in Children(d, n)
        BY <2>3, <3>2
      <4> QED  BY <1>3, <2>1, <4>1
    <3> QED  BY <1>8, <3>1, <3>2
  <2>5. x.toTx \in Children(d, n)
    BY <2>1, <2>4 DEF Children
  <2> QED  BY <2>4, <2>5
<1>9. \A x \in d.xfers : x \notin f.xfers \/ {x.fromTx, x.toTx} \cap Doomed(f, S) # {}
                         => {x.fromTx, x.toTx} \subseteq Doomed(f, S)
  BY <1>7, <1>8
<1>10. Shape(DeleteRows(f, S)) /\ (\A b : Succeeds(b, d) => Succeeds(b, DeleteRows(f, S)))
  BY <1>9, DeleteShape
<1> QED  BY <1>7, <1>10

\* A fee row goes alone.
LEMMA FeeGoes ==
    ASSUME NEW d \in Tables, NEW f \in Tables, Shape(d), SameRows(d, f),
           NEW n \in TxId, NEW j \in FeeChildren(d, n), NEW e, e = DeleteRows(f, {j})
    PROVE  /\ Shape(e) /\ (\A b : Succeeds(b, d) => Succeeds(b, e))
           /\ j # n /\ ~ Live(e, j) /\ j \in TxId
           /\ \A i \in TxId : i # j => e.rows[i] = d.rows[i]
<1>1. /\ j \in TxId /\ Live(d, j) /\ d.rows[j].type = "fee" /\ d.rows[j].parent = n
      /\ n # None /\ d.rows[n].parent = None
  <2>1. j \in TxId /\ Live(d, j) /\ d.rows[j].type = "fee" /\ d.rows[j].parent = n /\ n # None
    BY NoneIsNothing DEF FeeChildren, Children
  <2> QED  BY <2>1 DEF Shape, Families
<1>2. Children(d, j) = {}
  <2>1. ASSUME NEW k \in Children(d, j) PROVE FALSE
    <3>1. k \in TxId /\ Live(d, k) /\ d.rows[k].parent = j /\ j # None
      BY <1>1, NoneIsNothing DEF Children
    <3>2. d.rows[j].parent = None
      BY <3>1 DEF Shape, Families
    <3> QED  BY <1>1, <3>2
  <2> QED  BY <2>1
<1>3. f.rows = d.rows /\ f.next = d.next /\ f.xfers = d.xfers
  BY DEF SameRows
<1>4. PICK S : S = {j}
  OBVIOUS
<1>5. S \in SUBSET TxId /\ j \in S /\ S \subseteq {j} \cup Children(d, j)
  BY <1>1, <1>4
<1>6. d.rows[j].type # "transfer_in"
  BY <1>1
<1>7. \A x \in d.xfers : x \notin f.xfers => j \in {x.fromTx, x.toTx}
  BY <1>3
<1>8. f.xfers \subseteq d.xfers
  BY <1>3
<1>9. /\ Doomed(f, S) = {j} \cup Children(d, j)
      /\ Shape(DeleteRows(f, S)) /\ (\A b : Succeeds(b, d) => Succeeds(b, DeleteRows(f, S)))
  BY <1>1, <1>3, <1>5, <1>6, <1>7, <1>8, EraseShape
<1>10. Doomed(f, S) = {j}
  BY <1>2, <1>9
<1>11. \A i \in TxId : DeleteRows(f, S).rows[i] = IF i = j THEN None ELSE d.rows[i]
  BY <1>3, <1>10, RowsGo
<1> QED  BY <1>1, <1>4, <1>9, <1>11 DEF Live

-----------------------------------------------------------------------------
(* The shape and the statements *)

LEMMA StatementShape ==
    ASSUME ShapeInv, db' = db, seen' = seen, Shape(work'), Succeeds(db, work'),
           OldKnown', NewKnown', FormKnown'
    PROVE  ShapeInv'
<1>1. SeenKnown'
  BY DEF ShapeInv, SeenKnown
<1>2. Shape(db') /\ Succeeds(db', work')
  BY DEF ShapeInv
<1> QED  BY <1>1, <1>2 DEF ShapeInv

LEMMA ReverseShape ==
    ASSUME TypeInv, ShapeInv, ReverseFee \/ ReverseTarget \/ ReverseLinked
    PROVE  ShapeInv'
<1>0. /\ work \in Tables /\ db \in Tables /\ rate \in Rates /\ Undoing
      /\ scope.id \in TxId /\ scope.old \in Row /\ Live(work, scope.id)
      /\ work.rows[scope.id] = scope.old /\ scope.op \in {"update", "delete"}
      /\ Shape(work) /\ Succeeds(db, work)
  BY DEF TypeInv, BooksOK, ScopeOK, ShapeInv, OldKnown, Undoing, At,
         ReverseFee, ReverseTarget, ReverseLinked
<1>00. /\ scope.op = "update" => /\ scope.old.parent = None /\ ~ IsHalf(scope.old)
                                 /\ ~ IsHalf(scope.form)
       /\ scope.op = "delete" =>
            /\ scope.self \in TxId /\ Live(work, scope.self)
            /\ IF scope.self = scope.id THEN scope.old.type # "transfer_in"
               ELSE /\ work.rows[scope.self].type = "transfer_in"
                    /\ work.rows[scope.self].parent = scope.id
  BY <1>0 DEF ShapeInv, OldKnown
\* A statement that keeps the two rows the scope names.
<1>1. ASSUME NEW d, NEW p, p \in {"revfee", "revtarget", "revlinked", "row", "erase"}, Step(d, p),
             Shape(d), Succeeds(db, d),
             d.rows[scope.id] = work.rows[scope.id],
             scope.op = "delete" => d.rows[scope.self] = work.rows[scope.self],
             p \in {"row", "erase"} => scope.op = IF p = "row" THEN "update" ELSE "delete",
             p # "revfee" => FeeChildren(d, scope.id) = {}
      PROVE  ShapeInv'
  <2>1. /\ db' = db /\ seen' = seen /\ work' = d /\ scope'.pc = p
        /\ scope'.op = scope.op /\ scope'.id = scope.id /\ scope'.self = scope.self
        /\ scope'.old = scope.old /\ scope'.form = scope.form
    BY <1>1 DEF Step, TypeInv, BooksOK, ScopeType
  <2>2. Live(d, scope.id) /\ (scope.op = "delete" => Live(d, scope.self))
    BY <1>0, <1>00, <1>1 DEF Live
  <2>3. OldKnown'
    BY <1>0, <1>00, <1>1, <2>1, <2>2 DEF OldKnown
  <2>4. NewKnown'
    BY <1>1, <2>1 DEF NewKnown, Applying
  <2>5. FormKnown'
    BY <1>00, <1>1, <2>1 DEF FormKnown, At
  <2> QED  BY <1>1, <2>1, <2>3, <2>4, <2>5, StatementShape
<1>2. CASE ReverseFee
  <2>1. CASE FeeChildren(work, scope.id) = {} /\ Step(work, "revtarget")
    BY <1>0, <1>1, <2>1
  <2>2. ASSUME NEW j \in FeeChildren(work, scope.id),
               Step(DeleteRows(Post(work, Payer(work.rows[j]), scope.old.cur,
                                    work.rows[j].amount), {j}), "revfee")
        PROVE  ShapeInv'
    <3>1. PICK f : f = Post(work, Payer(work.rows[j]), scope.old.cur, work.rows[j].amount)
      OBVIOUS
    <3>2. Payer(work.rows[j]) \in Account /\ work.rows[j].amount \in Int /\ scope.old.cur \in Currency
      BY <1>0, ChildIsRow DEF Row
    <3>3. f \in Tables
      BY <1>0, <3>1, <3>2, PostIsTables
    <3>4. SameRows(work, f)
      BY <1>0, <3>1, PostKeeps
    <3>5. PICK e : e = DeleteRows(f, {j})
      OBVIOUS
    <3>6. /\ Shape(e) /\ (\A b : Succeeds(b, work) => Succeeds(b, e))
          /\ j # scope.id /\ \A i \in TxId : i # j => e.rows[i] = work.rows[i]
      <4>1. PICK d, n, k : d = work /\ n = scope.id /\ k = j
        OBVIOUS
      <4>2. d \in Tables /\ f \in Tables /\ Shape(d) /\ SameRows(d, f) /\ n \in TxId
            /\ k \in FeeChildren(d, n) /\ e = DeleteRows(f, {k})
        BY <1>0, <3>3, <3>4, <3>5, <4>1
      <4>3. /\ Shape(e) /\ (\A b : Succeeds(b, d) => Succeeds(b, e))
            /\ k # n /\ ~ Live(e, k) /\ k \in TxId
            /\ \A i \in TxId : i # k => e.rows[i] = d.rows[i]
        BY ONLY <4>2, FeeGoes, SMTT(30)
      <4> QED  BY <4>1, <4>3
    <3>7. scope.op = "delete" => scope.self # j
      BY <1>00, <3>6 DEF FeeChildren
    <3> QED  BY <1>0, <1>00, <1>1, <2>2, <3>1, <3>5, <3>6, <3>7
  <2> QED  BY <1>2, <2>1, <2>2 DEF ReverseFee
<1>3. CASE ReverseTarget \/ ReverseLinked
  <2>1. PICK a, c, m, d, p : /\ d = work \/ d = Post(work, a, c, m)
                             /\ p = IF ReverseTarget THEN "revlinked"
                                    ELSE IF scope.op = "update" THEN "row" ELSE "erase"
                             /\ Step(d, p)
    BY <1>3 DEF ReverseTarget, ReverseLinked
  <2>2. SameRows(work, d)
    BY <1>0, <2>1, PostKeeps DEF SameRows
  <2>3. FeeChildren(work, scope.id) = {}
    BY <1>0, <1>3 DEF ShapeInv, OldKnown, ReverseTarget, ReverseLinked, At
  <2>4. Shape(d) /\ Succeeds(db, d) /\ FeeChildren(d, scope.id) = {} /\ d.rows = work.rows
    BY <1>0, <2>2, <2>3, SameShape DEF SameRows
  <2> QED  BY <1>0, <1>1, <2>1, <2>4
<1> QED  BY <1>2, <1>3

LEMMA ApplyShape ==
    ASSUME TypeInv, ShapeInv,
           WriteRow \/ ApplyFee \/ ApplyTarget \/ ApplyLinked \/ StampRate
    PROVE  ShapeInv'
<1>0. /\ work \in Tables /\ db \in Tables /\ rate \in Rates /\ rate \in Nat /\ scope \in ScopeType
      /\ scope.form \in Form /\ Shape(work) /\ Succeeds(db, work)
  BY InputsAssumption DEF TypeInv, BooksOK, ScopeOK, ShapeInv, At,
         WriteRow, ApplyFee, ApplyTarget, ApplyLinked, StampRate
<1>1. CASE WriteRow
  <2>1. At("row") /\ ~ IsHalf(scope.form)
    BY <1>1 DEF WriteRow, ShapeInv, FormKnown
  <2>2. /\ db' = db /\ seen' = seen /\ scope'.pc \in {"fee", "target"} /\ scope'.form = scope.form
    BY <1>0, <1>1 DEF WriteRow, ScopeType
  <2>3. /\ scope'.id = IF scope.op # "update" THEN work.next ELSE scope.id
    BY <1>0, <1>1 DEF WriteRow, ScopeType
  <2>4. OldKnown' /\ FormKnown'
    BY <2>2 DEF OldKnown, FormKnown, Undoing, At
  <2>5. PICK e, n : e = work' /\ n = scope'.id
    OBVIOUS
  <2>6. /\ Shape(e) /\ (\A b \in Tables : Succeeds(b, work) => Succeeds(b, e))
        /\ n \in TxId /\ Live(e, n) /\ FeeChildren(e, n) = {} /\ e.rows[n].parent = None
        /\ e.rows[n].type = scope.form.type /\ e.rows[n].asset = scope.form.asset
        /\ e.rows[n].linked = scope.form.linked /\ e.rows[n].amount = scope.form.amount
        /\ e.rows[n].fee = scope.form.fee /\ e.rows[n].cur = scope.form.cur
    <3>1. CASE scope.op # "update"
      <4>1. PICK r : r = RowOf(scope.form, None)
        OBVIOUS
      <4>2. r \in Row /\ work.next \in TxId
        BY <1>0, <2>1, <3>1, <4>1, RowOfIsRow DEF TypeInv, ScopeOK
      <4>3. /\ r.type = scope.form.type /\ r.asset = scope.form.asset /\ r.linked = scope.form.linked
            /\ r.amount = scope.form.amount /\ r.fee = scope.form.fee /\ r.cur = scope.form.cur
            /\ r.parent = None
        BY <4>1 DEF RowOf
      <4>4. ~ IsHalf(r)
        BY <2>1, <4>3 DEF IsHalf
      <4>5. e = InsertRow(work, r) /\ n = work.next
        BY <1>1, <2>3, <2>5, <3>1, <4>1 DEF WriteRow
      <4>6. /\ Shape(e) /\ (\A b \in Tables : Succeeds(b, work) => Succeeds(b, e))
            /\ Live(e, work.next) /\ e.rows[work.next] = r /\ FeeChildren(e, work.next) = {}
        BY <1>0, <4>2, <4>3, <4>4, <4>5, InsertShape
      <4> QED  BY <4>2, <4>3, <4>5, <4>6
    <3>2. CASE scope.op = "update"
      <4>1. PICK r : r = [RowOf(scope.form, scope.old.parent) EXCEPT !.fx = scope.old.fx]
        OBVIOUS
      <4>2. /\ n = scope.id /\ n \in TxId /\ Live(work, n) /\ work.rows[n] = scope.old
            /\ scope.old \in Row /\ scope.old.parent = None /\ ~ IsHalf(scope.old)
            /\ FeeChildren(work, n) = {}
        BY <2>1, <2>3, <2>5, <3>2 DEF TypeInv, ScopeOK, ShapeInv, OldKnown, Undoing, At
      <4>3. RowOf(scope.form, scope.old.parent) \in Row /\ scope.old.fx \in Nat
        BY <1>0, <4>2, RowOfIsRow DEF Row
      <4>4. /\ r \in Row
            /\ r.type = scope.form.type /\ r.asset = scope.form.asset /\ r.linked = scope.form.linked
            /\ r.amount = scope.form.amount /\ r.fee = scope.form.fee /\ r.cur = scope.form.cur
            /\ r.parent = None
        BY <4>1, <4>2, <4>3 DEF RowOf, Row
      <4>5. ~ IsHalf(r)
        BY <2>1, <4>4 DEF IsHalf
      <4>6. e = [work EXCEPT !.rows[n] = r]
        BY <1>1, <2>3, <2>5, <3>2, <4>1 DEF WriteRow
      <4>7. /\ Shape(e) /\ (\A b \in Tables : Succeeds(b, work) => Succeeds(b, e))
            /\ Live(e, n) /\ e.rows[n] = r /\ FeeChildren(e, n) = {}
        BY <1>0, <4>2, <4>4, <4>5, <4>6, RewriteShape
      <4> QED  BY <4>2, <4>4, <4>7
    <3> QED  BY <3>1, <3>2
  <2>7. NewKnown'
    <3>1. ~ IsHalf(e.rows[n])
      BY <2>1, <2>6 DEF IsHalf
    <3> QED  BY <2>2, <2>5, <2>6, <3>1 DEF NewKnown
  <2> QED  BY <1>0, <2>2, <2>4, <2>5, <2>6, <2>7, StatementShape
<1>2. CASE ApplyFee \/ ApplyTarget \/ ApplyLinked \/ StampRate
  <2>0. /\ scope.id \in TxId /\ Live(work, scope.id)
        /\ LET r == work.rows[scope.id]
           IN  /\ r.type = scope.form.type /\ r.asset = scope.form.asset
               /\ r.linked = scope.form.linked /\ r.amount = scope.form.amount
               /\ r.fee = scope.form.fee /\ r.cur = scope.form.cur
               /\ r.parent = None /\ ~ IsHalf(r)
        /\ At("fee") => FeeChildren(work, scope.id) = {}
    BY <1>2 DEF ShapeInv, NewKnown, Applying, At, ApplyFee, ApplyTarget, ApplyLinked, StampRate
  <2>1. ASSUME NEW d, NEW p, p \in {"target", "linked", "stamp", "commit"}, Step(d, p),
               Shape(d), Succeeds(db, d),
               p = "commit" \/ d.rows[scope.id] = work.rows[scope.id]
        PROVE  ShapeInv'
    <3>1. /\ db' = db /\ seen' = seen /\ work' = d /\ scope'.pc = p
          /\ scope'.id = scope.id /\ scope'.form = scope.form
      BY <1>0, <2>1 DEF Step, ScopeType
    <3>2. p # "commit" => Live(d, scope.id)
      BY <2>0, <2>1 DEF Live
    <3>3. OldKnown' /\ FormKnown'
      BY <2>1, <3>1 DEF OldKnown, FormKnown, Undoing, At
    <3>4. NewKnown'
      BY <2>0, <2>1, <3>1, <3>2 DEF NewKnown, Applying, At
    <3> QED  BY <2>1, <3>1, <3>3, <3>4, StatementShape
  <2>2. ASSUME NEW d, SameRows(work, d) PROVE Shape(d) /\ Succeeds(db, d) /\ d.rows = work.rows
    BY <1>0, <2>2, SameShape DEF SameRows
  <2>3. CASE ApplyFee
    <3>1. PICK f, child :
             /\ f = scope.form
             /\ child = [type |-> "fee", asset |-> f.asset, linked |-> Payer(f),
                         amount |-> f.fee, fee |-> 0, cur |-> f.cur,
                         parent |-> scope.id, fx |-> 0]
      OBVIOUS
    <3>2. CASE (f.fee = 0 \/ f.type = "fee") /\ Step(work, "target")
      BY <1>0, <2>1, <3>2
    <3>3. CASE f.fee # 0 /\ f.type # "fee" /\ work.next \in TxId
               /\ Step(Post(InsertRow(work, child), Payer(f), f.cur, -f.fee), "target")
      <4>1. Payer(f) \in Account /\ f \in Form /\ f.cur \in Currency /\ f.fee \in Nat /\ -f.fee \in Int
        BY <1>0, <3>1 DEF Payer, Form, AnyAccount
      <4>2. child \in Row
        BY <2>0, <3>1, <4>1 DEF Row, TxType, AnyAccount, Form
      <4>3. ~ IsHalf(child) /\ child.parent = scope.id
        BY <3>1 DEF IsHalf, Halves
      <4>4. At("fee")
        BY <2>3 DEF ApplyFee
      <4>5. Payer(work.rows[scope.id]) = Payer(f)
        BY <2>0, <3>1 DEF Payer
      <4>6. FeeRowFor(work, scope.id, child)
        BY <2>0, <3>1, <3>3, <4>4, <4>5 DEF FeeRowFor
      <4>7. PICK e, n : e = InsertRow(work, child) /\ n = work.next
        OBVIOUS
      <4>8. /\ Shape(e) /\ (\A b \in Tables : Succeeds(b, work) => Succeeds(b, e))
            /\ \A i \in TxId : i # n => e.rows[i] = work.rows[i]
            /\ ~ Live(work, n)
        BY <1>0, <3>3, <4>2, <4>3, <4>6, <4>7, InsertShape
      <4>9. e.rows[scope.id] = work.rows[scope.id] /\ e \in Tables
        BY <1>0, <2>0, <3>3, <4>2, <4>7, <4>8, InsertRowIsTables
      <4>10. PICK d : d = Post(e, Payer(f), f.cur, -f.fee)
        OBVIOUS
      <4>11. SameRows(e, d)
        BY <4>9, <4>10, PostKeeps
      <4>12. Shape(d) /\ Succeeds(db, d) /\ d.rows = e.rows
        BY <1>0, <4>8, <4>11, SameShape DEF SameRows
      <4> QED  BY <2>1, <3>3, <4>7, <4>9, <4>10, <4>12
    <3>4. CASE Step(Post(work, Payer(f), f.cur, -f.fee), "target")
      <4>1. SameRows(work, Post(work, Payer(f), f.cur, -f.fee))
        BY <1>0, PostKeeps
      <4> QED  BY <2>1, <2>2, <3>4, <4>1
    <3> QED  BY <2>3, <3>1, <3>2, <3>3, <3>4 DEF ApplyFee
  <2>4. CASE ApplyTarget \/ ApplyLinked
    <3>1. PICK a, c, m, d, p : /\ d = work \/ d = Post(work, a, c, m)
                               /\ p \in {"linked", "stamp", "commit"}
                               /\ Step(d, p)
      BY <2>4 DEF ApplyTarget, ApplyLinked
    <3>2. SameRows(work, d)
      BY <1>0, <3>1, PostKeeps DEF SameRows
    <3> QED  BY <2>1, <2>2, <3>1, <3>2
  <2>5. CASE StampRate
    <3>1. PICK q \in Nat : Step([work EXCEPT !.rows[scope.id].fx = q], "commit")
      BY <1>0, <2>5 DEF StampRate
    <3>2. PICK e : e = [work EXCEPT !.rows[scope.id].fx = q]
      OBVIOUS
    <3>3. Shape(e) /\ (\A b \in Tables : Succeeds(b, work) => Succeeds(b, e))
      BY <1>0, <2>0, <3>2, StampShape
    <3> QED  BY <1>0, <2>1, <3>1, <3>2, <3>3
  <2> QED  BY <1>2, <2>3, <2>4, <2>5
<1> QED  BY <1>1, <1>2

LEMMA EraseRowsShape ==
    ASSUME TypeInv, ShapeInv, EraseRows
    PROVE  /\ ShapeInv' /\ scope'.pc = "commit" /\ scope.old.type # "transfer_in"
           /\ work'.cur = work.cur /\ work'.exps = work.exps /\ work'.nextExp = work.nextExp
           /\ \A k \in TxId : work'.rows[k] = IF k = scope.id \/ k \in Children(work, scope.id)
                                             THEN None ELSE work.rows[k]
<1>0. /\ work \in Tables /\ db \in Tables /\ Shape(work) /\ Succeeds(db, work) /\ At("erase")
      /\ scope.id \in TxId /\ Live(work, scope.id) /\ work.rows[scope.id] = scope.old
  BY DEF TypeInv, BooksOK, ShapeInv, OldKnown, Undoing, At, EraseRows
<1>1a. PICK i, n, r, kids : i = scope.self /\ n = scope.id /\ r = work.rows[i] /\ kids = Children(work, n)
  OBVIOUS
<1>1b. PICK drop :
          drop = IF r.type = "transfer_out"
                 THEN TransfersOf(work, i, r.asset, r.linked, r.amount)
                 ELSE IF n # i
                 THEN TransfersOf(work, n, r.linked, r.asset, r.amount)
                 ELSE {}
  OBVIOUS
<1>1c. PICK dead :
          dead = IF r.type = "transfer_out" /\ kids = {}
                 THEN {i} \cup Latest(LookAlikes(work, r, "transfer_in"))
                 ELSE IF r.type \in Halves /\ (n # i \/ r.type = "transfer_out")
                 THEN {i, n} \cup kids
                 ELSE {i}
  OBVIOUS
<1>1d. Step(DeleteRows([work EXCEPT !.xfers = @ \ drop], dead), "commit")
  <2>1. scope.self = i /\ scope.id = n /\ work.rows[i] = r /\ Children(work, n) = kids
    BY <1>1a
  <2> QED  BY <1>1b, <1>1c, <2>1 DEF EraseRows
<1>1. /\ i = scope.self /\ n = scope.id /\ r = work.rows[i] /\ kids = Children(work, n)
      /\ Step(DeleteRows([work EXCEPT !.xfers = @ \ drop], dead), "commit")
  BY <1>1a, <1>1d
<1>2. /\ i \in TxId /\ Live(work, i) /\ n \in TxId /\ Live(work, n)
      /\ IF i = n THEN work.rows[n].type # "transfer_in"
         ELSE r.type = "transfer_in" /\ r.parent = n
  <2>1. scope.op = "delete"
    BY <1>0 DEF ShapeInv, OldKnown, Undoing, At, TypeInv, ScopeOK, EraseRows
  <2> QED  BY <1>0, <1>1, <2>1 DEF ShapeInv, OldKnown, Undoing, At
<1>3. n # None
  BY <1>2, NoneIsNothing
<1>4. i # n => i \in kids /\ work.rows[n].type = "transfer_out"
  BY <1>1, <1>2, <1>3, <1>0 DEF Children, Shape, Families
<1>5. work.rows[n].type = "transfer_out" =>
        \E x \in work.xfers : x.fromTx = n /\ x.toTx \in kids
  <2> SUFFICES ASSUME work.rows[n].type = "transfer_out"
               PROVE  \E x \in work.xfers : x.fromTx = n /\ x.toTx \in kids
    OBVIOUS
  <2>1. PICK x \in work.xfers : n \in {x.fromTx, x.toTx}
    BY <1>0, <1>2 DEF Shape, PairsWhole, Halves
  <2>2. /\ x.toTx \in TxId /\ Live(work, x.toTx) /\ work.rows[x.toTx].type = "transfer_in"
        /\ work.rows[x.toTx].parent = x.fromTx
    BY <1>0 DEF Shape, PairsWhole, Tables, Transfer
  <2>3. x.fromTx = n
    BY <2>1, <2>2
  <2> QED  BY <1>1, <2>2, <2>3 DEF Children
<1>6. n \in dead /\ dead \subseteq {n} \cup kids
  BY <1>1, <1>1c, <1>2, <1>4, <1>5 DEF Halves
<1>7. \A x \in drop : n \in {x.fromTx, x.toTx}
  <2>1. CASE work.rows[n].type = "transfer_out"
    <3>1. PICK x \in work.xfers : x.fromTx = n
      BY <1>5, <2>1
    <3>2. \A from, to, amount :
            TransfersOf(work, n, from, to, amount) = {y \in work.xfers : n \in {y.fromTx, y.toTx}}
      BY <3>1 DEF TransfersOf, ByKey
    <3> QED  BY <1>1, <1>1b, <1>2, <3>2
  <2>2. CASE work.rows[n].type # "transfer_out"
    <3>1. i = n /\ r.type # "transfer_out"
      BY <1>1, <1>4, <2>2
    <3> QED  BY <1>1, <1>1b, <3>1
  <2> QED  BY <2>1, <2>2
<1>8. PICK f : f = [work EXCEPT !.xfers = @ \ drop]
  OBVIOUS
<1>9. /\ f \in Tables /\ f.rows = work.rows /\ f.next = work.next
      /\ f.xfers = work.xfers \ drop
  BY <1>0, <1>8 DEF Tables
<1>10. work.rows[n].type # "transfer_in"
  BY <1>2, <1>4
<1>11. dead \in SUBSET TxId
  BY <1>1, <1>2, <1>6 DEF Children
<1>12. PICK e : e = DeleteRows(f, dead)
  OBVIOUS
<1>13. Shape(e) /\ (\A b : Succeeds(b, work) => Succeeds(b, e))
  <2>1. f.xfers \subseteq work.xfers /\ \A x \in work.xfers : x \notin f.xfers => n \in {x.fromTx, x.toTx}
    BY <1>7, <1>9
  <2> QED  BY <1>0, <1>1, <1>2, <1>6, <1>9, <1>10, <1>11, <1>12, <2>1, EraseShape
<1>14. /\ db' = db /\ seen' = seen /\ work' = e /\ scope'.pc = "commit"
  BY <1>1, <1>8, <1>12 DEF Step, TypeInv, BooksOK, ScopeType
<1>15. OldKnown' /\ NewKnown' /\ FormKnown'
  BY <1>14 DEF OldKnown, NewKnown, FormKnown, Undoing, Applying, At
<1>16. Doomed(f, dead) = {n} \cup kids
  <2>1. f.xfers \subseteq work.xfers /\ \A x \in work.xfers : x \notin f.xfers => n \in {x.fromTx, x.toTx}
    BY <1>7, <1>9
  <2> QED  BY <1>0, <1>1, <1>2, <1>6, <1>9, <1>10, <1>11, <2>1, EraseShape
<1>17. /\ \A k \in TxId : e.rows[k] = IF k \in {n} \cup kids THEN None ELSE work.rows[k]
       /\ e.cur = work.cur /\ e.exps = work.exps /\ e.nextExp = work.nextExp
  <2>1. f.cur = work.cur /\ f.exps = work.exps /\ f.nextExp = work.nextExp
    BY <1>0, <1>8 DEF Tables
  <2> QED  BY <1>9, <1>12, <1>16, <2>1, RowsGo
<1>18. ShapeInv'
  BY <1>0, <1>13, <1>14, <1>15, StatementShape
<1> QED  BY <1>0, <1>1, <1>10, <1>14, <1>17, <1>18

LEMMA OthersShape ==
    ASSUME TypeInv, ShapeInv,
           \/ WritePair \/ Send \/ Receive \/ Unpay \/ WriteBill \/ Pay
           \/ ReplayStart \/ ReplayEntry \/ ReplayStore
    PROVE  ShapeInv'
<1>0. /\ work \in Tables /\ db \in Tables /\ scope \in ScopeType /\ Shape(work) /\ Succeeds(db, work)
  BY DEF TypeInv, BooksOK, ShapeInv
<1>1. ASSUME db' = db, seen' = seen, Shape(work'), Succeeds(db, work'),
             \/ scope'.pc \in {"unpay", "bill", "pay", "rebuild", "replay", "commit"}
             \/ scope'.pc \in {"send", "receive"} /\ scope'.form.type = "transfer_out"
      PROVE  ShapeInv'
  <2>1. OldKnown' /\ NewKnown' /\ FormKnown'
    BY <1>1 DEF OldKnown, NewKnown, FormKnown, Undoing, Applying, At
  <2> QED  BY <1>1, <2>1, StatementShape
<1>2. CASE WritePair
  <2>1. PICK f, n, m, o, r, x :
          /\ f = scope.form /\ n = work.next /\ m = work.next + 1
          /\ o = RowOf(f, None)
          /\ r = RowOf([f EXCEPT !.type = "transfer_in", !.asset = f.linked, !.linked = f.asset], n)
          /\ x = [from |-> f.asset, to |-> f.linked, amount |-> f.amount, fromTx |-> n, toTx |-> n + 1]
    OBVIOUS
  <2>2. /\ f \in Form /\ f.type = "transfer_out" /\ f.linked \in Account /\ n \in TxId /\ m \in TxId
    BY <1>2, <2>1 DEF WritePair, At, ShapeInv, FormKnown, TypeInv, ScopeOK
  <2>3. /\ f.asset \in Account /\ f.amount \in Nat /\ f.cur \in Currency /\ f.fee \in Nat
    BY <2>2 DEF Form
  <2>4. /\ o \in Row /\ o.type = "transfer_out" /\ o.parent = None /\ o.asset = f.asset
        /\ o.linked = f.linked /\ o.amount = f.amount
    BY <2>1, <2>2, RowOfIsRow DEF RowOf
  <2>5. /\ r \in Row /\ r.type = "transfer_in" /\ r.parent = n /\ r.asset = f.linked
        /\ r.linked = f.asset /\ r.amount = f.amount
    <3>1. PICK g : g = [f EXCEPT !.type = "transfer_in", !.asset = f.linked, !.linked = f.asset]
      OBVIOUS
    <3>2. /\ g \in Form /\ g.type = "transfer_in" /\ g.asset = f.linked /\ g.linked = f.asset
          /\ g.amount = f.amount
      BY <2>2, <2>3, <3>1 DEF Form, TxType, AnyAccount
    <3>3. r = RowOf(g, n)
      BY <2>1, <3>1
    <3> QED  BY <2>2, <3>2, <3>3, RowOfIsRow DEF RowOf
  <2>6. /\ x \in Transfer /\ x.from = f.asset /\ x.to = f.linked /\ x.amount = f.amount
        /\ x.fromTx = n /\ x.toTx = m
    BY <2>1, <2>2, <2>3 DEF Transfer
  <2>7. PICK c, d, e : /\ c = InsertRow(work, o) /\ d = InsertRow(c, r)
                       /\ e = [d EXCEPT !.xfers = @ \cup {x}]
    OBVIOUS
  <2>8. Step(e, "send")
    BY <1>2, <2>1, <2>7 DEF WritePair
  <2>9. c \in Tables /\ c.next = m /\ c.rows = [work.rows EXCEPT ![n] = o] /\ c.xfers = work.xfers
    <3>1. c.xfers = work.xfers
      BY <1>0, <2>7 DEF InsertRow, Tables
    <3> QED  BY <1>0, <2>1, <2>2, <2>4, <2>7, <3>1, InsertRowIsTables
  <2>10. d \in Tables /\ d.next = m + 1 /\ d.rows = [c.rows EXCEPT ![m] = r] /\ d.xfers = work.xfers
    <3>1. d.xfers = c.xfers
      BY <2>7, <2>9 DEF InsertRow, Tables
    <3> QED  BY <2>2, <2>5, <2>7, <2>9, <3>1, InsertRowIsTables
  <2>11. e.next = m + 1 /\ e.rows = d.rows /\ e.xfers = work.xfers \cup {x}
    BY <2>7, <2>10 DEF Tables
  <2>12. /\ e.rows[n] = o /\ e.rows[m] = r
         /\ \A i \in TxId : i # n /\ i # m => e.rows[i] = work.rows[i]
    <3>1. n # m
      BY <2>1, <2>2, NoneIsNothing
    <3>2. work.rows \in [TxId -> Row \cup {None}] /\ c.rows \in [TxId -> Row \cup {None}]
      BY <1>0, <2>9 DEF Tables
    <3> QED  BY <2>2, <2>9, <2>10, <2>11, <3>1, <3>2
  <2>13. Shape(e) /\ (\A b \in Tables : Succeeds(b, work) => Succeeds(b, e))
    <3>1. m = n + 1 /\ n = work.next
      BY <2>1
    <3>2. r.asset = o.linked /\ r.linked = o.asset /\ r.amount = o.amount
          /\ x.from = o.asset /\ x.to = o.linked /\ x.amount = o.amount
      BY <2>4, <2>5, <2>6
    <3> QED  BY <1>0, <2>2, <2>4, <2>5, <2>6, <2>11, <2>12, <3>1, <3>2, PairShape
  <2>14. /\ db' = db /\ seen' = seen /\ work' = e /\ scope'.pc = "send" /\ scope'.form = scope.form
    BY <1>0, <2>8 DEF Step, ScopeType
  <2> QED  BY <1>0, <1>1, <2>1, <2>2, <2>13, <2>14
<1>3. CASE Send \/ Receive \/ Unpay \/ Pay
  <2>1. PICK a, c, m, p : /\ p \in {"receive", "commit", "bill"}
                          /\ Step(Post(work, a, c, m), p)
                          /\ p = "receive" => At("send")
    BY <1>3 DEF Send, Receive, Unpay, Pay
  <2>2. PICK d : d = Post(work, a, c, m)
    OBVIOUS
  <2>3. Shape(d) /\ Succeeds(db, d)
    BY <1>0, <2>2, PostKeeps, SameShape
  <2>4. /\ db' = db /\ seen' = seen /\ work' = d /\ scope'.pc = p /\ scope'.form = scope.form
    BY <1>0, <2>1, <2>2 DEF Step, ScopeType
  <2>5. p = "receive" => scope.form.type = "transfer_out"
    BY <2>1 DEF ShapeInv, FormKnown, At
  <2> QED  BY <1>1, <2>1, <2>3, <2>4, <2>5
<1>4. CASE WriteBill \/ ReplayStart \/ ReplayEntry \/ ReplayStore
  <2>1. db' = db /\ seen' = seen /\ scope'.pc \in {"commit", "pay", "replay", "rebuild"}
    BY <1>0, <1>4 DEF WriteBill, Step, ReplayStart, ReplayEntry, ReplayStore, ScopeType, At
  <2>2. SameRows(work, work')
    BY <1>0, <1>4 DEF WriteBill, Step, ReplayStart, ReplayEntry, ReplayStore, SameRows, Tables
  <2>3. Shape(work') /\ Succeeds(db, work')
    BY <1>0, <2>2, SameShape
  <2> QED  BY <1>1, <2>1, <2>3
<1> QED  BY <1>2, <1>3, <1>4

-----------------------------------------------------------------------------
(* The shape and the requests *)

LEMMA RequestShape ==
    ASSUME TypeInv, ShapeInv, WholeTransfers, NEW w \in Workers, Request(w)
    PROVE  ShapeInv'
<1>0. /\ db \in Tables /\ scope \in ScopeType /\ seen \in [Workers -> SeenType \cup {None}]
      /\ Shape(db) /\ Succeeds(db, work) /\ Shape(work)
  BY DEF TypeInv, BooksOK, ShapeInv
<1>1. ASSUME NEW s \in ScopeType, Open(w, s) PROVE
        /\ db' = db /\ work' = work /\ work = db
        /\ scope'.op = s.op /\ scope'.pc = s.pc /\ scope'.id = s.id /\ scope'.self = s.self
        /\ scope'.old = s.old /\ scope'.form = s.form
        /\ \A v \in Workers : seen'[v] = None \/ seen'[v] = seen[v]
  BY <1>0, <1>1 DEF Open, ScopeType, TypeInv, ScopeOK
<1>2. ASSUME db' = db, work' = work, OldKnown', FormKnown',
             scope'.pc \notin {"fee", "target", "linked", "stamp"},
             \A v \in Workers : seen'[v] = None \/ seen'[v] = seen[v]
      PROVE  ShapeInv'
  <2>1. NewKnown'
    BY <1>2 DEF NewKnown, Applying
  <2>2. SeenKnown'
    BY <1>2 DEF ShapeInv, SeenKnown
  <2> QED  BY <1>0, <1>2, <2>1, <2>2 DEF ShapeInv
<1>3. CASE CreateTx(w) \/ CreateTransfer(w) \/ ConfirmIncome(w) \/ CreateBill(w) \/ ChangeBill(w)
           \/ Rebuild(w)
  <2>1. /\ db' = db /\ work' = work /\ \A v \in Workers : seen'[v] = None \/ seen'[v] = seen[v]
    BY <1>0, <1>3 DEF CreateTx, CreateTransfer, ConfirmIncome, CreateBill, ChangeBill, Rebuild, Open
  <2>2. \/ scope'.pc \in {"bill", "unpay", "rebuild"}
        \/ scope'.pc = "row" /\ scope'.op # "update" /\ ~ IsHalf(scope'.form)
        \/ scope'.pc = "pair" /\ scope'.form.type = "transfer_out"
    <3>1. CASE CreateTx(w)
      <4>1. PICK o \in Orders : Open(w, [Idle EXCEPT !.op = "create", !.pc = "row", !.form = o])
        BY <3>1 DEF CreateTx
      <4>2. scope'.pc = "row" /\ scope'.op = "create" /\ scope'.form = o
        BY <4>1 DEF Open, Idle
      <4> QED  BY <4>2 DEF WholeTransfers, IsHalf
    <3>2. CASE CreateTransfer(w)
      BY <3>2 DEF CreateTransfer, Open, Idle
    <3>3. CASE ConfirmIncome(w)
      BY <3>3 DEF ConfirmIncome, Open, Idle, IsHalf, Halves
    <3>4. CASE CreateBill(w)
      BY <3>4 DEF CreateBill, Open, Idle
    <3>5. CASE ChangeBill(w)
      BY <3>5 DEF ChangeBill, Open, Idle
    <3>6. CASE Rebuild(w)
      BY <3>6 DEF Rebuild, Open, Idle
    <3> QED  BY <1>3, <3>1, <3>2, <3>3, <3>4, <3>5, <3>6
  <2>3. OldKnown' /\ FormKnown'
    BY <2>2 DEF OldKnown, FormKnown, Undoing, At
  <2> QED  BY <1>2, <2>1, <2>2, <2>3
<1>4. CASE Refuse(w)
  <2>1. db' = db /\ work' = work /\ scope' = scope /\ \A v \in Workers : seen'[v] = None \/ seen'[v] = seen[v]
    BY <1>0, <1>4 DEF Refuse
  <2>2. scope'.pc = "idle"
    BY <1>4, <2>1 DEF Refuse, NoScope, TypeInv, ScopeOK, At
  <2>3. OldKnown' /\ FormKnown'
    BY <2>2 DEF OldKnown, FormKnown, Undoing, At
  <2> QED  BY <1>2, <2>1, <2>2, <2>3
<1>5. CASE UpdateTx(w)
  <2>1. PICK n : n = seen[w]
    OBVIOUS
  <2>2. /\ n # None /\ n.kind = "tx" /\ Live(db, n.id) /\ n.id \in TxId
        /\ ~ IsHalf(n.form) /\ db.rows[n.id].parent = None /\ ~ IsHalf(db.rows[n.id])
    BY <1>5, <2>1 DEF UpdateTx, TypeInv, SeenOK, ShapeInv, SeenKnown
  <2>3. /\ db' = db /\ work' = work /\ work = db /\ \A v \in Workers : seen'[v] = None \/ seen'[v] = seen[v]
        /\ scope'.pc = "revfee" /\ scope'.op = "update" /\ scope'.id = n.id
        /\ scope'.old = db.rows[n.id] /\ scope'.form = n.form
    <3>1. NoScope
      BY <1>5 DEF UpdateTx, Open
    <3> QED  BY <1>0, <1>5, <2>1, <3>1 DEF UpdateTx, Open, Idle, TypeInv, ScopeOK
  <2>4. OldKnown'
    BY <2>2, <2>3 DEF OldKnown, Undoing
  <2>5. FormKnown'
    BY <2>3 DEF FormKnown, At
  <2> QED  BY <1>2, <2>3, <2>4, <2>5
<1>6. CASE DeleteTx(w)
  <2>1. PICK i \in TxId : /\ Live(db, i) /\ Live(db, MainOf(db, i))
                          /\ Open(w, [Idle EXCEPT !.op = "delete", !.pc = "revfee", !.self = i,
                                        !.id = MainOf(db, i), !.old = db.rows[MainOf(db, i)]])
    BY <1>6 DEF DeleteTx
  <2>2. PICK m : m = MainOf(db, i)
    OBVIOUS
  <2>3. db.rows[i].type = "transfer_in" =>
          /\ db.rows[i].parent # None /\ db.rows[i].parent \in TxId /\ Live(db, db.rows[i].parent)
          /\ db.rows[db.rows[i].parent].parent = None
    <3>1. db.rows[i].parent \in TxId \cup {None}
      BY <1>0, <2>1 DEF Live, Tables, Row
    <3> QED  BY <1>0, <2>1, <3>1 DEF Shape, Families
  <2>4. /\ m = IF db.rows[i].type = "transfer_in" THEN db.rows[i].parent ELSE i
        /\ m \in TxId /\ Live(db, m)
    BY <2>1, <2>2, <2>3 DEF MainOf
  <2>5. i = m => db.rows[m].type # "transfer_in"
    BY <2>3, <2>4
  <2>6. i # m => db.rows[i].type = "transfer_in" /\ db.rows[i].parent = m
    BY <2>4
  <2>7. /\ db' = db /\ work' = work /\ work = db /\ \A v \in Workers : seen'[v] = None \/ seen'[v] = seen[v]
        /\ scope'.pc = "revfee" /\ scope'.op = "delete" /\ scope'.id = m /\ scope'.self = i
        /\ scope'.old = db.rows[m]
    <3>1. NoScope
      BY <2>1 DEF Open
    <3> QED  BY <1>0, <2>1, <2>2, <3>1 DEF Open, Idle, TypeInv, ScopeOK
  <2>8. OldKnown'
    BY <2>1, <2>4, <2>5, <2>6, <2>7 DEF OldKnown, Undoing
  <2>9. FormKnown'
    BY <2>7 DEF FormKnown, At
  <2> QED  BY <1>2, <2>7, <2>8, <2>9
<1>7. CASE ReadTx(w) \/ ReadBill(w)
  <2>1. db' = db /\ work' = work /\ scope' = scope
    BY <1>7 DEF ReadTx, ReadBill
  <2>2. OldKnown' /\ NewKnown' /\ FormKnown'
    BY <2>1 DEF ShapeInv, OldKnown, NewKnown, FormKnown, Undoing, Applying, At
  <2>3. SeenKnown'
    <3> SUFFICES ASSUME NEW v \in Workers, seen'[v] # None, seen'[v].kind = "tx"
                 PROVE  LET i == seen'[v].id
                        IN  /\ i < db.next /\ ~ IsHalf(seen'[v].form)
                            /\ Live(db, i) => db.rows[i].parent = None /\ ~ IsHalf(db.rows[i])
      BY <2>1 DEF SeenKnown
    <3>1. CASE v # w \/ ReadBill(w)
      <4>1. seen'[v] = seen[v]
        BY <1>0, <1>7, <3>1 DEF ReadTx, ReadBill
      <4> QED  BY <4>1 DEF ShapeInv, SeenKnown
    <3>2. CASE v = w /\ ReadTx(w)
      <4>1. PICK i \in TxId, p \in Patches :
              /\ Live(db, i) /\ Editable(db.rows[i])
              /\ seen' = [seen EXCEPT ![w] =
                            [kind |-> "tx", id |-> i, form |-> Merge(p, db.rows[i]),
                             was |-> None, bill |-> None]]
        BY <3>2 DEF ReadTx
      <4>2. seen'[v].id = i /\ seen'[v].form = Merge(p, db.rows[i])
        BY <1>0, <3>2, <4>1
      <4>3. db.rows[i].type \notin Halves /\ db.rows[i].parent = None
        BY <4>1 DEF Editable, WholeTransfers
      <4>4. ~ IsHalf(Merge(p, db.rows[i]))
        BY <4>3 DEF Merge, IsHalf, WholeTransfers
      <4>5. i < db.next
        BY <1>0, <4>1 DEF Shape, Families
      <4> QED  BY <4>2, <4>3, <4>4, <4>5 DEF IsHalf
    <3> QED  BY <1>7, <3>1, <3>2
  <2> QED  BY <1>0, <2>1, <2>2, <2>3 DEF ShapeInv
<1> QED  BY <1>3, <1>4, <1>5, <1>6, <1>7 DEF Request

LEMMA EndShape ==
    ASSUME TypeInv, ShapeInv, Commit \/ Rollback \/ SetRate \/ UNCHANGED books
    PROVE  ShapeInv'
<1>0. /\ db \in Tables /\ work \in Tables /\ scope \in ScopeType
      /\ Shape(db) /\ Succeeds(db, work) /\ Shape(work)
  BY DEF TypeInv, BooksOK, ShapeInv
<1>1. Succeeds(work, work) /\ Succeeds(db, db)
  BY <1>0 DEF Succeeds, Tables
<1>2. CASE Commit \/ Rollback
  <2>1. /\ scope' = Idle /\ seen' = seen
        /\ \/ db' = work /\ work' = work
           \/ db' = db /\ work' = db
    BY <1>2 DEF Commit, Rollback
  <2>2. OldKnown' /\ NewKnown' /\ FormKnown'
    BY <2>1 DEF OldKnown, NewKnown, FormKnown, Undoing, Applying, At, Idle
  <2>3. SeenKnown'
    <3> SUFFICES ASSUME NEW v \in Workers, seen[v] # None, seen[v].kind = "tx"
                 PROVE  LET i == seen[v].id
                        IN  /\ i < db'.next /\ ~ IsHalf(seen[v].form)
                            /\ Live(db', i) => db'.rows[i].parent = None /\ ~ IsHalf(db'.rows[i])
      BY <2>1 DEF SeenKnown
    <3>1. PICK i : i = seen[v].id
      OBVIOUS
    <3>2. /\ i \in TxId /\ i < db.next /\ ~ IsHalf(seen[v].form)
          /\ Live(db, i) => db.rows[i].parent = None /\ ~ IsHalf(db.rows[i])
      BY <3>1 DEF TypeInv, SeenOK, ShapeInv, SeenKnown
    <3>3. i < work.next
      <4>1. i \in Nat /\ db.next \in Nat /\ work.next \in Nat /\ db.next <= work.next
        BY <1>0, <3>2, NoneIsNothing DEF Tables, Succeeds
      <4> QED  BY <3>2, <4>1
    <3>4. Live(work, i) => work.rows[i].parent = None /\ ~ IsHalf(work.rows[i])
      BY <1>0, <3>2 DEF Succeeds
    <3> QED  BY <2>1, <3>1, <3>2, <3>3, <3>4
  <2> QED  BY <1>0, <1>1, <2>1, <2>2, <2>3 DEF ShapeInv
<1>3. CASE SetRate \/ UNCHANGED books
  <2>1. db' = db /\ work' = work /\ scope' = scope /\ seen' = seen
    BY <1>3 DEF SetRate, books
  <2> QED  BY <2>1 DEF ShapeInv, OldKnown, NewKnown, FormKnown, SeenKnown, Undoing, Applying, At
<1> QED  BY <1>2, <1>3

LEMMA InitShape == Init => ShapeInv
<1> SUFFICES ASSUME Init PROVE ShapeInv
  OBVIOUS
<1>1. /\ db.next = 1 /\ db.xfers = {} /\ work = db /\ scope.pc = "idle"
      /\ (\A i \in TxId : ~ Live(db, i)) /\ \A w \in Workers : seen[w] = None
  BY DEF Init, Idle, Live
<1>2. Shape(db) /\ Succeeds(db, db)
  BY <1>1 DEF Shape, Families, FeesMatch, PairsWhole, Succeeds
<1> QED  BY <1>1, <1>2 DEF ShapeInv, OldKnown, NewKnown, FormKnown, SeenKnown, Undoing, Applying, At

LEMMA SerialShape == TypeInv /\ ShapeInv /\ WholeTransfers /\ [Serial]_books => ShapeInv'
<1> SUFFICES ASSUME TypeInv, ShapeInv, WholeTransfers, [Serial]_books PROVE ShapeInv'
  OBVIOUS
<1>1. CASE Statements
  BY <1>1, ReverseShape, ApplyShape, EraseRowsShape, OthersShape DEF Statements
<1>2. ASSUME NEW w \in Workers, Request(w) PROVE ShapeInv'
  BY <1>2, RequestShape
<1> QED  BY <1>1, <1>2, EndShape DEF Serial

\* Nobody notices: until then the rows are in shape.
ShapeKept == ~lapsed => ShapeInv

LEMMA NextShape == TypeInv /\ ShapeKept /\ WholeTransfers /\ [Next]_vars => ShapeKept'
<1> SUFFICES ASSUME TypeInv, ShapeKept, WholeTransfers, [Next]_vars, ~lapsed'
             PROVE  ShapeInv'
  BY DEF ShapeKept
<1>1. [Serial]_books /\ lapsed' = lapsed  BY StepKinds
<1> QED  BY <1>1, SerialShape DEF ShapeKept

LEMMA ShapeHolds == WholeTransfers => (Spec => [](TypeInv /\ ShapeKept))
<1> SUFFICES ASSUME WholeTransfers PROVE Spec => [](TypeInv /\ ShapeKept)
  OBVIOUS
<1>1. Init => TypeInv /\ ShapeKept
  BY InitTypes, InitShape DEF ShapeKept
<1>2. TypeInv /\ ShapeKept /\ [Next]_vars => (TypeInv /\ ShapeKept)'
  BY NextTypes, NextShape
<1> QED  BY <1>1, <1>2, PTL DEF Spec

(* The two halves of a transfer and its record live and die together, for    *)
(* every set of accounts, forms, workers and bounds, when only               *)
(* transfer_usecase_create writes halves: whatever statement fails of those  *)
(* the code checks, until one fails that it does not check.                  *)
THEOREM PairsAlways == WholeTransfers => (Spec => []PairsIntact)
<1>1. ShapeKept => PairsIntact
  BY DEF ShapeKept, ShapeInv, Shape, PairsIntact, Undisturbed
<1> QED  BY ShapeHolds, <1>1, PTL

(* A row has at most one fee row, of its own fee and payer, and no fee row   *)
(* outlives its parent, under the same hypothesis, until a statement fails   *)
(* that the code does not check.                                             *)
THEOREM FeeRowsAlways == WholeTransfers => (Spec => []FeeRowsMatch)
<1>1. ShapeKept => FeeRowsMatch
  BY DEF ShapeKept, ShapeInv, Shape, FeeRowsMatch, Undisturbed
<1> QED  BY ShapeHolds, <1>1, PTL

-----------------------------------------------------------------------------
(* What rows and bills are worth                                             *)

Leg(x, m, a) == IF x = a THEN Signed(a, m) ELSE 0
TargetLeg(r, a) == IF HasTarget(r) THEN Leg(r.asset, Delta(r), a) ELSE 0
LinkedLeg(r, a) == Leg(r.linked, LinkedDelta(r), a)
Legs(r, a) == TargetLeg(r, a) + LinkedLeg(r, a)
Worth(r, a) == IF r = None \/ (r.type = "transfer_in" /\ r.parent # None) THEN 0 ELSE Legs(r, a)

LEMMA LegIsInt ==
    ASSUME NEW x, NEW m \in Int, NEW a
    PROVE  Leg(x, m, a) \in Int /\ Leg(x, - m, a) = - Leg(x, m, a)
BY DEF Leg, Signed

LEMMA LegsAreInts ==
    ASSUME NEW r, r.amount \in Nat, NEW a
    PROVE  /\ TargetLeg(r, a) \in Int /\ LinkedLeg(r, a) \in Int /\ Legs(r, a) \in Int
           /\ Delta(r) \in Int /\ LinkedDelta(r) \in Int
<1>1. Delta(r) \in Int /\ LinkedDelta(r) \in Int
  BY DeltasAreInts
<1>2. TargetLeg(r, a) \in Int /\ LinkedLeg(r, a) \in Int
  BY <1>1, LegIsInt DEF TargetLeg, LinkedLeg
<1> QED  BY <1>1, <1>2 DEF Legs

\* With one currency nothing is converted.
LEMMA NoConversion ==
    ASSUME PlainBooks, NEW c \in Currency, NEW a \in Account, NEW m, NEW q
    PROVE  Convert(m, c, a, q) = m
<1>1. CurOf[a] \in Currency
  BY AccountsAssumption
<1> QED  BY <1>1 DEF PlainBooks, Convert

LEMMA WorthOfRow ==
    ASSUME PlainBooks, NEW d \in Tables, NEW a \in Own
    PROVE  /\ RowWorth(d, a) \in [TxId -> Int]
           /\ \A i \in TxId : RowWorth(d, a)[i] = Worth(d.rows[i], a)
<1>1. ASSUME NEW i \in TxId
      PROVE  /\ (IF Live(d, i) THEN Effect(d.rows[i], a, RateOf(d, d.rows[i])) ELSE 0) = Worth(d.rows[i], a)
             /\ Worth(d.rows[i], a) \in Int
  <2>1. CASE ~ Live(d, i)
    BY <2>1 DEF Live, Worth
  <2>2. CASE Live(d, i)
    <3>1. PICK r, q : r = d.rows[i] /\ q = RateOf(d, d.rows[i])
      OBVIOUS
    <3>2. r # None /\ r \in Row
      BY <2>2, <3>1 DEF Live, Tables
    <3>3. r.cur \in Currency /\ r.asset \in Account /\ r.linked \in Account \cup {None} /\ r.amount \in Nat
      BY <3>2 DEF Row, AnyAccount
    <3>4. \A x, m : (IF x = a THEN Signed(a, Convert(m, r.cur, a, q)) ELSE 0) = Leg(x, m, a)
      <4>1. a \in Account
        BY DEF Account
      <4>2. \A m : Convert(m, r.cur, a, q) = m
        BY <3>3, <4>1, NoConversion
      <4> QED  BY <4>2 DEF Leg
    <3>5. Effect(r, a, q) = IF r.type = "transfer_in" /\ r.parent # None THEN 0 ELSE Legs(r, a)
      BY <3>4 DEF Effect, Legs, TargetLeg, LinkedLeg
    <3>6. Legs(r, a) \in Int
      BY <3>3, LegsAreInts
    <3> QED  BY <2>2, <3>1, <3>2, <3>5, <3>6 DEF Worth
  <2> QED  BY <2>1, <2>2
<1> QED  BY <1>1 DEF RowWorth

LEMMA WorthOfBill ==
    ASSUME NEW d \in Tables, NEW a \in Own
    PROVE  /\ BillWorth(d, a) \in [ExpId -> Int]
           /\ \A e \in ExpId : BillWorth(d, a)[e] = BillEffect(d.exps[e], a)
           /\ \A b \in Bill \cup {None} : BillEffect(b, a) \in Int
           /\ \A b \in Bill : Credit(b) \in Int /\ BillEffect(b, a) = Leg(b.asset, Credit(b), a)
<1>1. \A b \in Bill : Credit(b) \in Int
  BY DEF Bill, Credit
<1>2. \A b \in Bill : b # None
  BY NoneIsNothing
<1>3. \A b \in Bill : BillEffect(b, a) = Leg(b.asset, Credit(b), a)
  BY <1>2 DEF BillEffect, Leg
<1>4. \A b \in Bill : BillEffect(b, a) \in Int
  BY <1>1, <1>3, LegIsInt
<1>5. BillEffect(None, a) = 0
  BY DEF BillEffect
<1>6. \A e \in ExpId : d.exps[e] \in Bill \cup {None}
  BY DEF Tables
<1> QED  BY <1>1, <1>3, <1>4, <1>5, <1>6 DEF BillWorth

\* The same rows and bills explain the same balance.
LEMMA SameExplained ==
    ASSUME NEW d, NEW e, e.rows = d.rows, e.exps = d.exps, NEW a
    PROVE  Explained(e, a) = Explained(d, a)
<1>1. RowWorth(e, a) = RowWorth(d, a)
  BY DEF RowWorth, Live, RateOf
<1>2. BillWorth(e, a) = BillWorth(d, a)
  BY DEF BillWorth
<1> QED  BY <1>1, <1>2 DEF Explained

\* A statement on one row moves what is explained by what it moves the worth
\* of that row.
LEMMA RowMoves ==
    ASSUME PlainBooks, NEW d \in Tables, NEW e \in Tables, NEW a \in Own, NEW n \in TxId,
           e.exps = d.exps,
           \A i \in TxId : i # n => Worth(e.rows[i], a) = Worth(d.rows[i], a)
    PROVE  /\ Explained(e, a) = Explained(d, a) + Worth(e.rows[n], a) - Worth(d.rows[n], a)
           /\ Explained(d, a) \in Int /\ Worth(e.rows[n], a) \in Int /\ Worth(d.rows[n], a) \in Int
<1>1. PICK f, g, h : f = RowWorth(d, a) /\ g = RowWorth(e, a) /\ h = BillWorth(d, a)
  OBVIOUS
<1>2. /\ f \in [1 .. MaxTx -> Int] /\ g \in [1 .. MaxTx -> Int] /\ n \in 1 .. MaxTx
      /\ \A i \in 1 .. MaxTx : f[i] = Worth(d.rows[i], a) /\ g[i] = Worth(e.rows[i], a)
  BY <1>1, WorthOfRow DEF TxId
<1>3. \A k \in 1 .. MaxTx : k # n => g[k] = f[k]
  BY <1>2 DEF TxId
<1>4. /\ Total(g, MaxTx) = Total(f, MaxTx) + g[n] - f[n]
      /\ Total(f, MaxTx) \in Int /\ Total(g, MaxTx) \in Int
  BY <1>2, <1>3, TotalMoves, BoundsAssumption
<1>5. h \in [1 .. MaxExp -> Int]
  BY <1>1, WorthOfBill DEF ExpId
<1>6. Total(h, MaxExp) \in Int
  BY <1>5, TotalIsInt, BoundsAssumption
<1>7. Opening[a] \in Int
  BY AccountsAssumption
<1>8. BillWorth(e, a) = h
  BY <1>1 DEF BillWorth
<1>9. /\ Explained(d, a) = Opening[a] + Total(f, MaxTx) + Total(h, MaxExp)
      /\ Explained(e, a) = Opening[a] + Total(g, MaxTx) + Total(h, MaxExp)
  BY <1>1, <1>8 DEF Explained
<1>10. f[n] \in Int /\ g[n] \in Int
  BY <1>2
<1>11. Explained(e, a) = Explained(d, a) + g[n] - f[n] /\ Explained(d, a) \in Int
  BY ONLY <1>4, <1>6, <1>7, <1>9, <1>10
<1> QED  BY <1>2, <1>10, <1>11

LEMMA BillMoves ==
    ASSUME PlainBooks, NEW d \in Tables, NEW e \in Tables, NEW a \in Own, NEW n \in ExpId,
           e.rows = d.rows, \A i \in ExpId : i # n => e.exps[i] = d.exps[i]
    PROVE  /\ Explained(e, a) = Explained(d, a) + BillEffect(e.exps[n], a) - BillEffect(d.exps[n], a)
           /\ Explained(d, a) \in Int /\ BillEffect(e.exps[n], a) \in Int /\ BillEffect(d.exps[n], a) \in Int
<1>1. PICK f, g, h : f = BillWorth(d, a) /\ g = BillWorth(e, a) /\ h = RowWorth(d, a)
  OBVIOUS
<1>2. /\ f \in [1 .. MaxExp -> Int] /\ g \in [1 .. MaxExp -> Int] /\ n \in 1 .. MaxExp
      /\ \A i \in 1 .. MaxExp : f[i] = BillEffect(d.exps[i], a) /\ g[i] = BillEffect(e.exps[i], a)
  BY <1>1, WorthOfBill DEF ExpId
<1>3. \A k \in 1 .. MaxExp : k # n => g[k] = f[k]
  BY <1>2 DEF ExpId
<1>4. /\ Total(g, MaxExp) = Total(f, MaxExp) + g[n] - f[n]
      /\ Total(f, MaxExp) \in Int /\ Total(g, MaxExp) \in Int
  BY <1>2, <1>3, TotalMoves, BoundsAssumption
<1>5. h \in [1 .. MaxTx -> Int]
  BY <1>1, WorthOfRow DEF TxId
<1>6. Total(h, MaxTx) \in Int
  BY <1>5, TotalIsInt, BoundsAssumption
<1>7. Opening[a] \in Int
  BY AccountsAssumption
<1>8. RowWorth(e, a) = h
  BY <1>1 DEF RowWorth, Live, RateOf
<1>9. /\ Explained(d, a) = Opening[a] + Total(h, MaxTx) + Total(f, MaxExp)
      /\ Explained(e, a) = Opening[a] + Total(h, MaxTx) + Total(g, MaxExp)
  BY <1>1, <1>8 DEF Explained
<1>10. f[n] \in Int /\ g[n] \in Int
  BY <1>2
<1>11. Explained(e, a) = Explained(d, a) + g[n] - f[n] /\ Explained(d, a) \in Int
  BY ONLY <1>4, <1>6, <1>7, <1>9, <1>10
<1> QED  BY <1>2, <1>10, <1>11

LEMMA PostMoves ==
    ASSUME PlainBooks, NEW d \in Tables, rate \in Rates, NEW x \in Account, NEW c \in Currency,
           NEW m \in Int, NEW e, e = Post(d, x, c, m), NEW a \in Own
    PROVE  e.cur[a] = d.cur[a] + Leg(x, m, a) /\ Leg(x, m, a) \in Int /\ d.cur[a] \in Int
<1>1. d.cur[a] \in Int /\ Leg(x, m, a) \in Int
  BY LegIsInt DEF Tables
<1>2. CASE x \in Invest
  <2>1. x # a
    BY <1>2, AccountsAssumption
  <2> QED  BY <1>1, <1>2, <2>1 DEF Post, Leg
<1>3. CASE x \notin Invest
  <2>1. Convert(m, c, x, rate) = m
    BY NoConversion
  <2>2. e.cur = [d.cur EXCEPT ![x] = d.cur[x] + Signed(x, m)]
    BY <1>3, <2>1 DEF Post, Tables
  <2>3. d.cur \in [Own -> Int]
    BY DEF Tables
  <2> QED  BY <1>1, <2>2, <2>3 DEF Leg
<1> QED  BY <1>2, <1>3


-----------------------------------------------------------------------------
\* What the balance of a is still short of what the rows explain.
Short(a) ==
    CASE scope.pc = "revlinked" -> TargetLeg(scope.old, a)
      [] scope.pc = "erase" \/ (scope.pc = "row" /\ scope.op = "update") -> Legs(scope.old, a)
      [] scope.pc \in {"fee", "target"} -> Legs(scope.form, a)
      [] scope.pc = "linked" -> LinkedLeg(scope.form, a)
      [] scope.pc = "send" -> Leg(scope.form.asset, - scope.form.amount, a)
                              + Leg(scope.form.linked, scope.form.amount, a)
      [] scope.pc = "receive" -> Leg(scope.form.linked, scope.form.amount, a)
      [] scope.pc = "bill" /\ scope.op = "bill_edit" -> BillEffect(scope.was, a)
      [] scope.pc = "pay" -> BillEffect(scope.bill, a)
      [] OTHER -> 0
Settled == \A a \in Own : db.cur[a] = Explained(db, a)
Owing == \A a \in Own : work.cur[a] + Short(a) = Explained(work, a)

\* Bills are numbered in order; the one a request has read is the one stored.
Numbered(d) == \A e \in ExpId : d.exps[e] # None => e < d.nextExp
BillKnown ==
    /\ Numbered(db) /\ Numbered(work)
    /\ scope.pc \in {"unpay", "bill"} /\ scope.op = "bill_edit" =>
          scope.id \in ExpId /\ work.exps[scope.id] = scope.was
    /\ \A w \in Workers : seen[w] # None =>
          /\ NoScope
          /\ seen[w].kind = "bill" => db.exps[seen[w].id] = seen[w].was
\* A scope is some worker's, and confirms no income.
ScopeKnown == (~ NoScope => scope.by \in Workers) /\ scope.op # "income"
MoneyInv == Settled /\ Owing /\ BillKnown /\ ScopeKnown

-----------------------------------------------------------------------------
(* The balances and the statements *)

LEMMA StatementFrame ==
    ASSUME TypeInv, Statements
    PROVE  /\ db' = db /\ seen' = seen /\ ~ NoScope
           /\ scope'.op = scope.op /\ scope'.by = scope.by
           /\ scope'.was = scope.was /\ scope'.bill = scope.bill
<1>0. scope \in ScopeType /\ (scope.pc # "idle" => ~ NoScope)
  BY DEF TypeInv, BooksOK, ScopeOK, At
<1>1. CASE ReverseFee \/ ReverseTarget \/ ReverseLinked
  BY <1>0, <1>1 DEF ReverseFee, ReverseTarget, ReverseLinked, Step, At, ScopeType
<1>2. CASE WriteRow
  BY <1>0, <1>2 DEF WriteRow, At, ScopeType
<1>3. CASE ApplyFee \/ ApplyTarget \/ ApplyLinked \/ StampRate
  BY <1>0, <1>3 DEF ApplyFee, ApplyTarget, ApplyLinked, StampRate, Step, At, ScopeType
<1>4. CASE EraseRows \/ WritePair
  <2>1. At("erase") \/ At("pair")
    BY <1>4 DEF EraseRows, WritePair
  <2>2. PICK d, p : Step(d, p)
    BY <1>4 DEF EraseRows, WritePair
  <2> QED  BY <1>0, <2>1, <2>2 DEF Step, At, ScopeType
<1>5. CASE Send \/ Receive \/ Unpay \/ Pay \/ WriteBill
  BY <1>0, <1>5 DEF Send, Receive, Unpay, Pay, WriteBill, Step, At, ScopeType
<1>6. CASE ReplayStart \/ ReplayEntry \/ ReplayStore
  BY <1>0, <1>6 DEF ReplayStart, ReplayEntry, ReplayStore, At, ScopeType
<1> QED  BY <1>1, <1>2, <1>3, <1>4, <1>5, <1>6 DEF Statements

LEMMA StatementMoney ==
    ASSUME TypeInv, MoneyInv, Statements, Owing', Numbered(work'),
           scope'.pc \in {"unpay", "bill"} /\ scope'.op = "bill_edit" =>
              scope'.id \in ExpId /\ work'.exps[scope'.id] = scope'.was
    PROVE  MoneyInv'
<1>1. /\ db' = db /\ seen' = seen /\ ~ NoScope
      /\ scope'.op = scope.op /\ scope'.by = scope.by
  BY StatementFrame
<1>2. Settled'
  <2>1. \A a : Explained(db', a) = Explained(db, a)
    BY <1>1
  <2> QED  BY <1>1, <2>1 DEF MoneyInv, Settled
<1>3. \A w \in Workers : seen'[w] = None
  BY <1>1 DEF MoneyInv, BillKnown
<1>4. BillKnown'
  BY <1>1, <1>3 DEF MoneyInv, BillKnown
<1>5. ScopeKnown'
  BY <1>1 DEF MoneyInv, ScopeKnown, NoScope
<1> QED  BY <1>2, <1>4, <1>5 DEF MoneyInv

\* A statement that leaves the bills alone.
LEMMA TxStatementMoney ==
    ASSUME TypeInv, MoneyInv, Statements, Owing', work'.exps = work.exps,
           work'.nextExp = work.nextExp, scope'.pc \notin {"unpay", "bill"}
    PROVE  MoneyInv'
<1>1. Numbered(work')
  BY DEF MoneyInv, BillKnown, Numbered
<1> QED  BY <1>1, StatementMoney

LEMMA ReverseMoney ==
    ASSUME PlainBooks, TypeInv, ShapeInv, MoneyInv,
           ReverseFee \/ ReverseTarget \/ ReverseLinked
    PROVE  MoneyInv'
<1>0. /\ work \in Tables /\ rate \in Rates /\ Undoing /\ scope \in ScopeType /\ Statements
      /\ scope.id \in TxId /\ scope.old \in Row /\ Live(work, scope.id)
      /\ work.rows[scope.id] = scope.old /\ scope.op \in {"update", "delete"}
      /\ Shape(work)
  BY DEF TypeInv, BooksOK, ScopeOK, ShapeInv, OldKnown, Undoing, At, Statements,
         ReverseFee, ReverseTarget, ReverseLinked
<1>1. PICK r : r = scope.old
  OBVIOUS
<1>2. /\ r.asset \in Account /\ r.linked \in Account \cup {None} /\ r.cur \in Currency
      /\ r.amount \in Nat
  BY <1>0, <1>1 DEF Row, AnyAccount
<1>3. \A a \in Own : /\ work.cur[a] + Short(a) = Explained(work, a) /\ work.cur[a] \in Int
                     /\ TargetLeg(r, a) \in Int /\ LinkedLeg(r, a) \in Int
                     /\ Legs(r, a) = TargetLeg(r, a) + LinkedLeg(r, a)
  BY <1>0, <1>2, LegsAreInts DEF MoneyInv, Owing, Tables, Legs
<1>4. CASE ReverseFee
  <2>0. \A a \in Own : Short(a) = 0
    BY <1>4 DEF ReverseFee, At, Short
  <2>1. CASE FeeChildren(work, scope.id) = {} /\ Step(work, "revtarget")
    <3>1. work' = work /\ scope'.pc = "revtarget"
      BY <1>0, <2>1 DEF Step, ScopeType
    <3>2. Owing'
      BY <1>3, <2>0, <3>1 DEF Owing, Short
    <3> QED  BY <1>0, <3>1, <3>2, TxStatementMoney
  <2>2. ASSUME NEW j \in FeeChildren(work, scope.id),
               Step(DeleteRows(Post(work, Payer(work.rows[j]), scope.old.cur,
                                    work.rows[j].amount), {j}), "revfee")
        PROVE  MoneyInv'
    <3>1. PICK fee, f, e : /\ fee = work.rows[j]
                           /\ f = Post(work, Payer(fee), r.cur, fee.amount)
                           /\ e = DeleteRows(f, {j})
      OBVIOUS
    <3>2. /\ Payer(fee) \in Account /\ fee.amount \in Nat /\ j \in TxId
          /\ fee.type = "fee" /\ fee.linked = Payer(fee) /\ fee # None
      <4>1. j \in TxId /\ fee \in Row /\ Payer(fee) \in Account /\ fee.type = "fee"
        BY <1>0, <3>1, ChildIsRow DEF FeeChildren
      <4>2. fee.linked = Payer(r)
        BY <1>0, <1>1, <3>1 DEF Shape, FeesMatch
      <4>3. Payer(r) # None
        BY <1>2, NoneIsNothing DEF Payer
      <4> QED  BY <4>1, <4>2, <4>3, NoneIsNothing DEF Payer, Row
    <3>3. f \in Tables /\ SameRows(work, f) /\ f.exps = work.exps /\ f.nextExp = work.nextExp
      BY <1>0, <1>2, <3>1, <3>2, PostIsTables, PostKeeps
    <3>4. e \in Tables /\ e.cur = f.cur /\ e.exps = f.exps /\ e.nextExp = f.nextExp
      BY <3>1, <3>3, DeleteRowsIsTables, RowsGo
    <3>5. \A i \in TxId : e.rows[i] = IF i = j THEN None ELSE work.rows[i]
      <4>1. PICK d, n, k : d = work /\ n = scope.id /\ k = j
        OBVIOUS
      <4>2. d \in Tables /\ f \in Tables /\ Shape(d) /\ SameRows(d, f) /\ n \in TxId
            /\ k \in FeeChildren(d, n) /\ e = DeleteRows(f, {k})
        BY <1>0, <3>1, <3>3, <4>1
      <4>3. ~ Live(e, k) /\ \A i \in TxId : i # k => e.rows[i] = d.rows[i]
        BY ONLY <4>2, FeeGoes
      <4> QED  BY <4>1, <4>3 DEF Live
    <3>6. work' = e /\ scope'.pc = "revfee"
      BY <1>0, <1>1, <2>2, <3>1 DEF Step, ScopeType
    <3>7. ASSUME NEW a \in Own PROVE e.cur[a] = Explained(e, a)
      <4>1. /\ f.cur[a] = work.cur[a] + Leg(Payer(fee), fee.amount, a)
            /\ Leg(Payer(fee), fee.amount, a) \in Int
        BY <1>0, <1>2, <3>1, <3>2, PostMoves
      <4>2. Worth(fee, a) = - Leg(Payer(fee), fee.amount, a)
        <5>1. TargetLeg(fee, a) = 0
          BY <3>2, NoneIsNothing DEF TargetLeg, HasTarget
        <5>2. LinkedLeg(fee, a) = Leg(Payer(fee), - fee.amount, a)
          BY <3>2 DEF LinkedLeg, LinkedDelta, LinkedIn
        <5>3. Leg(Payer(fee), - fee.amount, a) = - Leg(Payer(fee), fee.amount, a)
              /\ Leg(Payer(fee), - fee.amount, a) \in Int
          BY <3>2, LegIsInt
        <5> QED  BY <3>2, <5>1, <5>2, <5>3 DEF Worth, Legs
      <4>3. /\ Explained(e, a) = Explained(work, a) + Worth(e.rows[j], a) - Worth(work.rows[j], a)
            /\ Explained(work, a) \in Int
        <5>1. e.exps = work.exps /\ \A i \in TxId : i # j => Worth(e.rows[i], a) = Worth(work.rows[i], a)
          BY <3>3, <3>4, <3>5
        <5> QED  BY <1>0, <3>2, <3>4, <5>1, RowMoves
      <4>4. Worth(e.rows[j], a) = 0 /\ work.rows[j] = fee
        BY <3>1, <3>2, <3>5 DEF Worth
      <4>5. work.cur[a] = Explained(work, a)
        BY <1>3, <2>0
      <4> QED  BY <1>3, <3>4, <4>1, <4>2, <4>3, <4>4, <4>5
    <3>8. Owing'
      <4>1. ASSUME NEW a \in Own PROVE work'.cur[a] + Short(a)' = Explained(work', a)
        <5>1. Short(a)' = 0
          BY <3>6 DEF Short
        <5>2. e.cur[a] \in Int
          BY <3>4 DEF Tables
        <5> QED  BY <3>6, <3>7, <5>1, <5>2
      <4> QED  BY <4>1 DEF Owing
    <3> QED  BY <1>0, <3>3, <3>4, <3>6, <3>8, TxStatementMoney
  <2> QED  BY <1>4, <2>1, <2>2 DEF ReverseFee
<1>5. CASE ReverseTarget \/ ReverseLinked
  <2>1. PICK d, p : /\ Step(d, p)
                    /\ ReverseTarget => /\ p = "revlinked"
                                        /\ d = IF HasTarget(r) THEN Post(work, r.asset, r.cur, -Delta(r)) ELSE work
                    /\ ReverseLinked => /\ p = IF scope.op = "update" THEN "row" ELSE "erase"
                                        /\ d = IF r.linked # None THEN Post(work, r.linked, r.cur, -LinkedDelta(r))
                                               ELSE work
    BY <1>1, <1>5 DEF ReverseTarget, ReverseLinked, At
  <2>2. work' = d /\ scope'.pc = p /\ scope'.old = r /\ scope'.op = scope.op
    BY <1>0, <1>1, <2>1 DEF Step, ScopeType
  <2>3. d.rows = work.rows /\ d.exps = work.exps /\ d.nextExp = work.nextExp
    BY <1>0, <1>5, <2>1, PostKeeps DEF SameRows
  <2>4. ASSUME NEW a \in Own PROVE d.cur[a] + Short(a)' = Explained(d, a)
    <3>0. Explained(d, a) = Explained(work, a)
      BY <2>3, SameExplained
    <3>00. -Delta(r) \in Int /\ -LinkedDelta(r) \in Int /\ Delta(r) \in Int /\ LinkedDelta(r) \in Int
      BY <1>2, LegsAreInts
    <3>1. CASE ReverseTarget
      <4>1. Short(a) = 0 /\ Short(a)' = TargetLeg(r, a)
        BY <2>1, <2>2, <3>1 DEF ReverseTarget, At, Short
      <4>2. CASE HasTarget(r)
        <5>1. d.cur[a] = work.cur[a] + Leg(r.asset, -Delta(r), a)
          BY <1>0, <1>2, <2>1, <3>00, <3>1, <4>2, PostMoves
        <5>2. Leg(r.asset, -Delta(r), a) = - TargetLeg(r, a)
          BY <3>00, <4>2, LegIsInt DEF TargetLeg
        <5> QED  BY <1>3, <3>0, <4>1, <5>1, <5>2
      <4>3. CASE ~ HasTarget(r)
        <5>1. d = work /\ TargetLeg(r, a) = 0
          BY <2>1, <3>1, <4>3 DEF TargetLeg
        <5> QED  BY <1>3, <4>1, <5>1
      <4> QED  BY <4>2, <4>3
    <3>2. CASE ReverseLinked
      <4>1. Short(a) = TargetLeg(r, a) /\ Short(a)' = Legs(r, a)
        BY <1>0, <1>1, <2>1, <2>2, <3>2 DEF ReverseLinked, At, Short
      <4>2. CASE r.linked # None
        <5>1. d.cur[a] = work.cur[a] + Leg(r.linked, -LinkedDelta(r), a)
          BY <1>0, <1>2, <2>1, <3>00, <3>2, <4>2, PostMoves
        <5>2. Leg(r.linked, -LinkedDelta(r), a) = - LinkedLeg(r, a)
          BY <3>00, LegIsInt DEF LinkedLeg
        <5> QED  BY <1>3, <3>0, <4>1, <5>1, <5>2
      <4>3. CASE r.linked = None
        <5>1. d = work /\ LinkedLeg(r, a) = 0
          BY <2>1, <3>2, <4>3, NoneIsNothing DEF LinkedLeg, Leg, Account
        <5> QED  BY <1>3, <4>1, <5>1
      <4> QED  BY <4>2, <4>3
    <3> QED  BY <1>5, <3>1, <3>2
  <2>5. Owing'
    BY <2>2, <2>4 DEF Owing
  <2>6. p \notin {"unpay", "bill"}
    BY <1>5, <2>1
  <2> QED  BY <1>0, <2>2, <2>3, <2>5, <2>6, TxStatementMoney
<1> QED  BY <1>4, <1>5

LEMMA WriteRowMoney ==
    ASSUME PlainBooks, TypeInv, ShapeInv, ShapeInv', TypeInv', MoneyInv, WriteRow
    PROVE  MoneyInv'
<1>0. /\ work \in Tables /\ work' \in Tables /\ scope \in ScopeType /\ Statements
      /\ scope.form \in Form /\ Shape(work) /\ scope.op # "income" /\ scope.pc = "row"
  BY DEF TypeInv, BooksOK, ScopeOK, ShapeInv, At, Statements, WriteRow, MoneyInv, ScopeKnown
<1>1. PICK f, e, n : f = scope.form /\ e = work' /\ n = scope'.id
  OBVIOUS
<1>2. /\ scope'.pc = "fee" /\ scope'.form = f
      /\ n = IF scope.op # "update" THEN work.next ELSE scope.id
  BY <1>0, <1>1 DEF WriteRow, ScopeType
<1>3. PICK r : /\ r \in Row /\ r.type = f.type /\ r.asset = f.asset /\ r.linked = f.linked
               /\ r.amount = f.amount
               /\ e = IF scope.op # "update" THEN InsertRow(work, r) ELSE [work EXCEPT !.rows[n] = r]
               /\ n \in TxId
  <2>1. CASE scope.op # "update"
    <3>1. PICK r : r = RowOf(f, None)
      OBVIOUS
    <3>2. r \in Row /\ work.next \in TxId
      BY <1>0, <1>1, <2>1, <3>1, RowOfIsRow DEF TypeInv, ScopeOK, At
    <3>3. e = InsertRow(work, r)
      BY <1>1, <2>1, <3>1 DEF WriteRow
    <3>4. /\ r.type = f.type /\ r.asset = f.asset /\ r.linked = f.linked /\ r.amount = f.amount
      BY <3>1 DEF RowOf
    <3> QED  BY <1>2, <2>1, <3>2, <3>3, <3>4
  <2>2. CASE scope.op = "update"
    <3>1. PICK r : r = [RowOf(f, scope.old.parent) EXCEPT !.fx = scope.old.fx]
      OBVIOUS
    <3>2. scope.old \in Row /\ scope.id \in TxId
      BY <1>0, <2>2 DEF TypeInv, ScopeOK, At
    <3>3. RowOf(f, scope.old.parent) \in Row /\ scope.old.fx \in Nat
      BY <1>0, <1>1, <3>2, RowOfIsRow DEF Row
    <3>4. /\ r \in Row /\ r.type = f.type /\ r.asset = f.asset /\ r.linked = f.linked
          /\ r.amount = f.amount
      BY <3>1, <3>3 DEF RowOf, Row
    <3>5. e = [work EXCEPT !.rows[n] = r]
      BY <1>1, <1>2, <2>2, <3>1 DEF WriteRow
    <3> QED  BY <1>2, <2>2, <3>2, <3>4, <3>5
  <2> QED  BY <2>1, <2>2
<1>4. /\ e.rows = [work.rows EXCEPT ![n] = r] /\ e.cur = work.cur /\ e.exps = work.exps
      /\ e.nextExp = work.nextExp
  BY <1>0, <1>2, <1>3 DEF InsertRow, Tables
<1>5. /\ e.rows[n] = r /\ \A i \in TxId : i # n => e.rows[i] = work.rows[i]
  BY <1>0, <1>3, <1>4 DEF Tables
<1>6. ~ IsHalf(f)
  BY <1>0, <1>1 DEF ShapeInv, FormKnown, At
<1>7. r # None /\ r.type # "transfer_in" /\ r.amount \in Nat
  BY <1>3, <1>6, NoneIsNothing DEF Row, IsHalf, Halves
<1>8. scope.op # "update" => work.rows[n] = None
  <2>1. work.next \in Nat
    BY <1>0 DEF Tables
  <2>2. Live(work, n) => n < work.next
    BY <1>0, <1>3 DEF Shape, Families
  <2> QED  BY <1>2, <2>1, <2>2 DEF Live
<1>9. scope.op = "update" => /\ work.rows[n] = scope.old /\ scope.old # None
                             /\ scope.old.type # "transfer_in" /\ scope.old \in Row
  BY <1>0, <1>2, NoneIsNothing DEF ShapeInv, OldKnown, Undoing, At, IsHalf, Halves, TypeInv, ScopeOK
<1>10. ASSUME NEW a \in Own PROVE work'.cur[a] + Short(a)' = Explained(work', a)
  <2>1. Explained(e, a) = Explained(work, a) + Worth(e.rows[n], a) - Worth(work.rows[n], a)
        /\ Explained(work, a) \in Int /\ Worth(e.rows[n], a) \in Int /\ Worth(work.rows[n], a) \in Int
    <3>1. PICK d : d = work
      OBVIOUS
    <3>2. /\ d \in Tables /\ e \in Tables /\ n \in TxId /\ e.exps = d.exps
          /\ \A i \in TxId : i # n => Worth(e.rows[i], a) = Worth(d.rows[i], a)
      BY <1>0, <1>1, <1>3, <1>4, <1>5, <3>1
    <3>3. Explained(e, a) = Explained(d, a) + Worth(e.rows[n], a) - Worth(d.rows[n], a)
          /\ Explained(d, a) \in Int /\ Worth(e.rows[n], a) \in Int /\ Worth(d.rows[n], a) \in Int
      BY <3>2, RowMoves
    <3> QED  BY <3>1, <3>3
  <2>2. Worth(e.rows[n], a) = Legs(f, a)
    BY <1>3, <1>5, <1>7 DEF Worth, Legs, TargetLeg, LinkedLeg, HasTarget, Delta, LinkedDelta
  <2>3. Worth(work.rows[n], a) = Short(a)
    <3>1. CASE scope.op = "update"
      BY <1>0, <1>9, <3>1 DEF Worth, Short
    <3>2. CASE scope.op # "update"
      BY <1>0, <1>8, <3>2 DEF Worth, Short
    <3> QED  BY <3>1, <3>2
  <2>4. Short(a)' = Legs(f, a)
    BY <1>2 DEF Short
  <2>5. work.cur[a] + Short(a) = Explained(work, a) /\ work.cur[a] \in Int
    BY <1>0 DEF MoneyInv, Owing, Tables
  <2>6. e.cur[a] = work.cur[a]
    BY <1>4
  <2>7. e.cur[a] + Legs(f, a) = Explained(e, a)
    BY ONLY <2>1, <2>2, <2>3, <2>5, <2>6
  <2> QED  BY <1>1, <2>4, <2>7
<1>11. Owing'
  BY <1>10 DEF Owing
<1> QED  BY <1>0, <1>1, <1>2, <1>4, <1>11, TxStatementMoney

LEMMA ApplyMoney ==
    ASSUME PlainBooks, TypeInv, ShapeInv, MoneyInv,
           ApplyFee \/ ApplyTarget \/ ApplyLinked \/ StampRate
    PROVE  MoneyInv'
<1>0. /\ work \in Tables /\ rate \in Rates /\ rate \in Nat /\ scope \in ScopeType /\ Statements
      /\ scope.form \in Form /\ Shape(work) /\ scope.op # "income"
      /\ scope.id \in TxId /\ Live(work, scope.id) /\ work.rows[scope.id] \in Row
  BY InputsAssumption DEF TypeInv, BooksOK, ScopeOK, ShapeInv, NewKnown, Applying, At, Statements,
         ApplyFee, ApplyTarget, ApplyLinked, StampRate, MoneyInv, ScopeKnown
<1>1. PICK f : f = scope.form
  OBVIOUS
<1>2. /\ f.asset \in Account /\ f.linked \in Account \cup {None} /\ f.cur \in Currency
      /\ f.amount \in Nat /\ f.fee \in Nat /\ Payer(f) \in Account
      /\ f.type \in TxType
  BY <1>0, <1>1 DEF Form, AnyAccount, Payer
<1>3. \A a \in Own : /\ work.cur[a] + Short(a) = Explained(work, a) /\ work.cur[a] \in Int
                     /\ TargetLeg(f, a) \in Int /\ LinkedLeg(f, a) \in Int
                     /\ Legs(f, a) = TargetLeg(f, a) + LinkedLeg(f, a) /\ Legs(f, a) \in Int
  BY <1>0, <1>2, LegsAreInts DEF MoneyInv, Owing, Tables, Legs
<1>4. CASE ApplyFee
  <2>0. \A a \in Own : Short(a) = Legs(f, a)
    BY <1>1, <1>4 DEF ApplyFee, At, Short
  <2>1. PICK child :
           child = [type |-> "fee", asset |-> f.asset, linked |-> Payer(f),
                    amount |-> f.fee, fee |-> 0, cur |-> f.cur,
                    parent |-> scope.id, fx |-> 0]
    OBVIOUS
  <2>3. CASE Step(work, "target")
    <3>1. work' = work /\ scope'.pc = "target" /\ scope'.form = f
      BY <1>0, <1>1, <2>3 DEF Step, ScopeType
    <3>2. \A a \in Own : Short(a)' = Legs(f, a)
      BY <3>1 DEF Short
    <3>3. Owing'
      BY <1>3, <2>0, <3>1, <3>2 DEF Owing
    <3> QED  BY <1>0, <3>1, <3>3, TxStatementMoney
  <2>4. CASE work.next \in TxId
             /\ Step(Post(InsertRow(work, child), Payer(f), f.cur, -f.fee), "target")
    <3>1. child \in Row /\ child # None
      BY <1>0, <1>2, <2>1, NoneIsNothing DEF Row, TxType, AnyAccount
    <3>2. PICK e, n, d : /\ e = InsertRow(work, child) /\ n = work.next
                         /\ d = Post(e, Payer(f), f.cur, -f.fee)
      OBVIOUS
    <3>3. /\ e \in Tables /\ e.cur = work.cur /\ e.rows = [work.rows EXCEPT ![n] = child]
          /\ n \in TxId /\ n \in Nat
      BY <1>0, <2>4, <3>1, <3>2, InsertRowIsTables, NoneIsNothing
    <3>4. e.exps = work.exps /\ e.nextExp = work.nextExp
      BY <1>0, <3>2 DEF InsertRow, Tables
    <3>5. e.rows[n] = child /\ \A i \in TxId : i # n => e.rows[i] = work.rows[i]
      BY <1>0, <3>3 DEF Tables
    <3>6. work.rows[n] = None
      <4>1. Live(work, n) => n < work.next
        BY <1>0, <3>3 DEF Shape, Families
      <4> QED  BY <3>2, <3>3, <4>1 DEF Live
    <3>7. /\ d.rows = e.rows /\ d.exps = work.exps /\ d.nextExp = work.nextExp
      BY <3>2, <3>3, <3>4, PostKeeps DEF SameRows
    <3>8. work' = d /\ scope'.pc = "target" /\ scope'.form = f
      BY <1>0, <1>1, <2>4, <3>2 DEF Step, ScopeType
    <3>9. ASSUME NEW a \in Own PROVE d.cur[a] + Legs(f, a) = Explained(d, a)
      <4>1. /\ d.cur[a] = e.cur[a] + Leg(Payer(f), - f.fee, a)
            /\ Leg(Payer(f), - f.fee, a) \in Int
        <5>1. - f.fee \in Int
          BY <1>2
        <5> QED  BY <1>0, <1>2, <3>2, <3>3, <5>1, PostMoves
      <4>2. Worth(child, a) = Leg(Payer(f), - f.fee, a)
        <5>1. TargetLeg(child, a) = 0
          BY <1>2, <2>1, NoneIsNothing DEF TargetLeg, HasTarget
        <5>2. LinkedLeg(child, a) = Leg(Payer(f), - f.fee, a)
          BY <2>1 DEF LinkedLeg, LinkedDelta, LinkedIn
        <5>3. child.type # "transfer_in"
          BY <2>1
        <5> QED  BY <3>1, <4>1, <5>1, <5>2, <5>3 DEF Worth, Legs
      <4>3. /\ Explained(e, a) = Explained(work, a) + Worth(e.rows[n], a) - Worth(work.rows[n], a)
            /\ Explained(work, a) \in Int
        <5>1. \A i \in TxId : i # n => Worth(e.rows[i], a) = Worth(work.rows[i], a)
          BY <3>5
        <5>2. PICK d1 : d1 = work
          OBVIOUS
        <5>3. /\ d1 \in Tables /\ e \in Tables /\ n \in TxId /\ e.exps = d1.exps
              /\ \A i \in TxId : i # n => Worth(e.rows[i], a) = Worth(d1.rows[i], a)
          BY <1>0, <3>3, <3>4, <5>1, <5>2
        <5>4. /\ Explained(e, a) = Explained(d1, a) + Worth(e.rows[n], a) - Worth(d1.rows[n], a)
              /\ Explained(d1, a) \in Int
          BY <5>3, RowMoves
        <5> QED  BY <5>2, <5>4
      <4>4. Worth(e.rows[n], a) = Worth(child, a) /\ Worth(work.rows[n], a) = 0
        BY <3>5, <3>6 DEF Worth
      <4>5. Explained(d, a) = Explained(e, a)
        BY <3>4, <3>7, SameExplained
      <4>6. work.cur[a] + Legs(f, a) = Explained(work, a)
        BY <1>3, <2>0
      <4> QED  BY <1>3, <3>3, <4>1, <4>2, <4>3, <4>4, <4>5, <4>6
    <3>10. Owing'
      <4>1. \A a \in Own : Short(a)' = Legs(f, a)
        BY <3>8 DEF Short
      <4> QED  BY <3>8, <3>9, <4>1 DEF Owing
    <3> QED  BY <1>0, <3>7, <3>8, <3>10, TxStatementMoney
  <2> QED  BY <1>1, <1>4, <2>1, <2>3, <2>4 DEF ApplyFee
<1>5. CASE ApplyTarget
  <2>1. PICK d : /\ Step(d, "linked")
                 /\ d = IF HasTarget(f) THEN Post(work, f.asset, f.cur, Delta(f)) ELSE work
    BY <1>0, <1>1, <1>5 DEF ApplyTarget
  <2>2. work' = d /\ scope'.pc = "linked" /\ scope'.form = f
    BY <1>0, <1>1, <2>1 DEF Step, ScopeType
  <2>3. d.rows = work.rows /\ d.exps = work.exps /\ d.nextExp = work.nextExp
    BY <1>0, <2>1, PostKeeps DEF SameRows
  <2>4. ASSUME NEW a \in Own PROVE d.cur[a] + LinkedLeg(f, a) = Explained(d, a)
    <3>1. Explained(d, a) = Explained(work, a)
      BY <2>3, SameExplained
    <3>2. Short(a) = Legs(f, a)
      BY <1>1, <1>5 DEF ApplyTarget, At, Short
    <3>3. d.cur[a] = work.cur[a] + TargetLeg(f, a)
      <4>1. CASE HasTarget(f)
        <5>1. Delta(f) \in Int
          BY <1>2, LegsAreInts
        <5> QED  BY <1>0, <1>2, <2>1, <4>1, <5>1, PostMoves DEF TargetLeg
      <4>2. CASE ~ HasTarget(f)
        BY <1>3, <2>1, <4>2 DEF TargetLeg
      <4> QED  BY <4>1, <4>2
    <3> QED  BY <1>3, <3>1, <3>2, <3>3
  <2>5. Owing'
    <3>1. \A a \in Own : Short(a)' = LinkedLeg(f, a)
      BY <2>2 DEF Short
    <3> QED  BY <2>2, <2>4, <3>1 DEF Owing
  <2> QED  BY <1>0, <2>2, <2>3, <2>5, TxStatementMoney
<1>6. CASE ApplyLinked
  <2>1. PICK d : /\ Step(d, "stamp")
                 /\ d = IF f.linked # None THEN Post(work, f.linked, f.cur, LinkedDelta(f)) ELSE work
    BY <1>1, <1>6 DEF ApplyLinked
  <2>2. work' = d /\ scope'.pc = "stamp"
    BY <1>0, <2>1 DEF Step, ScopeType
  <2>3. d.rows = work.rows /\ d.exps = work.exps /\ d.nextExp = work.nextExp
    BY <1>0, <2>1, PostKeeps DEF SameRows
  <2>4. ASSUME NEW a \in Own PROVE d.cur[a] + 0 = Explained(d, a)
    <3>1. Explained(d, a) = Explained(work, a)
      BY <2>3, SameExplained
    <3>2. Short(a) = LinkedLeg(f, a)
      BY <1>1, <1>6 DEF ApplyLinked, At, Short
    <3>3. d.cur[a] = work.cur[a] + LinkedLeg(f, a)
      <4>1. CASE f.linked # None
        <5>1. LinkedDelta(f) \in Int
          BY <1>2, LegsAreInts
        <5> QED  BY <1>0, <1>2, <2>1, <4>1, <5>1, PostMoves DEF LinkedLeg
      <4>2. CASE f.linked = None
        <5>1. LinkedLeg(f, a) = 0
          BY <4>2, NoneIsNothing DEF LinkedLeg, Leg, Account
        <5> QED  BY <1>3, <2>1, <4>2, <5>1
      <4> QED  BY <4>1, <4>2
    <3> QED  BY <1>3, <3>1, <3>2, <3>3
  <2>5. Owing'
    <3>1. \A a \in Own : Short(a)' = 0
      BY <2>2 DEF Short
    <3> QED  BY <2>2, <2>4, <3>1 DEF Owing
  <2> QED  BY <1>0, <2>2, <2>3, <2>5, TxStatementMoney
<1>7. CASE StampRate
  <2>1. PICK q \in Nat : Step([work EXCEPT !.rows[scope.id].fx = q], "commit")
    BY <1>0, <1>7 DEF StampRate
  <2>2. PICK e, n : e = [work EXCEPT !.rows[n].fx = q] /\ n = scope.id
    OBVIOUS
  <2>3. work' = e /\ scope'.pc = "commit"
    BY <1>0, <2>1, <2>2 DEF Step, ScopeType
  <2>4. /\ e.cur = work.cur /\ e.exps = work.exps /\ e.nextExp = work.nextExp /\ n \in TxId
    BY <1>0, <2>2 DEF Tables
  <2>5. /\ \A i \in TxId : i # n => e.rows[i] = work.rows[i]
        /\ e.rows[n] = [work.rows[n] EXCEPT !.fx = q] /\ Live(e, n)
    <3>1. PICK d : d = work
      OBVIOUS
    <3>2. d \in Tables /\ n \in TxId /\ d.rows[n] \in Row /\ e = [d EXCEPT !.rows[n].fx = q]
      BY <1>0, <2>2, <3>1
    <3>3. /\ \A i \in TxId : i # n => e.rows[i] = d.rows[i]
          /\ e.rows[n] = [d.rows[n] EXCEPT !.fx = q]
      BY <3>2 DEF Tables
    <3>4. e.rows[n] \in Row
      BY <3>2, <3>3 DEF Row
    <3> QED  BY <3>1, <3>3, <3>4, NoneIsNothing DEF Live
  <2>6. PICK r, s : r = work.rows[n] /\ s = e.rows[n]
    OBVIOUS
  <2>7. /\ r \in Row /\ s = [r EXCEPT !.fx = q] /\ r # None /\ s # None
    BY <1>0, <2>2, <2>5, <2>6 DEF Live
  <2>8. s \in Row /\ s.type = r.type /\ s.asset = r.asset /\ s.linked = r.linked /\ s.amount = r.amount /\ s.parent = r.parent
    BY <2>7 DEF Row
  <2>9. \A a \in Own : Worth(s, a) = Worth(r, a)
    BY <2>7, <2>8 DEF Worth, Legs, TargetLeg, LinkedLeg, HasTarget, Delta, LinkedDelta
  <2>10. e.rows = [i \in TxId |-> IF i = n THEN s ELSE work.rows[i]]
    <3>1. work.rows \in [TxId -> Row \cup {None}]
      BY <1>0 DEF Tables
    <3>2. e.rows = [work.rows EXCEPT ![n].fx = q]
      BY <1>0, <2>2 DEF Tables
    <3> QED  BY <2>5, <2>6, <3>1, <3>2
  <2>11. e \in Tables
    <3>1. e.rows \in [TxId -> Row \cup {None}]
      <4>1. \A i \in TxId : work.rows[i] \in Row \cup {None}
        BY <1>0 DEF Tables
      <4> QED  BY <2>8, <2>10, <4>1
    <3> QED  BY <1>0, <2>2, <3>1 DEF Tables
  <2>12. ASSUME NEW a \in Own PROVE e.cur[a] + 0 = Explained(e, a)
    <3>1. \A i \in TxId : i # n => Worth(e.rows[i], a) = Worth(work.rows[i], a)
      BY <2>5
    <3>2. /\ Explained(e, a) = Explained(work, a) + Worth(e.rows[n], a) - Worth(work.rows[n], a)
          /\ Explained(work, a) \in Int /\ Worth(e.rows[n], a) \in Int
      BY <1>0, <2>4, <2>11, <3>1, RowMoves
    <3>3. Short(a) = 0
      BY <1>7 DEF StampRate, At, Short
    <3>4. Worth(e.rows[n], a) = Worth(work.rows[n], a)
      BY <2>6, <2>9
    <3> QED  BY <1>3, <2>4, <3>2, <3>3, <3>4
  <2>13. Owing'
    <3>1. \A a \in Own : Short(a)' = 0
      BY <2>3 DEF Short
    <3> QED  BY <2>3, <2>12, <3>1 DEF Owing
  <2> QED  BY <1>0, <2>3, <2>4, <2>13, TxStatementMoney
<1> QED  BY <1>4, <1>5, <1>6, <1>7

LEMMA EraseMoney ==
    ASSUME PlainBooks, TypeInv, TypeInv', ShapeInv, MoneyInv, EraseRows
    PROVE  MoneyInv'
<1>0. /\ work \in Tables /\ work' \in Tables /\ Statements /\ Shape(work)
      /\ scope.id \in TxId /\ work.rows[scope.id] = scope.old
      /\ Live(work, scope.id) /\ FeeChildren(work, scope.id) = {}
  BY DEF TypeInv, BooksOK, ShapeInv, OldKnown, Undoing, At, Statements, EraseRows
<1>1. PICK d, e, n, r : d = work /\ e = work' /\ n = scope.id /\ r = scope.old
  OBVIOUS
<1>2. /\ scope'.pc = "commit" /\ r.type # "transfer_in"
      /\ e.cur = d.cur /\ e.exps = d.exps /\ e.nextExp = d.nextExp
      /\ \A k \in TxId : e.rows[k] = IF k = n \/ k \in Children(d, n) THEN None ELSE d.rows[k]
  BY <1>1, EraseRowsShape
<1>3. r = d.rows[n] /\ r # None /\ n \in TxId /\ d \in Tables /\ e \in Tables
  BY <1>0, <1>1 DEF Live
<1>4. \A k \in Children(d, n) : k \in TxId /\ d.rows[k].type = "transfer_in" /\ d.rows[k].parent # None
  <2> SUFFICES ASSUME NEW k \in Children(d, n)
               PROVE  k \in TxId /\ d.rows[k].type = "transfer_in" /\ d.rows[k].parent # None
    OBVIOUS
  <2>1. k \in TxId /\ Live(d, k) /\ d.rows[k].parent = n /\ n # None
    BY <1>3, NoneIsNothing DEF Children
  <2>2. d.rows[k].type = "fee" \/ d.rows[k].type = "transfer_in"
    BY <1>0, <1>1, <2>1 DEF Shape, Families
  <2>3. d.rows[k].type # "fee"
    BY <1>0, <1>1 DEF FeeChildren
  <2> QED  BY <2>1, <2>2, <2>3
<1>5. ASSUME NEW a \in Own PROVE e.cur[a] + 0 = Explained(e, a)
  <2>1. \A i \in TxId : i # n => Worth(e.rows[i], a) = Worth(d.rows[i], a)
    BY <1>2, <1>4 DEF Worth
  <2>2. /\ Explained(e, a) = Explained(d, a) + Worth(e.rows[n], a) - Worth(d.rows[n], a)
        /\ Explained(d, a) \in Int /\ Worth(d.rows[n], a) \in Int
    BY <1>2, <1>3, <2>1, RowMoves
  <2>3. Worth(e.rows[n], a) = 0
    BY <1>2, <1>3 DEF Worth
  <2>4. Worth(d.rows[n], a) = Legs(r, a)
    BY <1>2, <1>3 DEF Worth
  <2>5. Short(a) = Legs(r, a)
    BY <1>1 DEF EraseRows, At, Short
  <2>6. d.cur[a] + Short(a) = Explained(d, a) /\ d.cur[a] \in Int
    BY <1>1, <1>3 DEF MoneyInv, Owing, Tables
  <2>7. e.cur[a] = d.cur[a]
    BY <1>2
  <2> QED  BY ONLY <2>2, <2>3, <2>4, <2>5, <2>6, <2>7
<1>6. Owing'
  <2>1. \A a \in Own : Short(a)' = 0
    BY <1>2 DEF Short
  <2> QED  BY <1>1, <1>5, <2>1 DEF Owing
<1> QED  BY <1>0, <1>1, <1>2, <1>6, TxStatementMoney

LEMMA PairMoney ==
    ASSUME PlainBooks, TypeInv, TypeInv', ShapeInv, MoneyInv, WritePair
    PROVE  MoneyInv'
<1>0. /\ work \in Tables /\ work' \in Tables /\ Statements /\ Shape(work) /\ scope \in ScopeType
      /\ scope.form \in Form /\ scope.form.type = "transfer_out" /\ scope.form.linked \in Account
      /\ work.next \in TxId /\ work.next + 1 \in TxId
  BY DEF TypeInv, BooksOK, ScopeOK, ShapeInv, FormKnown, At, Statements, WritePair
<1>1. PICK t, f, n, m, o, r, x :
        /\ t = work /\ f = scope.form /\ n = work.next /\ m = work.next + 1
        /\ o = RowOf(f, None)
        /\ r = RowOf([f EXCEPT !.type = "transfer_in", !.asset = f.linked, !.linked = f.asset], n)
        /\ x = [from |-> f.asset, to |-> f.linked, amount |-> f.amount, fromTx |-> n, toTx |-> n + 1]
  OBVIOUS
<1>2. /\ f.asset \in Account /\ f.amount \in Nat /\ n \in TxId /\ m \in TxId /\ n \in Nat
      /\ f.type = "transfer_out" /\ m = n + 1 /\ n # None /\ n # m /\ t \in Tables
  BY <1>0, <1>1, NoneIsNothing DEF Form
<1>3. /\ o \in Row /\ o.type = "transfer_out" /\ o.parent = None /\ o.asset = f.asset
      /\ o.linked = f.linked /\ o.amount = f.amount
  BY <1>0, <1>1, RowOfIsRow DEF RowOf
<1>4. /\ r \in Row /\ r.type = "transfer_in" /\ r.parent = n
  <2>1. PICK g : g = [f EXCEPT !.type = "transfer_in", !.asset = f.linked, !.linked = f.asset]
    OBVIOUS
  <2>2. g \in Form /\ g.type = "transfer_in"
    BY <1>0, <1>1, <2>1 DEF Form, TxType, AnyAccount
  <2>3. r = RowOf(g, n)
    BY <1>1, <2>1
  <2> QED  BY <1>2, <2>2, <2>3, RowOfIsRow DEF RowOf
<1>5. PICK c, d, e : /\ c = InsertRow(t, o) /\ d = InsertRow(c, r)
                     /\ e = [d EXCEPT !.xfers = @ \cup {x}]
  OBVIOUS
<1>6. Step(e, "send")
  BY <1>1, <1>5 DEF WritePair
<1>7. /\ c \in Tables /\ c.next = m /\ c.rows = [t.rows EXCEPT ![n] = o]
      /\ c.cur = t.cur /\ c.exps = t.exps /\ c.nextExp = t.nextExp
  <2>1. c.exps = t.exps /\ c.nextExp = t.nextExp
    BY <1>2, <1>5 DEF InsertRow, Tables
  <2> QED  BY <1>1, <1>2, <1>3, <1>5, <2>1, InsertRowIsTables
<1>8. /\ d \in Tables /\ d.rows = [c.rows EXCEPT ![m] = r]
      /\ d.cur = t.cur /\ d.exps = t.exps /\ d.nextExp = t.nextExp
  <2>1. d.exps = c.exps /\ d.nextExp = c.nextExp
    BY <1>5, <1>7 DEF InsertRow, Tables
  <2> QED  BY <1>2, <1>4, <1>5, <1>7, <2>1, InsertRowIsTables
<1>9. e.rows = d.rows /\ e.cur = t.cur /\ e.exps = t.exps /\ e.nextExp = t.nextExp
  BY <1>5, <1>8 DEF Tables
<1>10. /\ work' = e /\ scope'.pc = "send" /\ scope'.form = f
  BY <1>0, <1>1, <1>6 DEF Step, ScopeType
<1>11. /\ e.rows[n] = o /\ e.rows[m] = r
       /\ \A i \in TxId : i # n /\ i # m => e.rows[i] = t.rows[i]
  <2>1. t.rows \in [TxId -> Row \cup {None}] /\ c.rows \in [TxId -> Row \cup {None}]
    BY <1>2, <1>7 DEF Tables
  <2> QED  BY <1>2, <1>7, <1>8, <1>9, <2>1
<1>12. t.rows[n] = None /\ t.rows[m] = None
  <2>1. \A i \in TxId : Live(t, i) => i < n
    BY <1>0, <1>1 DEF Shape, Families
  <2>2. ~ Live(t, n) /\ ~ Live(t, m)
    BY <1>2, <2>1
  <2> QED  BY <2>2 DEF Live
<1>13. ASSUME NEW a \in Own
       PROVE  e.cur[a] + (Leg(f.asset, - f.amount, a) + Leg(f.linked, f.amount, a)) = Explained(e, a)
  <2>1. Worth(r, a) = 0
    BY <1>2, <1>4 DEF Worth
  <2>2. \A i \in TxId : i # n => Worth(e.rows[i], a) = Worth(t.rows[i], a)
    <3>1. Worth(e.rows[m], a) = 0 /\ Worth(t.rows[m], a) = 0
      BY <1>11, <1>12, <2>1 DEF Worth
    <3> QED  BY <1>11, <3>1
  <2>3. /\ Explained(e, a) = Explained(t, a) + Worth(e.rows[n], a) - Worth(t.rows[n], a)
        /\ Explained(t, a) \in Int
    BY <1>0, <1>2, <1>9, <1>10, <2>2, RowMoves
  <2>4. Worth(e.rows[n], a) = Leg(f.asset, - f.amount, a) + Leg(f.linked, f.amount, a)
    <3>1. o # None
      BY <1>3, NoneIsNothing
    <3>2. TargetLeg(o, a) = Leg(f.asset, - f.amount, a)
      BY <1>3 DEF TargetLeg, HasTarget, Trades, Delta, BalanceIn
    <3>3. LinkedLeg(o, a) = Leg(f.linked, f.amount, a)
      BY <1>3 DEF LinkedLeg, LinkedDelta, LinkedIn
    <3> QED  BY <1>3, <1>11, <3>1, <3>2, <3>3 DEF Worth, Legs
  <2>5. Worth(t.rows[n], a) = 0
    BY <1>12 DEF Worth
  <2>6. Short(a) = 0
    BY DEF WritePair, At, Short
  <2>7. t.cur[a] + Short(a) = Explained(t, a) /\ t.cur[a] \in Int
    BY <1>1, <1>2 DEF MoneyInv, Owing, Tables
  <2>8. Leg(f.asset, - f.amount, a) \in Int /\ Leg(f.linked, f.amount, a) \in Int
    BY <1>2, LegIsInt
  <2> QED  BY <1>9, <2>3, <2>4, <2>5, <2>6, <2>7, <2>8
<1>14. Owing'
  <2>1. \A a \in Own : Short(a)' = Leg(f.asset, - f.amount, a) + Leg(f.linked, f.amount, a)
    BY <1>10 DEF Short
  <2> QED  BY <1>10, <1>13, <2>1 DEF Owing
<1> QED  BY <1>0, <1>1, <1>9, <1>10, <1>14, TxStatementMoney

LEMMA PostingMoney ==
    ASSUME PlainBooks, TypeInv, ShapeInv, MoneyInv, Send \/ Receive \/ Unpay \/ Pay
    PROVE  MoneyInv'
<1>0. /\ work \in Tables /\ rate \in Rates /\ scope \in ScopeType /\ Statements
  BY DEF TypeInv, BooksOK, Statements
<1>1. PICK x, c, m, p :
        /\ Step(Post(work, x, c, m), p)
        /\ x \in Account /\ c \in Currency /\ m \in Int
        /\ Send => /\ p = "receive" /\ x = scope.form.asset /\ m = - scope.form.amount
                   /\ scope.form.amount \in Nat
        /\ Receive => /\ p = "commit" /\ x = scope.form.linked /\ m = scope.form.amount
        /\ Unpay => /\ p = "bill" /\ x = scope.was.asset /\ m = - Credit(scope.was)
        /\ Pay => /\ p = "commit" /\ x = scope.bill.asset /\ m = Credit(scope.bill)
  <2>1. CASE Send \/ Receive
    <3>1. /\ scope.form \in Form /\ scope.form.linked \in Account
      BY <2>1 DEF Send, Receive, At, TypeInv, ScopeOK
    <3>2. /\ scope.form.asset \in Account /\ scope.form.cur \in Currency
          /\ scope.form.amount \in Nat /\ scope.form.amount \in Int /\ - scope.form.amount \in Int
      BY <3>1 DEF Form
    <3> QED  BY <2>1, <3>1, <3>2 DEF Send, Receive, Unpay, Pay, At
  <2>2. CASE Unpay
    <3>1. /\ scope.was.asset \in Account /\ scope.was.cur \in Currency /\ - Credit(scope.was) \in Int
      BY <2>2 DEF Unpay, At, TypeInv, ScopeOK, Bill, Credit
    <3> QED  BY <2>2, <3>1 DEF Send, Receive, Unpay, Pay, At
  <2>3. CASE Pay
    <3>1. /\ scope.bill.asset \in Account /\ scope.bill.cur \in Currency /\ Credit(scope.bill) \in Int
      BY <2>3 DEF Pay, At, TypeInv, ScopeOK, Bill, Credit
    <3> QED  BY <2>3, <3>1 DEF Send, Receive, Unpay, Pay, At
  <2> QED  BY <2>1, <2>2, <2>3
<1>2. PICK d, t : d = Post(t, x, c, m) /\ t = work
  OBVIOUS
<1>3. /\ work' = d /\ scope'.pc = p /\ scope'.form = scope.form /\ scope'.op = scope.op
      /\ scope'.was = scope.was /\ scope'.id = scope.id
  BY <1>0, <1>1, <1>2 DEF Step, ScopeType
<1>4. d.rows = t.rows /\ d.exps = t.exps /\ d.nextExp = t.nextExp
  BY <1>0, <1>2, PostKeeps DEF SameRows
<1>5. ASSUME NEW a \in Own PROVE d.cur[a] + Short(a)' = Explained(d, a)
  <2>1. Explained(d, a) = Explained(t, a)
    BY <1>4, SameExplained
  <2>2. d.cur[a] = t.cur[a] + Leg(x, m, a) /\ Leg(x, m, a) \in Int /\ t.cur[a] \in Int
    BY <1>0, <1>1, <1>2, PostMoves
  <2>3. t.cur[a] + Short(a) = Explained(t, a)
    BY <1>2 DEF MoneyInv, Owing
  <2>4. CASE Send
    <3>1. Short(a) = Leg(x, m, a) + Leg(scope.form.linked, scope.form.amount, a)
      BY <1>1, <2>4 DEF Send, At, Short
    <3>2. Short(a)' = Leg(scope.form.linked, scope.form.amount, a)
      BY <1>1, <1>3, <2>4 DEF Short
    <3>3. Leg(scope.form.linked, scope.form.amount, a) \in Int
      BY <1>1, <2>4, LegIsInt
    <3> QED  BY <2>1, <2>2, <2>3, <3>1, <3>2, <3>3
  <2>5. CASE Receive
    <3>1. Short(a) = Leg(x, m, a)
      BY <1>1, <2>5 DEF Receive, At, Short
    <3>2. Short(a)' = 0
      BY <1>1, <1>3, <2>5 DEF Short
    <3> QED  BY <2>1, <2>2, <2>3, <3>1, <3>2
  <2>6. CASE Unpay
    <3>1. Short(a) = 0
      BY <2>6 DEF Unpay, At, Short
    <3>2. scope.op = "bill_edit" /\ scope.was \in Bill
      BY <2>6 DEF Unpay, At, TypeInv, ScopeOK
    <3>3. Short(a)' = BillEffect(scope.was, a)
      BY <1>1, <1>3, <2>6, <3>2 DEF Short
    <3>4. BillEffect(scope.was, a) = Leg(x, Credit(scope.was), a) /\ Credit(scope.was) \in Int
      BY <1>0, <1>1, <2>6, <3>2, WorthOfBill
    <3>5. Leg(x, m, a) = - Leg(x, Credit(scope.was), a) /\ Leg(x, Credit(scope.was), a) \in Int
      BY <1>1, <2>6, <3>4, LegIsInt
    <3> QED  BY <2>1, <2>2, <2>3, <3>1, <3>3, <3>4, <3>5
  <2>7. CASE Pay
    <3>1. Short(a) = BillEffect(scope.bill, a) /\ scope.bill \in Bill
      BY <2>7 DEF Pay, At, Short, TypeInv, ScopeOK
    <3>2. Short(a)' = 0
      BY <1>1, <1>3, <2>7 DEF Short
    <3>3. BillEffect(scope.bill, a) = Leg(x, m, a)
      BY <1>0, <1>1, <2>7, <3>1, WorthOfBill
    <3> QED  BY <2>1, <2>2, <2>3, <3>1, <3>2, <3>3
  <2> QED  BY <2>4, <2>5, <2>6, <2>7
<1>6. Owing'
  BY <1>3, <1>5 DEF Owing
<1>7. Numbered(work')
  BY <1>2, <1>3, <1>4 DEF MoneyInv, BillKnown, Numbered
<1>8. scope'.pc \in {"unpay", "bill"} /\ scope'.op = "bill_edit" =>
         scope'.id \in ExpId /\ work'.exps[scope'.id] = scope'.was
  <2>1. scope'.pc \in {"unpay", "bill"} => Unpay
    BY <1>1, <1>3
  <2>2. Unpay => scope.id \in ExpId /\ work.exps[scope.id] = scope.was
    BY DEF Unpay, At, MoneyInv, BillKnown, TypeInv, ScopeOK
  <2> QED  BY <1>2, <1>3, <1>4, <2>1, <2>2
<1> QED  BY <1>0, <1>6, <1>7, <1>8, StatementMoney

LEMMA WriteBillMoney ==
    ASSUME PlainBooks, TypeInv, TypeInv', MoneyInv, WriteBill
    PROVE  MoneyInv'
<1>0. /\ work \in Tables /\ work' \in Tables /\ scope \in ScopeType /\ Statements /\ At("bill")
      /\ scope.op \in {"bill_new", "bill_edit"} /\ scope.bill \in Bill \cup {None}
  BY DEF TypeInv, BooksOK, ScopeOK, Statements, WriteBill, ScopeType, At
<1>1. PICK t, b, n, p : /\ t = work /\ b = scope.bill
                        /\ n = IF scope.op = "bill_new" THEN t.nextExp ELSE scope.id
                        /\ p = IF b = None THEN "commit" ELSE "pay"
  OBVIOUS
<1>2. PICK e : /\ Step(e, p)
               /\ e = IF scope.op = "bill_new" THEN [t EXCEPT !.exps[n] = b, !.nextExp = @ + 1]
                      ELSE [t EXCEPT !.exps[n] = b]
  BY <1>1 DEF WriteBill
<1>3. /\ n \in ExpId /\ t \in Tables /\ t.nextExp \in Nat
      /\ scope.op = "bill_new" => b \in Bill
      /\ scope.op = "bill_edit" => t.exps[n] = scope.was
  BY <1>0, <1>1 DEF TypeInv, ScopeOK, At, MoneyInv, BillKnown, Tables
<1>4. /\ work' = e /\ scope'.pc = p /\ scope'.bill = b
  BY <1>0, <1>1, <1>2 DEF Step, ScopeType
<1>5. /\ e.rows = t.rows /\ e.cur = t.cur /\ e.exps[n] = b
      /\ \A i \in ExpId : i # n => e.exps[i] = t.exps[i]
      /\ e.nextExp = IF scope.op = "bill_new" THEN t.nextExp + 1 ELSE t.nextExp
  BY <1>2, <1>3 DEF Tables
<1>6. \A i \in ExpId : t.exps[i] # None => i < t.nextExp
  BY <1>1 DEF MoneyInv, BillKnown, Numbered
<1>7. ExpId \subseteq Nat
  BY BoundsAssumption DEF ExpId
<1>8. scope.op = "bill_new" => t.exps[n] = None
  BY <1>1, <1>3, <1>6, <1>7
<1>9. scope.op = "bill_edit" => n < t.nextExp \/ t.exps[n] = None
  BY <1>3, <1>6
<1>10. ASSUME NEW a \in Own PROVE e.cur[a] + BillEffect(b, a) = Explained(e, a)
  <2>1. /\ Explained(e, a) = Explained(t, a) + BillEffect(e.exps[n], a) - BillEffect(t.exps[n], a)
        /\ Explained(t, a) \in Int /\ BillEffect(e.exps[n], a) \in Int /\ BillEffect(t.exps[n], a) \in Int
    BY <1>0, <1>3, <1>4, <1>5, BillMoves
  <2>2. Short(a) = BillEffect(t.exps[n], a)
    <3>1. CASE scope.op = "bill_new"
      BY <1>0, <1>8, <3>1 DEF Short, At, BillEffect
    <3>2. CASE scope.op = "bill_edit"
      BY <1>0, <1>3, <3>2 DEF Short, At
    <3> QED  BY <1>0, <3>1, <3>2
  <2>3. t.cur[a] + Short(a) = Explained(t, a) /\ t.cur[a] \in Int
    BY <1>1, <1>3 DEF MoneyInv, Owing, Tables
  <2> QED  BY <1>5, <2>1, <2>2, <2>3
<1>11. Owing'
  <2>1. \A a \in Own : Short(a)' = BillEffect(b, a)
    <3>1. CASE b = None
      BY <1>1, <1>4, <3>1 DEF Short, BillEffect
    <3>2. CASE b # None
      BY <1>1, <1>4, <3>2 DEF Short
    <3> QED  BY <3>1, <3>2
  <2> QED  BY <1>4, <1>10, <2>1 DEF Owing
<1>12. Numbered(work')
  <2> SUFFICES ASSUME NEW i \in ExpId, e.exps[i] # None PROVE i < e.nextExp
    BY <1>4 DEF Numbered
  <2>1. CASE i # n
    <3>1. i < t.nextExp /\ i \in Nat
      BY <1>5, <1>6, <1>7, <2>1
    <3> QED  BY <1>3, <1>5, <3>1
  <2>2. CASE i = n /\ scope.op = "bill_new"
    BY <1>1, <1>3, <1>5, <2>2
  <2>3. CASE i = n /\ scope.op # "bill_new"
    BY <1>0, <1>1, <1>5, <1>6, <1>3, <2>3 DEF WriteBill
  <2> QED  BY <2>1, <2>2, <2>3
<1>13. scope'.pc \notin {"unpay", "bill"}
  BY <1>1, <1>4
<1> QED  BY <1>0, <1>11, <1>12, <1>13, StatementMoney

\* A replay ends with the balances it began with.
LEMMA ReplayMoney ==
    ASSUME TypeInv, MoneyInv, AuditInv, AuditInv', ReplayStart \/ ReplayEntry \/ ReplayStore
    PROVE  MoneyInv'
<1>0. scope.op = "rebuild" /\ Statements /\ scope \in ScopeType
  BY DEF TypeInv, BooksOK, ScopeOK, At, Statements, ReplayStart, ReplayEntry, ReplayStore
<1>1. db' = db /\ scope'.op = scope.op
  BY <1>0, StatementFrame
<1>2. work = db /\ work' = db
  BY <1>0, <1>1 DEF AuditInv, RebuildIdle
<1>3. scope'.pc \in {"replay", "rebuild", "commit"}
  BY <1>0 DEF ReplayStart, ReplayEntry, ReplayStore, ScopeType, At
<1>4. Owing'
  <2>1. \A a \in Own : Short(a) = 0 /\ Short(a)' = 0
    BY <1>3 DEF Short, ReplayStart, ReplayEntry, ReplayStore, At
  <2> QED  BY <1>2, <2>1 DEF MoneyInv, Owing
<1> QED  BY <1>0, <1>2, <1>3, <1>4, TxStatementMoney

-----------------------------------------------------------------------------
(* The balances and the requests: with one worker nothing comes between the  *)
(* reading of a bill and the scope that changes it                           *)

LEMMA RequestMoney ==
    ASSUME PlainBooks, TypeInv, ShapeInv, MoneyInv, NEW w \in Workers, Request(w)
    PROVE  MoneyInv'
<1>0. /\ db \in Tables /\ work \in Tables /\ scope \in ScopeType
      /\ seen \in [Workers -> SeenType \cup {None}] /\ \A v \in Workers : v = w
  BY DEF TypeInv, BooksOK, PlainBooks
<1>1. CASE ReadTx(w) \/ ReadBill(w)
  <2>1. db' = db /\ work' = work /\ scope' = scope
    BY <1>1 DEF ReadTx, ReadBill
  <2>2. NoScope
    <3>1. scope.by # w
      BY <1>1 DEF ReadTx, ReadBill, Free
    <3> QED  BY <1>0, <3>1 DEF MoneyInv, ScopeKnown
  <2>3. seen'[w] # None /\ seen'[w].kind = "bill" => db.exps[seen'[w].id] = seen'[w].was
    <3>1. CASE ReadTx(w)
      BY <1>0, <3>1 DEF ReadTx
    <3>2. CASE ReadBill(w)
      BY <1>0, <3>2 DEF ReadBill
    <3> QED  BY <1>1, <3>1, <3>2
  <2>4. BillKnown'
    <3>1. \A v \in Workers : seen'[v] # None =>
             /\ NoScope'
             /\ seen'[v].kind = "bill" => db'.exps[seen'[v].id] = seen'[v].was
      BY <1>0, <2>1, <2>2, <2>3 DEF NoScope
    <3> QED  BY <2>1, <3>1 DEF MoneyInv, BillKnown
  <2> QED  BY <2>1, <2>4 DEF MoneyInv, Settled, Owing, Short, ScopeKnown, NoScope
<1>2. CASE Refuse(w)
  <2>1. db' = db /\ work' = work /\ scope' = scope /\ \A v \in Workers : seen'[v] = None
    BY <1>0, <1>2 DEF Refuse
  <2> QED  BY <2>1 DEF MoneyInv, Settled, Owing, Short, BillKnown, ScopeKnown, NoScope
<1>3. ASSUME NEW s \in ScopeType, Open(w, s), s.op # "income",
             \/ s.pc \in {"revfee", "pair", "rebuild"}
             \/ s.pc = "row" /\ s.op = "create"
             \/ s.pc = "bill" /\ s.op = "bill_new"
             \/ s.pc = "unpay" /\ s.id \in ExpId /\ db.exps[s.id] = s.was
      PROVE  MoneyInv'
  <2>1. NoScope
    BY <1>3 DEF Open
  <2>2. db' = db /\ work' = work /\ work = db
    BY <1>3, <2>1 DEF Open, TypeInv, ScopeOK
  <2>3. scope' = [s EXCEPT !.by = w]
    BY <1>3 DEF Open
  <2>4. /\ scope'.pc = s.pc /\ scope'.op = s.op /\ scope'.id = s.id /\ scope'.was = s.was /\ scope'.by = w
    BY <2>3 DEF ScopeType
  <2>5. \A v \in Workers : seen'[v] = None
    BY <1>0, <1>3 DEF Open
  <2>6. \A a \in Own : Short(a) = 0 /\ Short(a)' = 0
    <3>1. scope.pc = "idle"
      BY <2>1 DEF TypeInv, ScopeOK, At
    <3>2. \A a \in Own : Short(a) = 0
      BY <3>1 DEF Short
    <3>3. \A a \in Own : Short(a)' = 0
      BY <1>3, <2>4 DEF Short
    <3> QED  BY <3>2, <3>3
  <2>7. BillKnown'
    BY <1>3, <2>2, <2>4, <2>5 DEF MoneyInv, BillKnown
  <2>8. ScopeKnown'
    BY <1>3, <2>4 DEF ScopeKnown
  <2> QED  BY <2>2, <2>6, <2>7, <2>8 DEF MoneyInv, Settled, Owing
<1>4. CASE CreateTx(w)
  <2>1. PICK o \in Orders : Open(w, [Idle EXCEPT !.op = "create", !.pc = "row", !.form = o])
    BY <1>4 DEF CreateTx
  <2>2. o \in Form
    BY FormsAreTyped
  <2>3. PICK s : s = [Idle EXCEPT !.op = "create", !.pc = "row", !.form = o]
    OBVIOUS
  <2>4. s \in ScopeType /\ s.op = "create" /\ s.pc = "row"
    <3>1. "create" \in Op /\ "row" \in Pc  BY DEF Op, Pc
    <3> QED  BY <2>2, <2>3, <3>1, IdleType DEF ScopeType
  <2> QED  BY <1>3, <2>1, <2>3, <2>4
<1>5. CASE UpdateTx(w)
  <2>1. PICK n : n = seen[w]
    OBVIOUS
  <2>2. /\ n # None /\ n.kind = "tx" /\ Live(db, n.id)
        /\ Open(w, [Idle EXCEPT !.op = "update", !.pc = "revfee", !.id = n.id,
                              !.old = db.rows[n.id], !.form = n.form])
    BY <1>5, <2>1 DEF UpdateTx
  <2>3. n.id \in TxId /\ n.form \in Form
    BY <1>0, <2>1, <2>2 DEF TypeInv, SeenOK
  <2>4. db.rows[n.id] \in Row
    BY <1>0, <2>2, <2>3 DEF Live, Tables
  <2>5. PICK id, old, form : id = n.id /\ old = db.rows[n.id] /\ form = n.form
    OBVIOUS
  <2>6. id \in Nat /\ old \in Row /\ form \in Form
    BY <2>3, <2>4, <2>5, BoundsAssumption DEF TxId
  <2>7. PICK s : s = [Idle EXCEPT !.op = "update", !.pc = "revfee", !.id = id, !.old = old, !.form = form]
    OBVIOUS
  <2>8. s \in ScopeType /\ s.op = "update" /\ s.pc = "revfee"
    <3>1. "update" \in Op /\ "revfee" \in Pc  BY DEF Op, Pc
    <3> QED  BY <2>6, <2>7, <3>1, IdleType DEF ScopeType
  <2>9. Open(w, s)
    BY <2>2, <2>5, <2>7
  <2> QED  BY <1>3, <2>8, <2>9
<1>6. CASE DeleteTx(w)
  <2>1. PICK i \in TxId : /\ Live(db, i) /\ Live(db, MainOf(db, i))
                          /\ Open(w, [Idle EXCEPT !.op = "delete", !.pc = "revfee", !.self = i,
                                        !.id = MainOf(db, i), !.old = db.rows[MainOf(db, i)]])
    BY <1>6 DEF DeleteTx
  <2>2. PICK m, old : m = MainOf(db, i) /\ old = db.rows[m]
    OBVIOUS
  <2>3. m \in TxId
    <3>1. db.rows[i].type = "transfer_in" => db.rows[i].parent # None
      BY <2>1 DEF ShapeInv, Shape, Families
    <3>2. db.rows[i].parent \in TxId \cup {None}
      BY <1>0, <2>1 DEF Live, Tables, Row
    <3> QED  BY <2>1, <2>2, <3>1, <3>2, NoneIsNothing DEF MainOf
  <2>4. m \in Nat /\ old \in Row
    BY <1>0, <2>1, <2>2, <2>3, BoundsAssumption DEF Live, Tables, TxId
  <2>5. PICK s : s = [Idle EXCEPT !.op = "delete", !.pc = "revfee", !.self = i, !.id = m, !.old = old]
    OBVIOUS
  <2>6. s \in ScopeType /\ s.op = "delete" /\ s.pc = "revfee"
    <3>1. "delete" \in Op /\ "revfee" \in Pc  BY DEF Op, Pc
    <3> QED  BY <2>1, <2>4, <2>5, <3>1, IdleType DEF ScopeType
  <2>7. Open(w, s)
    BY <2>1, <2>2, <2>5
  <2> QED  BY <1>3, <2>6, <2>7
<1>7. CASE CreateTransfer(w)
  <2>1. PICK m \in Moves :
          Open(w, [Idle EXCEPT !.op = "transfer", !.pc = "pair",
                     !.form = [type |-> "transfer_out", asset |-> m.from,
                               linked |-> m.to, amount |-> m.amount, fee |-> 0,
                               cur |-> m.cur]])
    BY <1>7 DEF CreateTransfer
  <2>2. PICK f : f = [type |-> "transfer_out", asset |-> m.from, linked |-> m.to,
                      amount |-> m.amount, fee |-> 0, cur |-> m.cur]
    OBVIOUS
  <2>3. f \in Form
    BY <2>2, InputsAssumption DEF Form, Move, TxType, AnyAccount
  <2>4. PICK s : s = [Idle EXCEPT !.op = "transfer", !.pc = "pair", !.form = f]
    OBVIOUS
  <2>5. s \in ScopeType /\ s.op = "transfer" /\ s.pc = "pair"
    <3>1. "transfer" \in Op /\ "pair" \in Pc  BY DEF Op, Pc
    <3> QED  BY <2>3, <2>4, <3>1, IdleType DEF ScopeType
  <2>6. Open(w, s)
    BY <2>1, <2>2, <2>4
  <2> QED  BY <1>3, <2>5, <2>6
<1>8. CASE ConfirmIncome(w)
  BY <1>8 DEF ConfirmIncome, PlainBooks
<1>9. CASE CreateBill(w)
  <2>1. PICK b \in Bills : Open(w, [Idle EXCEPT !.op = "bill_new", !.pc = "bill", !.bill = b])
    BY <1>9 DEF CreateBill
  <2>2. PICK s : s = [Idle EXCEPT !.op = "bill_new", !.pc = "bill", !.bill = b]
    OBVIOUS
  <2>3. s \in ScopeType /\ s.op = "bill_new" /\ s.pc = "bill"
    <3>1. "bill_new" \in Op /\ "bill" \in Pc  BY DEF Op, Pc
    <3> QED  BY <2>1, <2>2, <3>1, IdleType, FormsAreTyped DEF ScopeType
  <2> QED  BY <1>3, <2>1, <2>2, <2>3
<1>10. CASE ChangeBill(w)
  <2>1. PICK n : n = seen[w]
    OBVIOUS
  <2>2. /\ n # None /\ n.kind = "bill"
        /\ Open(w, [Idle EXCEPT !.op = "bill_edit", !.pc = "unpay", !.id = n.id,
                              !.was = n.was, !.bill = n.bill])
    BY <1>10, <2>1 DEF ChangeBill
  <2>3. n \in SeenType /\ n.id \in ExpId /\ n.was \in Bill /\ db.exps[n.id] = n.was
    BY <1>0, <2>1, <2>2 DEF TypeInv, SeenOK, MoneyInv, BillKnown
  <2>4. PICK id, was, bill : id = n.id /\ was = n.was /\ bill = n.bill
    OBVIOUS
  <2>5. id \in Nat /\ was \in Bill /\ bill \in Bill \cup {None}
    BY <2>3, <2>4 DEF SeenType
  <2>6. PICK s : s = [Idle EXCEPT !.op = "bill_edit", !.pc = "unpay", !.id = id, !.was = was, !.bill = bill]
    OBVIOUS
  <2>7. s \in ScopeType /\ s.op = "bill_edit" /\ s.pc = "unpay" /\ s.id = id /\ s.was = was
    <3>1. "bill_edit" \in Op /\ "unpay" \in Pc  BY DEF Op, Pc
    <3> QED  BY <2>5, <2>6, <3>1, IdleType DEF ScopeType
  <2>8. Open(w, s)
    BY <2>2, <2>4, <2>6
  <2> QED  BY <1>3, <2>3, <2>4, <2>7, <2>8
<1>11. CASE Rebuild(w)
  <2>1. PICK S \in {{a} : a \in Own} \cup {Own} : Open(w, [Idle EXCEPT !.op = "rebuild", !.pc = "rebuild", !.todo = S])
    BY <1>11 DEF Rebuild
  <2>2. PICK s : s = [Idle EXCEPT !.op = "rebuild", !.pc = "rebuild", !.todo = S]
    OBVIOUS
  <2>3. s \in ScopeType /\ s.op = "rebuild" /\ s.pc = "rebuild"
    <3>1. "rebuild" \in Op /\ "rebuild" \in Pc  BY DEF Op, Pc
    <3>2. S \in SUBSET Own  BY <2>1
    <3> QED  BY <2>2, <3>1, <3>2, IdleType DEF ScopeType
  <2> QED  BY <1>3, <2>1, <2>2, <2>3
<1> QED  BY <1>1, <1>2, <1>4, <1>5, <1>6, <1>7, <1>8, <1>9, <1>10, <1>11 DEF Request

LEMMA EndMoney ==
    ASSUME TypeInv, MoneyInv, Commit \/ Rollback \/ SetRate \/ UNCHANGED books
    PROVE  MoneyInv'
<1>0. db \in Tables /\ work \in Tables /\ scope \in ScopeType
  BY DEF TypeInv, BooksOK
<1>1. CASE Commit \/ Rollback
  <2>1. /\ ~ NoScope /\ scope' = Idle /\ seen' = seen
        /\ \/ db' = work /\ work' = work /\ scope.pc = "commit"
           \/ db' = db /\ work' = db
    BY <1>1 DEF Commit, Rollback, At, TypeInv, ScopeOK
  <2>2. scope'.pc = "idle" /\ scope'.op = "none"
    BY <2>1 DEF Idle
  <2>3. \A w \in Workers : seen'[w] = None
    BY <2>1 DEF MoneyInv, BillKnown
  <2>4. \A a \in Own : Short(a)' = 0
    BY <2>2 DEF Short
  <2>5. \A a \in Own : db'.cur[a] = Explained(db', a) /\ db'.cur[a] \in Int
    <3>1. CASE db' = db
      BY <1>0, <3>1 DEF MoneyInv, Settled, Tables
    <3>2. CASE db' = work /\ scope.pc = "commit"
      <4>1. \A a \in Own : Short(a) = 0 /\ work.cur[a] \in Int
        BY <1>0, <3>2 DEF Short, Tables
      <4> QED  BY <3>2, <4>1 DEF MoneyInv, Owing
    <3> QED  BY <2>1, <3>1, <3>2
  <2>6. work' = db'
    BY <2>1
  <2>7. Settled' /\ Owing'
    BY <2>4, <2>5, <2>6 DEF Settled, Owing
  <2>8. Numbered(db') /\ Numbered(work')
    BY <2>1 DEF MoneyInv, BillKnown
  <2>9. BillKnown' /\ ScopeKnown'
    BY <2>2, <2>3, <2>8 DEF BillKnown, ScopeKnown, NoScope
  <2> QED  BY <2>7, <2>9 DEF MoneyInv
<1>2. CASE SetRate \/ UNCHANGED books
  <2>1. db' = db /\ work' = work /\ scope' = scope /\ seen' = seen
    BY <1>2 DEF SetRate, books
  <2> QED  BY <2>1 DEF MoneyInv, Settled, Owing, Short, BillKnown, ScopeKnown, NoScope
<1> QED  BY <1>1, <1>2

LEMMA InitMoney == PlainBooks /\ Init => MoneyInv
<1> SUFFICES ASSUME PlainBooks, Init PROVE MoneyInv
  OBVIOUS
<1>1. /\ db.cur = Opening /\ work = db /\ scope.pc = "idle" /\ scope.op = "none"
      /\ (\A i \in TxId : db.rows[i] = None) /\ (\A e \in ExpId : db.exps[e] = None)
      /\ \A w \in Workers : seen[w] = None
  BY DEF Init, Idle
<1>2. ASSUME NEW a \in Own PROVE Explained(db, a) = Opening[a] /\ Opening[a] \in Int
  <2>1. PICK f, g : f = RowWorth(db, a) /\ g = BillWorth(db, a)
    OBVIOUS
  <2>2. f = [k \in 1 .. MaxTx |-> 0]
    BY <1>1, <2>1 DEF RowWorth, Live, TxId
  <2>3. g = [k \in 1 .. MaxExp |-> 0]
    BY <1>1, <2>1 DEF BillWorth, BillEffect, ExpId
  <2>4. Total(f, MaxTx) = 0 /\ Total(g, MaxExp) = 0
    BY <2>2, <2>3, TotalOfZeros, BoundsAssumption
  <2>5. Opening[a] \in Int
    BY AccountsAssumption
  <2> QED  BY <2>1, <2>4, <2>5 DEF Explained
<1>3. Settled
  BY <1>1, <1>2 DEF Settled
<1>4. Owing
  BY <1>1, <1>2 DEF Owing, Short
<1>5. BillKnown /\ ScopeKnown
  BY <1>1 DEF BillKnown, Numbered, ScopeKnown, NoScope
<1> QED  BY <1>3, <1>4, <1>5 DEF MoneyInv

LEMMA StatementsMoney ==
    ASSUME PlainBooks, TypeInv, TypeInv', AuditInv, AuditInv', ShapeInv, ShapeInv', MoneyInv, Statements
    PROVE  MoneyInv'
<1>1. CASE ReverseFee \/ ReverseTarget \/ ReverseLinked
  BY <1>1, ReverseMoney
<1>2. CASE WriteRow
  BY <1>2, WriteRowMoney
<1>3. CASE ApplyFee \/ ApplyTarget \/ ApplyLinked \/ StampRate
  BY <1>3, ApplyMoney
<1>4. CASE EraseRows
  BY <1>4, EraseMoney
<1>5. CASE WritePair
  BY <1>5, PairMoney
<1>6. CASE Send \/ Receive \/ Unpay \/ Pay
  BY <1>6, PostingMoney
<1>7. CASE WriteBill
  BY <1>7, WriteBillMoney
<1>8. CASE ReplayStart \/ ReplayEntry \/ ReplayStore
  BY <1>8, ReplayMoney
<1> QED  BY <1>1, <1>2, <1>3, <1>4, <1>5, <1>6, <1>7, <1>8 DEF Statements

FactsInv == TypeInv /\ AuditInv /\ ShapeInv /\ MoneyInv
LEMMA SerialFacts == PlainBooks /\ FactsInv /\ [Serial]_books => FactsInv'
<1> SUFFICES ASSUME PlainBooks, FactsInv, [Serial]_books PROVE FactsInv'
  OBVIOUS
<1>2. FactsInv'
  <2>1. WholeTransfers
    BY DEF PlainBooks
  <2>2. TypeInv' /\ AuditInv' /\ ShapeInv'
    BY <2>1, SerialTypes, SerialAudit, SerialShape DEF FactsInv
  <2>3. CASE Statements
    BY <2>2, <2>3, StatementsMoney DEF FactsInv
  <2>4. ASSUME NEW w \in Workers, Request(w) PROVE MoneyInv'
    BY <2>4, RequestMoney DEF FactsInv
  <2>5. CASE Commit \/ Rollback \/ SetRate \/ UNCHANGED books
    <3>1. TypeInv /\ MoneyInv
      BY DEF FactsInv
    <3>2. MoneyInv'
      BY ONLY <2>5, <3>1, EndMoney
    <3> QED  BY <2>2, <3>2 DEF FactsInv
  <2> QED  BY <2>2, <2>3, <2>4, <2>5 DEF FactsInv, Serial
<1> QED  BY <1>2

\* Until a statement fails unseen.
FactsKept == TypeInv /\ AuditInv /\ (~lapsed => FactsInv)
LEMMA FactsHold == PlainBooks => (Spec => []FactsKept)
<1> SUFFICES ASSUME PlainBooks PROVE Spec => []FactsKept
  OBVIOUS
<1>1. Init => FactsKept
  BY InitTypes, InitAudit, InitShape, InitMoney DEF FactsInv, FactsKept
<1>2. FactsKept /\ [Next]_vars => FactsKept'
  <2> SUFFICES ASSUME FactsKept, [Next]_vars PROVE FactsKept'
    OBVIOUS
  <2>1. TypeInv' /\ AuditInv'
    BY NextTypes, NextAudit DEF FactsKept
  <2>2. ASSUME ~lapsed' PROVE FactsInv'
    <3>1. [Serial]_books /\ lapsed' = lapsed  BY <2>2, StepKinds
    <3> QED  BY <2>2, <3>1, SerialFacts DEF FactsKept
  <2> QED  BY <2>1, <2>2 DEF FactsKept
<1> QED  BY <1>1, <1>2, PTL DEF Spec

(* Every committed balance is the opening balance and the effects of the     *)
(* rows and bills that exist, for every set of accounts, forms and bounds:   *)
(* whatever is created, edited and deleted, whichever statement fails of     *)
(* those the code checks, until one fails that it does not check; with one   *)
(* worker and one currency.                                                  *)
THEOREM ReconciledAlways == PlainBooks => (Spec => []Reconciled)
<1> SUFFICES ASSUME PlainBooks PROVE Spec => []Reconciled
  OBVIOUS
<1>1. FactsKept => Reconciled
  BY DEF FactsKept, FactsInv, MoneyInv, Settled, Reconciled, Undisturbed
<1>2. Spec => []FactsKept
  BY FactsHold
<1> QED  BY <1>1, <1>2, PTL

(* A ledger from which every row and bill has been deleted again is back at  *)
(* its opening balances, under the same hypothesis.                          *)
THEOREM NothingLeftAlways == PlainBooks => (Spec => []NothingLeftBehind)
<1> SUFFICES ASSUME PlainBooks PROVE Spec => []NothingLeftBehind
  OBVIOUS
<1>1. FactsKept => NothingLeftBehind
  <2> SUFFICES ASSUME FactsKept, FactsInv, \A i \in TxId : ~ Live(db, i), \A e \in ExpId : db.exps[e] = None
               PROVE  db.cur = Opening
    BY DEF FactsKept, NothingLeftBehind, Undisturbed
  <2>1. db.cur \in [Own -> Int] /\ Opening \in [Own -> Int]
    BY AccountsAssumption DEF FactsInv, TypeInv, BooksOK, Tables
  <2>2. ASSUME NEW a \in Own PROVE db.cur[a] = Opening[a]
    <3>1. PICK f, g : f = RowWorth(db, a) /\ g = BillWorth(db, a)
      OBVIOUS
    <3>2. f = [k \in 1 .. MaxTx |-> 0]
      BY <3>1 DEF RowWorth, TxId
    <3>3. g = [k \in 1 .. MaxExp |-> 0]
      BY <3>1 DEF BillWorth, BillEffect, ExpId
    <3>4. Total(f, MaxTx) = 0 /\ Total(g, MaxExp) = 0
      BY <3>2, <3>3, TotalOfZeros, BoundsAssumption
    <3>5. db.cur[a] = Opening[a] + Total(f, MaxTx) + Total(g, MaxExp)
      BY <3>1 DEF FactsInv, MoneyInv, Settled, Explained
    <3> QED  BY <2>1, <3>4, <3>5
  <2> QED  BY <2>1, <2>2
<1>2. Spec => []FactsKept
  BY FactsHold
<1> QED  BY <1>1, <1>2, PTL
=============================================================================
