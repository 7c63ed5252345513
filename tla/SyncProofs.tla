---------------------------- MODULE SyncProofs ----------------------------
(***************************************************************************)
(* A client and a server that have to end up with the same.                *)
(*                                                                         *)
(* The offline writes of the mobile client, for any number of writes and   *)
(* of failures: none is lost before a logout, and a placeholder the server *)
(* has named is not sent any more, but for what a write brought back that  *)
(* was awaited meanwhile.  The second needs an order: an item is queued    *)
(* after the creation of the account it knows, so that no item before the  *)
(* creation has its placeholder and renaming the later ones is enough.     *)
(*                                                                         *)
(* The conversation, for any number of chats, answers and pages: the page  *)
(* shows one chat, and at rest the rows of that chat.  The second needs    *)
(* how far an answer has come: of the last two messages, what the server   *)
(* stored and what of that is still on its way.                            *)
(***************************************************************************)
EXTENDS OfflineSync, Chat, FiniteSetTheorems, SequenceTheorems, TLAPS
-----------------------------------------------------------------------------
(* The invariant                                                             *)

Tables == {"accounts", "assets"}
Items == [table : Tables, op : {"create", "update", "delete"}, id : Int, ref : Int,
          write : Nat \ {0}, synced : BOOLEAN, conflict : BOOLEAN]
LocalRows == [table : Tables, id : Int, ref : Int, gone : BOOLEAN]
ServerRows == [table : Tables, id : Nat \ {0}, ref : Nat]
Waiting == {i \in DOMAIN queue : ~ queue[i].synced}

(* An item or a row names one account: itself, or the one an asset is of.    *)
Name(r) == IF r.table = "accounts" THEN r.id ELSE r.ref
Plain(r) == r.table = "accounts" => r.ref \in Nat
(* A placeholder comes from the creation of an account, kept in the queue.   *)
Known(n, k) == n \in Nat \/ \E c \in DOMAIN queue : c <= k /\ AnswersId(queue[c]) /\ queue[c].id = n
Fresh(r) == Name(r) \notin renamed \ late
OwnName(q) == AnswersId(q) => q.id = Placeholder(q.write)

SyncTypes ==
    /\ local \in SUBSET LocalRows /\ server \in SUBSET ServerRows
    /\ queue \in Seq(Items) /\ awaited \in SUBSET Items
    /\ stage \in {"idle", "push"} \union Tables /\ login \in {"in", "leaving", "out"}
    /\ ids \in Nat /\ writes \in Nat /\ applied \in SUBSET Nat
    /\ \A n \in renamed : n \in Int /\ n < 0

(* The round goes through items that wait, and what is sent is one of them.  *)
RoundWaits == /\ round \in SUBSET Waiting
              /\ flight # NoRequest => /\ flight.item \in round
                                       /\ flight.req = queue[flight.item]
(* Also after a logout it names no account by a placeholder of before.       *)
SentFresh == flight # NoRequest => /\ flight.req \in Items /\ Plain(flight.req)
                                   /\ Fresh(flight.req)

(* A write is in one place.                                                  *)
WritesApart ==
    /\ \A i, j \in DOMAIN queue : queue[i].write = queue[j].write => i = j
    /\ \A i \in DOMAIN queue : queue[i].write <= writes
    /\ \A q \in awaited : q.write <= writes /\ \A i \in DOMAIN queue : queue[i].write # q.write
    /\ \A p, q \in awaited : p.write = q.write => p = q

(* An item knows the accounts created before it, a row all of them; a write  *)
(* that is awaited may have created one.                                     *)
QueueKnows == \A i \in DOMAIN queue : /\ Plain(queue[i]) /\ OwnName(queue[i])
                                      /\ Known(Name(queue[i]), i)
RowsKnow == \A r \in local : Plain(r) /\ Known(Name(r), Len(queue))
AwaitedKnow == \A q \in awaited :
    /\ Plain(q) /\ OwnName(q) /\ ~ q.synced
    /\ login # "out" => AnswersId(q) \/ Known(Name(q), Len(queue))

(* A placeholder that was renamed is nobody's any more, but for the late.    *)
AllFresh == (\A i \in Waiting : Fresh(queue[i])) /\ (\A r \in local : Fresh(r))

SyncInv == /\ SyncTypes /\ SentFresh /\ NothingLost
           /\ (login # "out" => RoundWaits)
           /\ WritesApart /\ QueueKnows /\ RowsKnow /\ AwaitedKnow /\ AllFresh

-----------------------------------------------------------------------------
(* What the invariant says of an item, a row, a request                      *)

LEMMA QueueTable ==
  ASSUME SyncTypes
  PROVE  /\ queue \in Seq(Items) /\ Len(queue) \in Nat /\ DOMAIN queue = 1 .. Len(queue)
         /\ \A i \in DOMAIN queue : queue[i] \in Items
  BY DEF SyncTypes

LEMMA ItemFacts ==
  ASSUME SyncInv, NEW i \in DOMAIN queue
  PROVE  /\ i \in Nat \ {0} /\ i <= Len(queue) /\ queue[i] \in Items /\ queue[i].write <= writes
         /\ Plain(queue[i]) /\ OwnName(queue[i]) /\ Known(Name(queue[i]), i)
  BY QueueTable DEF SyncInv, QueueKnows, WritesApart

LEMMA FlightFacts ==
  ASSUME SyncInv, InFlight
  PROVE  /\ flight.item \in round /\ flight.item \in DOMAIN queue
         /\ ~ queue[flight.item].synced /\ flight.req = queue[flight.item]
         /\ flight.req \in Items /\ Plain(flight.req)
  BY DEF SyncInv, RoundWaits, Waiting, InFlight, SentFresh

LEMMA AwaitedFacts ==
  ASSUME SyncInv, NEW q \in awaited
  PROVE  /\ q \in Items /\ Plain(q) /\ OwnName(q) /\ ~ q.synced /\ q.write <= writes
         /\ \A i \in DOMAIN queue : queue[i].write # q.write
  BY DEF SyncInv, SyncTypes, AwaitedKnow, WritesApart

LEMMA ServerRow ==
  ASSUME SyncTypes, NEW table, NEW id, HasRow(server, table, id)
  PROVE  id \in Nat \ {0}
  BY DEF SyncTypes, HasRow, Rows, ServerRows

(* The server gives numbers from one on, and its rows refer to such numbers. *)
LEMMA ServeTyped ==
  ASSUME SyncTypes, NEW q \in Items, Plain(q), Accepts(q), Serve(q)
  PROVE  /\ server' \in SUBSET ServerRows
         /\ ids' \in Nat /\ (q.op = "create" => ids' \in Nat \ {0})
         /\ applied' = applied \union {q.write} /\ applied' \in SUBSET Nat
  <1>1. /\ q.table \in Tables /\ q.op \in {"create", "update", "delete"} /\ q.write \in Nat
        /\ ids \in Nat /\ applied \in SUBSET Nat
        /\ server \in SUBSET ServerRows
    BY DEF Items, SyncTypes
  <1>2. applied' = applied \union {q.write} /\ applied' \in SUBSET Nat
    BY <1>1 DEF Serve
  <1>3. ASSUME q.op # "delete" PROVE q.ref \in Nat
    <2>1. CASE q.table = "accounts"
      BY <2>1 DEF Plain
    <2>2. CASE q.table = "assets"
      BY <1>3, <2>2, ServerRow DEF Accepts
    <2> QED BY <1>1, <2>1, <2>2 DEF Tables
  <1>4. CASE q.op = "create"
    <2>1. ids' = ids + 1 /\ server' = server \union {StoredRow(q.table, ids + 1, q.ref)}
      BY <1>4 DEF Serve
    <2>2. ids + 1 \in Nat \ {0}
      BY <1>1
    <2>3. StoredRow(q.table, ids + 1, q.ref) \in ServerRows
      BY <1>1, <1>3, <1>4, <2>2 DEF StoredRow, ServerRows
    <2> QED BY <1>1, <1>2, <2>1, <2>2, <2>3
  <1>5. CASE q.op = "update"
    <2>1. ids' = ids /\ server' = Without(server, q.table, q.id) \union {StoredRow(q.table, q.id, q.ref)}
      BY <1>5 DEF Serve
    <2>2. q.id \in Nat \ {0}
      BY <1>5, ServerRow DEF Accepts
    <2>3. StoredRow(q.table, q.id, q.ref) \in ServerRows
      BY <1>1, <1>3, <1>5, <2>2 DEF StoredRow, ServerRows
    <2> QED BY <1>1, <1>2, <1>5, <2>1, <2>3 DEF Without
  <1>6. CASE q.op = "delete"
    <2>1. ids' = ids /\ server' = Without(server, q.table, q.id)
      BY <1>6 DEF Serve
    <2> QED BY <1>1, <1>2, <1>6, <2>1 DEF Without
  <1> QED BY <1>1, <1>4, <1>5, <1>6

(* Whether the server has carried a request out or not.                      *)
ServedRight == /\ server' \in SUBSET ServerRows /\ ids' \in Nat
               /\ applied \subseteq applied' /\ applied' \in SUBSET Nat

LEMMA ServedOrNot ==
  ASSUME SyncTypes, NEW q \in Items, Plain(q), NotServed \/ (Accepts(q) /\ Serve(q))
  PROVE  ServedRight
  <1>1. CASE NotServed
    BY <1>1 DEF NotServed, SyncTypes, ServedRight
  <1>2. CASE Accepts(q) /\ Serve(q)
    BY <1>2, ServeTyped DEF ServedRight
  <1> QED BY <1>1, <1>2

LEMMA NoneServed == ASSUME SyncTypes, NotServed PROVE ServedRight
  BY DEF NotServed, SyncTypes, ServedRight

(* What the user may ask for is about rows that are shown, or about a        *)
(* placeholder nobody has had.                                               *)
LEMMA WishFacts ==
  ASSUME SyncInv, NEW q \in Wishes
  PROVE  /\ q \in Items /\ q.write = writes + 1 /\ ~ q.synced /\ Plain(q) /\ OwnName(q)
         /\ AnswersId(q) \/ Known(Name(q), Len(queue))
  <1> DEFINE new == Placeholder(writes + 1)
             w == writes + 1
  <1>1. /\ writes \in Nat /\ w \in Nat \ {0} /\ new \in Int /\ NoRef = 0
        /\ local \in SUBSET LocalRows
    BY DEF SyncInv, SyncTypes, Placeholder, NoRef
  <1> HIDE DEF new
  <1>3. ASSUME NEW table \in Tables, NEW op \in {"create", "update", "delete"},
               NEW id \in Int, NEW ref \in Int
        PROVE  /\ Wish(table, op, id, ref) \in Items /\ Wish(table, op, id, ref).write = w
               /\ ~ Wish(table, op, id, ref).synced
               /\ Wish(table, op, id, ref).table = table /\ Wish(table, op, id, ref).op = op
               /\ Wish(table, op, id, ref).id = id /\ Wish(table, op, id, ref).ref = ref
    BY <1>1 DEF Wish, Items
  <1>4. ASSUME NEW r \in local
        PROVE  /\ r.table \in Tables /\ r.id \in Int /\ r.ref \in Int
               /\ Plain(r) /\ Known(Name(r), Len(queue))
    BY <1>1 DEF SyncInv, RowsKnow, LocalRows
  <1> HIDE DEF w
  <1>a. w = writes + 1 /\ "accounts" \in Tables /\ "assets" \in Tables /\ NoRef \in Nat /\ NoRef \in Int
    BY <1>1 DEF w, Tables
  <1>5. CASE q = Wish("accounts", "create", new, NoRef)
    <2>1. /\ q \in Items /\ q.write = w /\ ~ q.synced /\ q.table = "accounts" /\ q.op = "create"
          /\ q.id = new /\ q.ref = NoRef
      BY <1>1, <1>3, <1>5, <1>a
    <2> QED BY <1>a, <2>1 DEF Plain, OwnName, AnswersId, new
  <1>6. ASSUME NEW a \in Visible("accounts"), q = Wish("assets", "create", new, a)
        PROVE  /\ q \in Items /\ q.write = w /\ ~ q.synced /\ Plain(q) /\ OwnName(q)
               /\ Known(Name(q), Len(queue))
    <2>1. PICK r \in local : r.table = "accounts" /\ r.id = a
      BY DEF Visible, Rows
    <2>2. a \in Int /\ Known(a, Len(queue))
      BY <1>4, <2>1 DEF Name
    <2>3. /\ q \in Items /\ q.write = w /\ ~ q.synced /\ q.table = "assets"
          /\ q.id = new /\ q.ref = a
      BY <1>1, <1>3, <1>6, <1>a, <2>2
    <2>4. Name(q) = a /\ Plain(q) /\ OwnName(q)
      BY <2>3 DEF Name, Plain, OwnName, AnswersId
    <2> QED BY <2>2, <2>3, <2>4
  <1>7. ASSUME NEW r \in local, q = Wish(r.table, "update", r.id, r.ref)
        PROVE  /\ q \in Items /\ q.write = w /\ ~ q.synced /\ Plain(q) /\ OwnName(q)
               /\ Known(Name(q), Len(queue))
    <2>1. /\ q \in Items /\ q.write = w /\ ~ q.synced /\ q.table = r.table /\ q.op = "update"
          /\ q.id = r.id /\ q.ref = r.ref
      BY <1>3, <1>4, <1>7
    <2>2. Name(q) = Name(r) /\ Plain(q) /\ OwnName(q)
      BY <1>4, <2>1 DEF Name, Plain, OwnName, AnswersId
    <2> QED BY <1>4, <2>1, <2>2
  <1>8. ASSUME NEW r \in local, q = Wish(r.table, "delete", r.id, NoRef)
        PROVE  /\ q \in Items /\ q.write = w /\ ~ q.synced /\ Plain(q) /\ OwnName(q)
               /\ Known(Name(q), Len(queue))
    <2>1. /\ q \in Items /\ q.write = w /\ ~ q.synced /\ q.table = r.table /\ q.op = "delete"
          /\ q.id = r.id /\ q.ref = NoRef
      BY <1>3, <1>4, <1>8, <1>a
    <2>2. Plain(q) /\ OwnName(q)
      BY <1>a, <2>1 DEF Plain, OwnName, AnswersId
    <2>3. Known(Name(q), Len(queue))
      <3>1. CASE r.table = "accounts"
        BY <1>4, <2>1, <3>1 DEF Name
      <3>2. CASE r.table # "accounts"
        BY <1>a, <2>1, <3>2 DEF Name, Known
      <3> QED BY <3>1, <3>2
    <2> QED BY <2>1, <2>2, <2>3
  <1> QED BY <1>5, <1>6, <1>7, <1>8, <1>a DEF Wishes, new

-----------------------------------------------------------------------------
(* The steps                                                                 *)

LEMMA SyncStarts == SyncInit => SyncInv
  <1> SUFFICES ASSUME SyncInit PROVE SyncInv
    OBVIOUS
  <1>1. /\ local = {} /\ queue = << >> /\ server = {} /\ ids = 0 /\ writes = 0 /\ round = {}
        /\ flight = NoRequest /\ renamed = {} /\ late = {} /\ applied = {} /\ stage = "idle"
        /\ awaited = {} /\ login = "in"
    BY DEF SyncInit
  <1>2. queue \in Seq(Items) /\ DOMAIN queue = {}
    BY <1>1, EmptySeq
  <1>3. SyncTypes
    BY <1>1, <1>2 DEF SyncTypes
  <1>4. 1 .. writes = {}
    BY <1>1
  <1>5. RoundWaits /\ SentFresh /\ NothingLost /\ WritesApart
    BY <1>1, <1>2, <1>4 DEF RoundWaits, SentFresh, NothingLost, WritesApart, Waiting
  <1>6. QueueKnows /\ RowsKnow /\ AwaitedKnow /\ AllFresh
    BY <1>1, <1>2 DEF QueueKnows, RowsKnow, AwaitedKnow, AllFresh, Waiting
  <1> QED BY <1>3, <1>5, <1>6 DEF SyncInv

(* Steps that touch neither a row nor an item.                               *)
LEMMA QuietKeeps ==
  ASSUME SyncInv, UNCHANGED <<local, queue, writes, renamed, late>>, awaited' \subseteq awaited,
         ServedRight, stage' \in {"idle", "push"} \union Tables,
         login' \in {"in", "leaving", "out"}, login = "out" => login' = "out",
         login' = "in" => login = "in",
         SentFresh', login' # "out" => RoundWaits',
         login' = "in" => \A q \in awaited : q \in awaited' \/ q.write \in applied'
  PROVE  SyncInv'
  <1>1. SyncTypes'
    BY DEF SyncInv, SyncTypes, ServedRight
  <1>2. NothingLost'
    <2> SUFFICES ASSUME login' = "in", NEW v \in 1 .. writes
                 PROVE  \/ v \in applied'
                        \/ \E q \in awaited' : q.write = v
                        \/ \E i \in DOMAIN queue : queue[i].write = v /\ ~ queue[i].synced
      BY DEF NothingLost
    <2>1. \/ v \in applied
          \/ \E q \in awaited : q.write = v
          \/ \E i \in DOMAIN queue : queue[i].write = v /\ ~ queue[i].synced
      BY DEF SyncInv, NothingLost
    <2> QED BY <2>1 DEF ServedRight
  <1>3. WritesApart'
    BY DEF SyncInv, WritesApart
  <1>4. QueueKnows' /\ RowsKnow'
    BY DEF SyncInv, QueueKnows, RowsKnow, Known, Name, Plain, OwnName
  <1>5. AwaitedKnow'
    <2> SUFFICES ASSUME NEW q \in awaited'
                 PROVE  /\ Plain(q) /\ OwnName(q) /\ ~ q.synced
                        /\ login' # "out" => AnswersId(q) \/ Known(Name(q), Len(queue))
      BY DEF AwaitedKnow, Known, Name, Plain, OwnName
    <2> QED BY DEF SyncInv, AwaitedKnow
  <1>6. AllFresh'
    BY DEF SyncInv, AllFresh, Fresh, Waiting, Name
  <1> QED BY <1>1, <1>2, <1>3, <1>4, <1>5, <1>6 DEF SyncInv

LEMMA FlightGoesOn ==
  ASSUME SyncInv, UNCHANGED <<queue, renamed, late, flight, round>>
  PROVE  SentFresh' /\ (login # "out" => RoundWaits')
  <1>1. SentFresh'
    BY DEF SyncInv, SentFresh, Fresh, Name, Plain
  <1>2. login # "out" => RoundWaits'
    BY DEF SyncInv, RoundWaits, Waiting
  <1> QED BY <1>1, <1>2

LEMMA FlightEnds ==
  ASSUME flight' = NoRequest, round' \subseteq Waiting'
  PROVE  SentFresh' /\ RoundWaits'
  BY DEF SentFresh, RoundWaits

(* The user sends a write.                                                   *)
LEMMA WriteKeeps == SyncInv /\ Write => SyncInv'
  <1> SUFFICES ASSUME SyncInv, Write PROVE SyncInv'
    OBVIOUS
  <1>1. PICK q \in Wishes : awaited' = awaited \union {q}
    BY DEF Write
  <1>2. /\ writes' = writes + 1 /\ login = "in"
        /\ UNCHANGED <<local, queue, server, ids, failures, stage, round, flight, renamed, late,
                       applied, login>>
    BY DEF Write
  <1>3. /\ q \in Items /\ q.write = writes + 1 /\ ~ q.synced /\ Plain(q) /\ OwnName(q)
        /\ AnswersId(q) \/ Known(Name(q), Len(queue))
    BY WishFacts
  <1>4. writes \in Nat
    BY DEF SyncInv, SyncTypes
  <1>5. SyncTypes'
    BY <1>1, <1>2, <1>3, <1>4 DEF SyncInv, SyncTypes
  <1>6. SentFresh' /\ RoundWaits'
    BY <1>2, FlightGoesOn
  <1>7. NothingLost'
    <2> SUFFICES ASSUME NEW v \in 1 .. writes'
                 PROVE  \/ v \in applied
                        \/ \E p \in awaited' : p.write = v
                        \/ \E i \in DOMAIN queue : queue[i].write = v /\ ~ queue[i].synced
      BY <1>2 DEF NothingLost
    <2>1. v = writes + 1 \/ v \in 1 .. writes
      BY <1>2, <1>4
    <2>2. CASE v = writes + 1
      BY <1>1, <1>3, <2>2
    <2>3. CASE v \in 1 .. writes
      BY <1>1, <1>2, <2>3 DEF SyncInv, NothingLost
    <2> QED BY <2>1, <2>2, <2>3
  <1>8. WritesApart'
    <2>1. \A i \in DOMAIN queue : queue[i].write \in Nat /\ queue[i].write <= writes
      BY ItemFacts DEF Items
    <2>2. \A p \in awaited : p.write \in Nat /\ p.write <= writes
      BY AwaitedFacts DEF Items
    <2>3. \A i \in DOMAIN queue : queue[i].write <= writes' /\ queue[i].write # q.write
      BY <1>2, <1>3, <1>4, <2>1
    <2>4. \A p \in awaited : p.write <= writes' /\ p.write # q.write
      BY <1>2, <1>3, <1>4, <2>2
    <2>5. q.write <= writes'
      BY <1>2, <1>3, <1>4
    <2> QED BY <1>1, <1>2, <2>3, <2>4, <2>5 DEF SyncInv, WritesApart
  <1>9. QueueKnows' /\ RowsKnow'
    BY <1>2 DEF SyncInv, QueueKnows, RowsKnow, Known, Name, Plain, OwnName
  <1>10. AwaitedKnow'
    <2> SUFFICES ASSUME NEW p \in awaited'
                 PROVE  /\ Plain(p) /\ OwnName(p) /\ ~ p.synced
                        /\ AnswersId(p) \/ Known(Name(p), Len(queue))
      BY <1>2 DEF AwaitedKnow, Known, Name, Plain, OwnName
    <2> QED BY <1>1, <1>2, <1>3 DEF SyncInv, AwaitedKnow
  <1>11. AllFresh'
    BY <1>2 DEF SyncInv, AllFresh, Fresh, Waiting, Name
  <1> QED BY <1>5, <1>6, <1>7, <1>8, <1>9, <1>10, <1>11 DEF SyncInv

LEMMA LoggedOffIs ==
  ASSUME SyncInv, LoggedOff
  PROVE  /\ login' \in {"leaving", "out"} /\ (login' = "out" <=> login = "out")
         /\ login = "out" => login' = "out"
  BY DEF SyncInv, SyncTypes, LoggedOff

(* It is answered, or refused for want of authentication.                    *)
LEMMA GrantedKeeps ==
  ASSUME SyncInv, NEW q \in awaited, Granted(q)
  PROVE  SyncInv'
  <1>1. /\ UNCHANGED <<local, queue, writes, failures, stage, round, flight, renamed, late, login>>
        /\ awaited' = awaited \ {q} /\ Accepts(q) /\ Serve(q)
    BY DEF Granted
  <1>2. q \in Items /\ Plain(q) /\ SyncTypes
    BY AwaitedFacts DEF SyncInv
  <1>3. ServedRight /\ q.write \in applied'
    BY <1>1, <1>2, ServeTyped DEF ServedRight
  <1>4. SentFresh' /\ (login # "out" => RoundWaits')
    BY <1>1, FlightGoesOn
  <1>5. stage' \in {"idle", "push"} \union Tables /\ login' \in {"in", "leaving", "out"}
    BY <1>1, <1>2 DEF SyncTypes
  <1> QED BY <1>1, <1>3, <1>4, <1>5, QuietKeeps

LEMMA TurnedAwayKeeps ==
  ASSUME SyncInv, NEW q \in awaited, TurnedAway(q)
  PROVE  SyncInv'
  <1>1. /\ UNCHANGED <<local, queue, writes, failures, stage, round, flight, renamed, late>>
        /\ awaited' = awaited \ {q} /\ NotServed /\ LoggedOff
    BY DEF TurnedAway
  <1>2. ServedRight /\ SyncTypes
    BY <1>1, NoneServed DEF SyncInv
  <1>3. SentFresh' /\ (login # "out" => RoundWaits')
    BY <1>1, FlightGoesOn
  <1>4. stage' \in {"idle", "push"} \union Tables
    BY <1>1, <1>2 DEF SyncTypes
  <1> QED BY <1>1, <1>2, <1>3, <1>4, LoggedOffIs, QuietKeeps

LEMMA LogOutKeeps == SyncInv /\ LogOut => SyncInv'
  <1> SUFFICES ASSUME SyncInv, LogOut PROVE SyncInv'
    OBVIOUS
  <1>1. /\ UNCHANGED <<local, queue, server, ids, writes, awaited, failures, stage, round, flight,
                       renamed, late, applied>>
        /\ LoggedOff /\ login = "in"
    BY DEF LogOut
  <1>2. ServedRight /\ SyncTypes
    BY <1>1, NoneServed DEF SyncInv, NotServed
  <1>3. SentFresh' /\ (login # "out" => RoundWaits')
    BY <1>1, FlightGoesOn
  <1>4. stage' \in {"idle", "push"} \union Tables
    BY <1>1, <1>2 DEF SyncTypes
  <1> QED BY <1>1, <1>2, <1>3, <1>4, LoggedOffIs, QuietKeeps

(* The logout: no row and no item is left to know an account.                *)
LEMMA ResetKeeps == SyncInv /\ Reset => SyncInv'
  <1> SUFFICES ASSUME SyncInv, Reset PROVE SyncInv'
    OBVIOUS
  <1>1. /\ local' = {} /\ queue' = << >> /\ login' = "out"
        /\ UNCHANGED <<server, ids, writes, awaited, failures, stage, round, flight, renamed, late,
                       applied>>
    BY DEF Reset
  <1>2. queue' \in Seq(Items) /\ DOMAIN queue' = {}
    BY <1>1, EmptySeq
  <1>3. SyncTypes'
    BY <1>1, <1>2 DEF SyncInv, SyncTypes
  <1>4. SentFresh'
    BY <1>1 DEF SyncInv, SentFresh, Fresh, Name, Plain
  <1>5. NothingLost'
    BY <1>1 DEF NothingLost
  <1>6. WritesApart'
    BY <1>1, <1>2 DEF SyncInv, WritesApart
  <1>7. QueueKnows' /\ RowsKnow' /\ AllFresh'
    BY <1>1, <1>2 DEF QueueKnows, RowsKnow, AllFresh, Waiting
  <1>8. AwaitedKnow'
    BY <1>1 DEF SyncInv, AwaitedKnow, Plain, OwnName
  <1> QED BY <1>1, <1>3, <1>4, <1>5, <1>6, <1>7, <1>8 DEF SyncInv

(* A write that is kept and queued, whether it reached the server or not.    *)
LEMMA KeptKeeps ==
  ASSUME SyncInv, NEW q \in awaited, Kept(q)
  PROVE  SyncInv'
  <1>a. PICK n \in Nat : n = Len(queue) + 1
    BY QueueTable DEF SyncInv
  <1>1. /\ q \in Items /\ Plain(q) /\ OwnName(q) /\ ~ q.synced /\ q.write <= writes
        /\ \A i \in DOMAIN queue : queue[i].write # q.write
    BY AwaitedFacts
  <1>2. /\ queue' = Append(queue, q) /\ awaited' = awaited \ {q} /\ login # "out"
        /\ late' = late \union ({q.id, q.ref} \cap renamed)
        /\ NotServed \/ (Accepts(q) /\ Serve(q))
        /\ UNCHANGED <<writes, stage, round, flight, renamed, login>>
    BY DEF Kept
  <1>b. local' = IF q.op = "delete"
                 THEN {[r EXCEPT !.gone = @ \/ (r.table = q.table /\ r.id = q.id)] : r \in local}
                 ELSE Without(local, q.table, q.id) \union {LocalRow(q.table, q.id, q.ref, FALSE)}
    BY DEF Kept
  <1>3. ServedRight
    BY <1>1, <1>2, ServedOrNot DEF SyncInv
  <1>4. AnswersId(q) \/ Known(Name(q), Len(queue))
    BY <1>2 DEF SyncInv, AwaitedKnow
  <1>5. /\ queue' \in Seq(Items) /\ n \in Nat \ {0} /\ n \notin DOMAIN queue
        /\ DOMAIN queue' = DOMAIN queue \union {n} /\ queue'[n] = q /\ Len(queue') = n
        /\ Len(queue) \in Nat /\ Len(queue) < n
        /\ \A i \in DOMAIN queue : queue'[i] = queue[i] /\ i < n
    <2>1. queue \in Seq(Items) /\ Len(queue) \in Nat /\ DOMAIN queue = 1 .. Len(queue)
      BY QueueTable DEF SyncInv
    <2>2. /\ queue' \in Seq(Items) /\ Len(queue') = Len(queue) + 1
          /\ \A i \in 1 .. Len(queue) : queue'[i] = queue[i]
          /\ queue'[Len(queue) + 1] = q
      BY <1>1, <1>2, <2>1, AppendProperties
    <2>3. DOMAIN queue' = 1 .. Len(queue')
      BY <2>2, LenProperties
    <2> QED BY <1>a, <2>1, <2>2, <2>3
  \* What was known still is, and so is the new account.
  <1>6. ASSUME NEW m, NEW k \in Nat, NEW l \in Nat, k <= l, Known(m, k) PROVE Known(m, l)'
    <2>1. ASSUME NEW c \in DOMAIN queue, c <= k, AnswersId(queue[c]), queue[c].id = m
          PROVE  c \in DOMAIN queue' /\ c <= l /\ AnswersId(queue'[c]) /\ queue'[c].id = m
      <3>1. c \in Nat
        BY ItemFacts
      <3> QED BY <1>5, <1>6, <2>1, <3>1
    <2> QED BY <1>6, <2>1 DEF Known, AnswersId
  <1>7. Known(Name(q), n)'
    <2>1. CASE AnswersId(q)
      <3>1. queue'[n] = q /\ n \in DOMAIN queue' /\ n <= n /\ Name(q) = q.id
        BY <1>5, <2>1 DEF AnswersId, Name
      <3> QED BY <2>1, <3>1 DEF Known, AnswersId, Name
    <2>2. CASE Known(Name(q), Len(queue))
      <3>1. Len(queue) <= n /\ n \in Nat
        BY <1>5
      <3> QED BY <1>5, <1>6, <2>2, <3>1 DEF Name
    <2> QED BY <1>4, <2>1, <2>2
  <1>8. \A m : m \notin renamed \ late => m \notin renamed' \ late'
    BY <1>2
  <1>9. Name(q) \notin renamed' \ late'
    BY <1>2 DEF Name
  <1>10. ASSUME NEW r \in local'
         PROVE  r \in LocalRows /\ Plain(r) /\ Known(Name(r), n)' /\ Name(r) \notin renamed' \ late'
    <2>1. ASSUME NEW s \in local, r.table = s.table, r.id = s.id, r.ref = s.ref
          PROVE  Plain(r) /\ Known(Name(r), n)' /\ Name(r) \notin renamed' \ late'
      <3>1. Name(r) = Name(s) /\ Plain(s) /\ Known(Name(s), Len(queue)) /\ Fresh(s)
        BY <2>1 DEF SyncInv, RowsKnow, AllFresh, Name
      <3>2. Len(queue) <= n /\ n \in Nat
        BY <1>5
      <3>3. Known(Name(r), n)'
        BY <1>5, <1>6, <3>1, <3>2 DEF Name
      <3> QED BY <1>8, <2>1, <3>1, <3>3 DEF Plain, Fresh
    <2>2. CASE q.op = "delete"
      <3>1. PICK s \in local :
               r = [s EXCEPT !.gone = @ \/ (s.table = q.table /\ s.id = q.id)]
        BY <1>b, <2>2
      <3>2. s \in LocalRows
        BY DEF SyncInv, SyncTypes
      <3>3. r.table = s.table /\ r.id = s.id /\ r.ref = s.ref
        BY <3>1, <3>2 DEF LocalRows
      <3>4. s.gone \in BOOLEAN /\ (s.gone \/ (s.table = q.table /\ s.id = q.id)) \in BOOLEAN
        BY <3>2 DEF LocalRows
      <3>5. r \in LocalRows
        BY <3>1, <3>2, <3>4 DEF LocalRows
      <3> QED BY <2>1, <3>3, <3>5
    <2>3. CASE q.op # "delete" /\ r = LocalRow(q.table, q.id, q.ref, FALSE)
      <3>1. r.table = q.table /\ r.id = q.id /\ r.ref = q.ref
        BY <2>3 DEF LocalRow
      <3>2. r \in LocalRows
        BY <1>1, <2>3 DEF LocalRow, Items, LocalRows
      <3>3. Name(r) = Name(q) /\ Plain(r)
        BY <1>1, <3>1 DEF Name, Plain
      <3>4. Known(Name(r), n)'
        BY <1>7, <3>3 DEF Known, Name
      <3> QED BY <1>9, <3>2, <3>3, <3>4
    <2>4. CASE q.op # "delete" /\ r \in local
      BY <2>1, <2>4 DEF SyncInv, SyncTypes
    <2> QED BY <1>b, <2>2, <2>3, <2>4 DEF Without
  <1>11. SyncTypes'
    <2>1. local' \in SUBSET LocalRows
      BY <1>10
    <2> QED BY <1>2, <1>3, <1>5, <2>1 DEF SyncInv, SyncTypes, ServedRight
  <1>12. Waiting' = Waiting \union {n}
    BY <1>1, <1>5 DEF Waiting
  <1>13. SentFresh' /\ RoundWaits'
    <2>1. SentFresh'
      BY <1>2, <1>8 DEF SyncInv, SentFresh, Fresh, Name, Plain
    <2>2. flight.item \in round => queue'[flight.item] = queue[flight.item]
      BY <1>2, <1>5 DEF SyncInv, RoundWaits, Waiting
    <2>3. RoundWaits'
      BY <1>2, <1>12, <2>2 DEF SyncInv, RoundWaits
    <2> QED BY <2>1, <2>3
  <1>14. NothingLost'
    <2> SUFFICES ASSUME login = "in", NEW v \in 1 .. writes
                 PROVE  \/ v \in applied'
                        \/ \E p \in awaited' : p.write = v
                        \/ \E i \in DOMAIN queue' : queue'[i].write = v /\ ~ queue'[i].synced
      BY <1>2 DEF NothingLost
    <2>1. \/ v \in applied
          \/ \E p \in awaited : p.write = v
          \/ \E i \in DOMAIN queue : queue[i].write = v /\ ~ queue[i].synced
      BY DEF SyncInv, NothingLost
    <2>2. CASE v = q.write
      BY <1>1, <1>5, <2>2
    <2>3. CASE v # q.write
      BY <1>2, <1>3, <1>5, <2>1, <2>3 DEF ServedRight
    <2> QED BY <2>2, <2>3
  <1>15. WritesApart'
    <2>1. \A i, j \in DOMAIN queue' : queue'[i].write = queue'[j].write => i = j
      BY <1>1, <1>5 DEF SyncInv, WritesApart
    <2>2. \A i \in DOMAIN queue' : queue'[i].write <= writes
      BY <1>1, <1>5 DEF SyncInv, WritesApart
    <2>3. \A p \in awaited' : p.write <= writes /\ \A i \in DOMAIN queue' : queue'[i].write # p.write
      BY <1>2, <1>5 DEF SyncInv, WritesApart
    <2> QED BY <1>2, <2>1, <2>2, <2>3 DEF SyncInv, WritesApart
  <1>16. QueueKnows'
    <2> SUFFICES ASSUME NEW i \in DOMAIN queue'
                 PROVE  (Plain(queue[i]) /\ OwnName(queue[i]) /\ Known(Name(queue[i]), i))'
      BY DEF QueueKnows
    <2>1. CASE i = n
      <3>1. queue'[i] = q
        BY <1>5, <2>1
      <3> QED BY <1>1, <1>7, <2>1, <3>1 DEF Known, Name, Plain, OwnName
    <2>2. CASE i \in DOMAIN queue
      <3>1. i \in Nat /\ i <= i /\ queue'[i] = queue[i]
        BY <1>5, <2>2, ItemFacts
      <3>2. Known(Name(queue[i]), i) /\ Plain(queue[i]) /\ OwnName(queue[i])
        BY <2>2, ItemFacts
      <3>3. PICK m : m = Name(queue[i])
        OBVIOUS
      <3>4. Known(m, i)'
        BY <1>6, <3>1, <3>2, <3>3
      <3> QED BY <3>1, <3>2, <3>3, <3>4 DEF Known, Name, Plain, OwnName
    <2> QED BY <1>5, <2>1, <2>2
  <1>17. RowsKnow'
    BY <1>5, <1>10 DEF RowsKnow, Known, Name, Plain
  <1>18. AwaitedKnow'
    <2> SUFFICES ASSUME NEW p \in awaited'
                 PROVE  /\ Plain(p) /\ OwnName(p) /\ ~ p.synced
                        /\ AnswersId(p) \/ Known(Name(p), n)'
      BY <1>5 DEF AwaitedKnow, Known, Name, Plain, OwnName
    <2>1. /\ Plain(p) /\ OwnName(p) /\ ~ p.synced
          /\ AnswersId(p) \/ Known(Name(p), Len(queue))
      BY <1>2 DEF SyncInv, AwaitedKnow
    <2>2. Len(queue) <= n /\ n \in Nat
      BY <1>5
    <2> QED BY <1>5, <1>6, <2>1, <2>2 DEF Name
  <1>19. AllFresh'
    <2>1. \A i \in Waiting : Fresh(queue[i]) /\ queue'[i] = queue[i]
      BY <1>5 DEF SyncInv, AllFresh, Waiting
    <2>2. \A i \in Waiting' : Name(queue'[i]) \notin renamed' \ late'
      BY <1>5, <1>8, <1>9, <1>12, <2>1 DEF Fresh
    <2> QED BY <1>10, <2>2 DEF AllFresh, Fresh, Name
  <1> QED BY <1>11, <1>13, <1>14, <1>15, <1>16, <1>17, <1>18, <1>19 DEF SyncInv

(* A synchronisation begins, and sends an item.                              *)
LEMMA StartSyncKeeps == SyncInv /\ StartSync => SyncInv'
  <1> SUFFICES ASSUME SyncInv, StartSync PROVE SyncInv'
    OBVIOUS
  <1>1. /\ round' = Waiting /\ stage' = "push" /\ login # "out"
        /\ UNCHANGED <<local, queue, server, ids, writes, awaited, failures, flight, renamed, late,
                       applied, login>>
    BY DEF StartSync, Waiting
  <1>2. ServedRight /\ SyncTypes
    BY <1>1, NoneServed DEF SyncInv, NotServed
  <1>3. SentFresh'
    BY <1>1 DEF SyncInv, SentFresh, Fresh, Name, Plain
  <1>4. RoundWaits'
    BY <1>1 DEF SyncInv, RoundWaits, Waiting
  <1>5. stage' \in {"idle", "push"} \union Tables /\ login' \in {"in", "leaving", "out"}
    BY <1>1, <1>2 DEF SyncTypes
  <1> QED BY <1>1, <1>2, <1>3, <1>4, <1>5, QuietKeeps

LEMMA PushItemKeeps == SyncInv /\ PushItem => SyncInv'
  <1> SUFFICES ASSUME SyncInv, PushItem PROVE SyncInv'
    OBVIOUS
  <1>1. PICK i \in round : flight' = [item |-> i, req |-> queue[i]]
    BY DEF PushItem
  <1>2. /\ UNCHANGED <<local, queue, server, ids, writes, awaited, failures, stage, round, renamed,
                       late, applied, login>>
        /\ login # "out"
    BY DEF PushItem
  <1>3. ServedRight /\ SyncTypes
    BY <1>2, NoneServed DEF SyncInv, NotServed
  <1>4. i \in Waiting /\ i \in DOMAIN queue /\ Fresh(queue[i]) /\ round \in SUBSET Waiting
    BY <1>2 DEF SyncInv, RoundWaits, AllFresh, Waiting
  <1>5. SentFresh'
    <2>1. flight'.req = queue[i] /\ queue[i] \in Items /\ Plain(queue[i])
      BY <1>1, <1>4, ItemFacts
    <2> QED BY <1>2, <1>4, <2>1 DEF SentFresh, Fresh, Name, Plain
  <1>6. RoundWaits'
    BY <1>1, <1>2, <1>4 DEF RoundWaits, Waiting
  <1>7. stage' \in {"idle", "push"} \union Tables /\ login' \in {"in", "leaving", "out"}
    BY <1>2, <1>3 DEF SyncTypes
  <1> QED BY <1>2, <1>3, <1>5, <1>6, <1>7, QuietKeeps

(* No answer comes, or one that ends the push, or the database is gone.      *)
LEMMA UnansweredKeeps == SyncInv /\ Unanswered => SyncInv'
  <1> SUFFICES ASSUME SyncInv, Unanswered PROVE SyncInv'
    OBVIOUS
  <1>1. /\ InFlight /\ ItemDone
        /\ UNCHANGED <<local, queue, writes, awaited, stage, renamed, late, login>>
        /\ NotServed \/ (Accepts(flight.req) /\ Serve(flight.req))
    BY DEF Unanswered
  <1>2. flight.req \in Items /\ Plain(flight.req) /\ SyncTypes
    BY <1>1, FlightFacts DEF SyncInv
  <1>3. ServedRight
    BY <1>1, <1>2, ServedOrNot
  <1>4. round \in SUBSET Waiting /\ login # "out"
    BY <1>1 DEF SyncInv, RoundWaits, InFlight
  <1>5. flight' = NoRequest /\ round' \subseteq Waiting'
    BY <1>1, <1>4 DEF ItemDone, Waiting
  <1>6. SentFresh' /\ RoundWaits'
    BY <1>5, FlightEnds
  <1>7. stage' \in {"idle", "push"} \union Tables /\ login' \in {"in", "leaving", "out"}
    BY <1>1, <1>2 DEF SyncTypes
  <1> QED BY <1>1, <1>3, <1>4, <1>6, <1>7, QuietKeeps

LEMMA UnauthenticatedKeeps == SyncInv /\ Unauthenticated => SyncInv'
  <1> SUFFICES ASSUME SyncInv, Unauthenticated PROVE SyncInv'
    OBVIOUS
  <1>1. /\ NotServed /\ LoggedOff /\ round' = {} /\ flight' = NoRequest
        /\ UNCHANGED <<local, queue, writes, awaited, failures, stage, renamed, late>>
    BY DEF Unauthenticated
  <1>2. ServedRight /\ SyncTypes
    BY <1>1, NoneServed DEF SyncInv
  <1>3. SentFresh' /\ RoundWaits'
    BY <1>1, FlightEnds
  <1>4. stage' \in {"idle", "push"} \union Tables
    BY <1>1, <1>2 DEF SyncTypes
  <1> QED BY <1>1, <1>2, <1>3, <1>4, LoggedOffIs, QuietKeeps

LEMMA OutOfBaseKeeps == SyncInv /\ OutOfBase => SyncInv'
  <1> SUFFICES ASSUME SyncInv, OutOfBase PROVE SyncInv'
    OBVIOUS
  <1>1. /\ login = "out" /\ stage' = "idle" /\ round' = {} /\ flight' = NoRequest
        /\ NotServed \/ (flight # NoRequest /\ Accepts(flight.req) /\ Serve(flight.req))
        /\ UNCHANGED <<local, queue, writes, awaited, failures, renamed, late, login>>
    BY DEF OutOfBase
  <1>2. ServedRight
    <2>1. CASE NotServed
      BY <2>1, NoneServed DEF SyncInv
    <2>2. CASE flight # NoRequest /\ Accepts(flight.req) /\ Serve(flight.req)
      BY <2>2, ServedOrNot DEF SyncInv, SentFresh
    <2> QED BY <1>1, <2>1, <2>2
  <1>3. SentFresh' /\ RoundWaits'
    BY <1>1, FlightEnds
  <1> QED BY <1>1, <1>2, <1>3, QuietKeeps

(* An answer to an item whose row keeps its id: only its mark changes.       *)
LEMMA MarkedKeeps ==
  ASSUME SyncInv, InFlight, NEW b \in BOOLEAN, NEW c \in BOOLEAN,
         queue' = [queue EXCEPT ![flight.item] = [@ EXCEPT !.synced = b, !.conflict = c]],
         b => flight.req.write \in applied',
         ItemDone, UNCHANGED <<local, writes, awaited, renamed, stage, late, login>>, ServedRight
  PROVE  SyncInv'
  <1>0. PICK i \in DOMAIN queue : i = flight.item
    BY FlightFacts
  <1> DEFINE marked == [queue[i] EXCEPT !.synced = b, !.conflict = c]
  <1>1. /\ i \in round /\ ~ queue[i].synced
        /\ flight.req = queue[i] /\ queue[i] \in Items
    BY <1>0, FlightFacts, ItemFacts
  <1>2. /\ marked \in Items /\ marked.table = queue[i].table /\ marked.op = queue[i].op
        /\ marked.id = queue[i].id /\ marked.ref = queue[i].ref
        /\ marked.write = queue[i].write /\ marked.synced = b
    BY <1>1 DEF Items
  <1>3. queue \in Seq(Items) /\ queue' = [queue EXCEPT ![i] = marked]
    BY <1>0, QueueTable DEF SyncInv
  <1> HIDE DEF marked
  <1>a. i \in DOMAIN queue /\ marked \in Items
    BY <1>1, <1>2
  <1>4. /\ queue' \in Seq(Items) /\ DOMAIN queue' = DOMAIN queue /\ Len(queue') = Len(queue)
        /\ queue'[i] = marked /\ \A j \in DOMAIN queue : j # i => queue'[j] = queue[j]
    BY ONLY <1>3, <1>a
  <1>5. \A j \in DOMAIN queue :
           /\ queue'[j].table = queue[j].table /\ queue'[j].op = queue[j].op
           /\ queue'[j].id = queue[j].id /\ queue'[j].ref = queue[j].ref
           /\ queue'[j].write = queue[j].write
           /\ j # i => queue'[j].synced = queue[j].synced
    BY <1>2, <1>4
  <1>6. /\ round' = round \ {i} /\ flight' = NoRequest
        /\ local' = local /\ writes' = writes /\ renamed' = renamed /\ stage' = stage
        /\ awaited' = awaited /\ late' = late /\ login' = login
    BY <1>0 DEF ItemDone
  <1>7. SyncTypes'
    BY <1>4, <1>6 DEF SyncInv, SyncTypes, ServedRight
  <1>8. Waiting \ {i} \in SUBSET Waiting' /\ Waiting' \in SUBSET Waiting
    BY <1>1, <1>4, <1>5 DEF Waiting
  <1>9. SentFresh' /\ RoundWaits'
    <2>1. round \in SUBSET Waiting
      BY DEF SyncInv, RoundWaits, InFlight
    <2> QED BY <1>6, <1>8, <2>1, FlightEnds
  <1>10. NothingLost'
    <2> SUFFICES ASSUME login = "in", NEW v \in 1 .. writes
                 PROVE  \/ v \in applied'
                        \/ \E q \in awaited' : q.write = v
                        \/ \E j \in DOMAIN queue' : queue'[j].write = v /\ ~ queue'[j].synced
      BY <1>6 DEF NothingLost
    <2>1. \/ v \in applied
          \/ \E q \in awaited : q.write = v
          \/ \E j \in DOMAIN queue : queue[j].write = v /\ ~ queue[j].synced
      BY DEF SyncInv, NothingLost
    <2>2. CASE v \in applied \/ \E q \in awaited : q.write = v
      BY <1>6, <2>2 DEF ServedRight
    <2>3. ASSUME NEW j \in DOMAIN queue, queue[j].write = v, ~ queue[j].synced
          PROVE  \/ v \in applied'
                 \/ \E l \in DOMAIN queue' : queue'[l].write = v /\ ~ queue'[l].synced
      <3>1. CASE j # i
        BY <1>4, <2>3, <3>1
      <3>2. CASE j = i
        BY <1>1, <1>2, <1>4, <2>3, <3>2
      <3> QED BY <3>1, <3>2
    <2> QED BY <2>1, <2>2, <2>3
  <1>11. WritesApart'
    BY <1>4, <1>5, <1>6 DEF SyncInv, WritesApart
  <1>b. ASSUME NEW m, NEW k, Known(m, k) PROVE Known(m, k)'
    BY <1>4, <1>5, <1>b DEF Known, AnswersId
  <1>12. QueueKnows'
    <2> SUFFICES ASSUME NEW j \in DOMAIN queue
                 PROVE  (Plain(queue[j]) /\ OwnName(queue[j]) /\ Known(Name(queue[j]), j))'
      BY <1>4 DEF QueueKnows
    <2>1. Plain(queue[j]) /\ OwnName(queue[j]) /\ Known(Name(queue[j]), j)
      BY ItemFacts
    <2>2. PICK m : m = Name(queue[j])
      OBVIOUS
    <2>3. Known(m, j)'
      BY <1>b, <2>1, <2>2
    <2> QED BY <1>5, <2>1, <2>2, <2>3 DEF Known, Name, Plain, OwnName, AnswersId
  <1>13. RowsKnow'
    <2> SUFFICES ASSUME NEW r \in local PROVE (Plain(r) /\ Known(Name(r), Len(queue)))'
      BY <1>6 DEF RowsKnow
    <2>1. PICK k : k = Len(queue)
      OBVIOUS
    <2>2. Plain(r) /\ Known(Name(r), k)
      BY <2>1 DEF SyncInv, RowsKnow
    <2>3. Known(Name(r), k)'
      BY <1>b, <2>2 DEF Name
    <2> QED BY <1>4, <2>1, <2>2, <2>3 DEF Plain, Known, Name
  <1>14. AwaitedKnow'
    <2> SUFFICES ASSUME NEW q \in awaited
                 PROVE  /\ Plain(q) /\ OwnName(q) /\ ~ q.synced
                        /\ login # "out" => AnswersId(q) \/ Known(Name(q), Len(queue))'
      BY <1>6 DEF AwaitedKnow, Plain, OwnName, AnswersId, Placeholder
    <2>1. PICK k : k = Len(queue)
      OBVIOUS
    <2>2. /\ Plain(q) /\ OwnName(q) /\ ~ q.synced
          /\ login # "out" => AnswersId(q) \/ Known(Name(q), k)
      BY <2>1 DEF SyncInv, AwaitedKnow
    <2>3. Known(Name(q), k) => Known(Name(q), k)'
      BY <1>b DEF Name
    <2> QED BY <1>4, <2>1, <2>2, <2>3 DEF Known, Name
  <1>15. AllFresh'
    <2>1. \A j \in Waiting' : j \in Waiting /\ j \in DOMAIN queue
      BY <1>8 DEF Waiting
    <2>2. \A j \in Waiting' : Fresh(queue[j])
      BY <2>1 DEF SyncInv, AllFresh
    <2>3. \A j \in Waiting' : Fresh(queue[j])'
      BY <1>5, <1>6, <2>1, <2>2 DEF Fresh, Name
    <2>4. \A r \in local' : Fresh(r)'
      BY <1>6 DEF SyncInv, AllFresh, Fresh, Name
    <2> QED BY <2>3, <2>4 DEF AllFresh
  <1> QED BY <1>7, <1>9, <1>10, <1>11, <1>12, <1>13, <1>14, <1>15 DEF SyncInv

LEMMA RefusedKeeps == SyncInv /\ Refused => SyncInv'
  <1> SUFFICES ASSUME SyncInv, Refused PROVE SyncInv'
    OBVIOUS
  <1>1. /\ InFlight /\ ItemDone /\ NotServed
        /\ UNCHANGED <<local, writes, awaited, failures, stage, renamed, late, login>>
        /\ queue' = [queue EXCEPT ![flight.item].conflict = TRUE]
    BY DEF Refused
  <1>2. queue[flight.item] \in Items /\ ~ queue[flight.item].synced /\ queue \in Seq(Items)
    BY <1>1, FlightFacts, ItemFacts, QueueTable DEF SyncInv
  <1>3. queue[flight.item].synced = FALSE
    BY <1>2 DEF Items
  <1>4. [queue[flight.item] EXCEPT !.conflict = TRUE]
           = [queue[flight.item] EXCEPT !.synced = FALSE, !.conflict = TRUE]
    BY <1>2, <1>3 DEF Items
  <1>5. queue' = [queue EXCEPT ![flight.item] = [@ EXCEPT !.synced = FALSE, !.conflict = TRUE]]
    BY <1>1, <1>2, <1>4
  <1>6. ServedRight
    BY <1>1, NoneServed DEF SyncInv
  <1> QED BY <1>1, <1>5, <1>6, MarkedKeeps


(* The answer to the creation of an account: its placeholder is renamed to   *)
(* the server's id.  No other item was created under it, and none before it  *)
(* knows it.                                                                 *)
LEMMA RenamedKeeps ==
  ASSUME SyncInv, InFlight, AnswersId(flight.req), NEW new \in Nat \ {0},
         Rename(flight.item, new), ItemDone, UNCHANGED <<writes, awaited, stage, late, login>>,
         ServedRight, flight.req.write \in applied'
  PROVE  SyncInv'
  <1>0. PICK i \in DOMAIN queue : i = flight.item
    BY FlightFacts
  <1>a. PICK old \in Items : old = queue[i]
    BY ItemFacts
  <1>1. /\ i \in round /\ ~ old.synced /\ flight.req = old
        /\ i \in Nat /\ i <= Len(queue) /\ new \in Int /\ new \in Nat
    BY <1>0, <1>a, FlightFacts, ItemFacts
  <1>2. old.table = "accounts" /\ old.op = "create" /\ old.write \in Nat \ {0}
    BY <1>1 DEF AnswersId, Items
  <1>3. old.id = - old.write /\ old.id \in Int /\ old.id < 0
    BY <1>1, <1>2, <1>a, ItemFacts DEF Placeholder, OwnName
  <1>5. DOMAIN queue' = DOMAIN queue /\ renamed' = renamed \union {old.id}
    BY <1>0, <1>a DEF Rename
  <1>6. /\ round' = round \ {i} /\ flight' = NoRequest /\ writes' = writes
        /\ awaited' = awaited /\ stage' = stage /\ late' = late /\ login' = login
        /\ login # "out" /\ old.write \in applied'
    BY <1>0, <1>1 DEF ItemDone, InFlight
  <1>7. ASSUME NEW j \in DOMAIN queue
        PROVE  queue'[j] = IF j < i THEN queue[j]
                           ELSE IF j = i THEN [queue[j] EXCEPT !.synced = TRUE]
                           ELSE [queue[j] EXCEPT
                                   !.id = IF queue[j].table = old.table /\ @ = old.id THEN new ELSE @,
                                   !.ref = IF @ = old.id /\ ~queue[j].synced THEN new ELSE @]
    BY <1>0, <1>a DEF Rename
  <1>8. local' = {[r EXCEPT !.id = IF r.table = old.table /\ r.id = old.id THEN new ELSE @,
                            !.ref = IF r.ref = old.id THEN new ELSE @] : r \in local}
    BY <1>0, <1>a DEF Rename
  <1>9. queue \in Seq(Items) /\ DOMAIN queue = 1 .. Len(queue) /\ Len(queue) \in Nat
    BY QueueTable DEF SyncInv
  <1>10. queue' = [j \in 1 .. Len(queue) |-> queue'[j]]
    BY <1>9 DEF Rename

  \* What becomes of an item.
  <1>11. ASSUME NEW j \in DOMAIN queue
         PROVE  /\ queue'[j] \in Items /\ queue'[j].table = queue[j].table
                /\ queue'[j].op = queue[j].op /\ queue'[j].write = queue[j].write
                /\ queue'[j].synced = (j = i \/ queue[j].synced)
                /\ j <= i => queue'[j].id = queue[j].id /\ queue'[j].ref = queue[j].ref
                /\ j > i =>
                     /\ queue'[j].id = IF queue[j].table = "accounts" /\ queue[j].id = old.id
                                       THEN new ELSE queue[j].id
                     /\ queue'[j].ref = IF queue[j].ref = old.id /\ ~ queue[j].synced
                                        THEN new ELSE queue[j].ref
    <2>1. queue[j] \in Items /\ j \in Nat /\ queue[j].synced \in BOOLEAN
      BY ItemFacts DEF Items
    <2>2. CASE j < i
      <3>1. queue'[j] = queue[j]
        BY <1>7, <2>2
      <3>2. j # i /\ ~ (j > i)
        BY <1>1, <2>1, <2>2
      <3> QED BY <2>1, <3>1, <3>2
    <2>3. CASE j = i
      <3>0. ~ (j < i)
        BY <1>1, <2>3
      <3>1. queue'[j] = [queue[j] EXCEPT !.synced = TRUE]
        BY <1>7, <2>3, <3>0
      <3>2. ~ (j > i)
        BY <1>1, <2>3
      <3> QED BY <2>1, <2>3, <3>1, <3>2 DEF Items
    <2>4. CASE j > i
      <3>1. ~ (j < i) /\ j # i /\ ~ (j <= i)
        BY <1>1, <2>1, <2>4
      <3>2. queue'[j] = [queue[j] EXCEPT
                           !.id = IF queue[j].table = old.table /\ @ = old.id THEN new ELSE @,
                           !.ref = IF @ = old.id /\ ~queue[j].synced THEN new ELSE @]
        BY <1>7, <3>1
      <3> QED BY <1>1, <1>2, <2>1, <3>1, <3>2 DEF Items
    <2> QED BY <1>1, <2>1, <2>2, <2>3, <2>4

  \* What becomes of a row.
  <1>12. ASSUME NEW r \in local'
         PROVE  \E s \in local :
                   /\ r \in LocalRows
                   /\ r.table = s.table
                   /\ r.id = IF s.table = "accounts" /\ s.id = old.id THEN new ELSE s.id
                   /\ r.ref = IF s.ref = old.id THEN new ELSE s.ref
    <2>1. PICK s \in local :
             r = [s EXCEPT !.id = IF s.table = old.table /\ s.id = old.id THEN new ELSE @,
                           !.ref = IF s.ref = old.id THEN new ELSE @]
      BY <1>8
    <2>2. s \in LocalRows
      BY DEF SyncInv, SyncTypes
    <2> QED BY <1>1, <1>2, <2>1, <2>2 DEF LocalRows

  \* What is old names nobody else, and what is new nothing that was renamed.
  <1>13. /\ \A n \in renamed' : n \in Int /\ n < 0
         /\ new \notin renamed'
    <2>1. \A n \in renamed : n \in Int /\ n < 0
      BY DEF SyncInv, SyncTypes
    <2> QED BY <1>1, <1>3, <1>5, <2>1
  <1>14. ASSUME NEW c \in DOMAIN queue, AnswersId(queue[c])
         PROVE  /\ queue[c].id = old.id => c = i
                /\ AnswersId(queue'[c]) /\ queue'[c].id = queue[c].id
    <2>1. queue[c] \in Items /\ c \in Nat /\ queue[c].id = - queue[c].write
      BY <1>14, ItemFacts DEF OwnName, Placeholder
    <2>2. queue[c].write \in Nat
      BY <2>1 DEF Items
    <2>3. queue[c].id = old.id => c = i
      <3>1. SUFFICES ASSUME queue[c].id = old.id PROVE c = i
        OBVIOUS
      <3>2. queue[c].write = queue[i].write
        BY <1>2, <1>3, <1>a, <2>1, <2>2, <3>1
      <3> QED BY <3>2 DEF SyncInv, WritesApart
    <2>4. queue'[c].id = queue[c].id
      BY <1>1, <1>11, <2>1, <2>3
    <2> QED BY <1>11, <1>14, <2>3, <2>4 DEF AnswersId
  <1>15. ASSUME NEW m, NEW k, Known(m, k) PROVE Known(m, k)'
    BY <1>5, <1>14, <1>15 DEF Known
  <1>16. \A k : Known(new, k)'
    BY <1>1 DEF Known
  <1>17. Waiting' = Waiting \ {i}
    BY <1>5, <1>11 DEF Waiting

  <1>18. SyncTypes'
    <2>1. queue' \in Seq(Items)
      <3>1. \A j \in 1 .. Len(queue) : queue'[j] \in Items
        BY <1>9, <1>11
      <3> QED BY <1>9, <1>10, <3>1, IsASeq
    <2>2. local' \in SUBSET LocalRows
      BY <1>12
    <2> QED BY <1>6, <1>13, <2>1, <2>2 DEF SyncInv, SyncTypes, ServedRight
  <1>19. SentFresh' /\ RoundWaits'
    <2>1. round \in SUBSET Waiting
      BY <1>6 DEF SyncInv, RoundWaits
    <2> QED BY <1>6, <1>17, <2>1, FlightEnds
  <1>20. NothingLost'
    <2> SUFFICES ASSUME login = "in", NEW v \in 1 .. writes
                 PROVE  \/ v \in applied'
                        \/ \E q \in awaited : q.write = v
                        \/ \E j \in DOMAIN queue' : queue'[j].write = v /\ ~ queue'[j].synced
      BY <1>6 DEF NothingLost
    <2>1. \/ v \in applied
          \/ \E q \in awaited : q.write = v
          \/ \E j \in DOMAIN queue : queue[j].write = v /\ ~ queue[j].synced
      BY DEF SyncInv, NothingLost
    <2>2. CASE v \in applied \/ \E q \in awaited : q.write = v
      BY <2>2 DEF ServedRight
    <2>3. ASSUME NEW j \in DOMAIN queue, queue[j].write = v, ~ queue[j].synced
          PROVE  \/ v \in applied'
                 \/ \E l \in DOMAIN queue' : queue'[l].write = v /\ ~ queue'[l].synced
      <3>1. CASE j = i
        BY <1>6, <1>a, <2>3, <3>1
      <3>2. CASE j # i
        BY <1>5, <1>11, <2>3, <3>2
      <3> QED BY <3>1, <3>2
    <2> QED BY <2>1, <2>2, <2>3
  <1>21. WritesApart'
    BY <1>5, <1>6, <1>11 DEF SyncInv, WritesApart
  <1>22. QueueKnows'
    <2> SUFFICES ASSUME NEW j \in DOMAIN queue
                 PROVE  (Plain(queue[j]) /\ OwnName(queue[j]) /\ Known(Name(queue[j]), j))'
      BY <1>5 DEF QueueKnows
    <2>1. /\ Plain(queue[j]) /\ OwnName(queue[j]) /\ Known(Name(queue[j]), j)
          /\ j \in Nat /\ queue[j] \in Items
      BY ItemFacts
    <2>2. PICK m : m = Name(queue[j])
      OBVIOUS
    <2>3. Known(m, j)'
      BY <1>15, <2>1, <2>2
    <2>4. /\ queue'[j].table = queue[j].table
          /\ queue'[j].id = queue[j].id \/ queue'[j].id = new
          /\ queue'[j].ref = queue[j].ref \/ queue'[j].ref = new
      BY <1>1, <1>11, <2>1
    <2>5. PICK s : s = queue'[j]
      OBVIOUS
    <2>6. Plain(s) /\ (Name(s) = m \/ Name(s) = new)
      BY <1>1, <2>1, <2>2, <2>4, <2>5 DEF Plain, Name
    <2>7. Known(Name(s), j)'
      <3>1. PICK l : l = Name(s)
        OBVIOUS
      <3>2. Known(l, j)'
        BY <1>16, <2>3, <2>6, <3>1
      <3> QED BY <3>1, <3>2 DEF Known, Name
    <2>8. AnswersId(s) => s.id = Placeholder(s.write)
      <3>1. AnswersId(s) => AnswersId(queue[j]) /\ s.write = queue[j].write
        BY <1>11, <2>5 DEF AnswersId
      <3>2. AnswersId(queue[j]) => s.id = queue[j].id
        BY <1>14, <2>5
      <3> QED BY <2>1, <3>1, <3>2 DEF OwnName
    <2> QED BY <2>5, <2>6, <2>7, <2>8 DEF Plain, OwnName, AnswersId, Placeholder, Known, Name
  <1>23. ASSUME NEW r \in local'
         PROVE  /\ Plain(r) /\ Known(Name(r), Len(queue))'
                /\ Name(r) \notin renamed' \ late'
    <2>1. PICK s \in local :
             /\ r.table = s.table
             /\ r.id = IF s.table = "accounts" /\ s.id = old.id THEN new ELSE s.id
             /\ r.ref = IF s.ref = old.id THEN new ELSE s.ref
      BY <1>12
    <2>2. PICK k : k = Len(queue)
      OBVIOUS
    <2>3. Plain(s) /\ Known(Name(s), k) /\ Name(s) \notin renamed \ late
      BY <2>2 DEF SyncInv, RowsKnow, AllFresh, Fresh
    <2>4. Plain(r) /\ Name(r) = IF Name(s) = old.id THEN new ELSE Name(s)
      BY <1>1, <2>1, <2>3 DEF Plain, Name
    <2>5. PICK n : n = Name(r)
      OBVIOUS
    <2>6. PICK m : m = Name(s)
      OBVIOUS
    <2>7. Known(m, k)'
      BY <1>15, <2>3, <2>6
    <2>8. Known(n, k)'
      BY <1>16, <2>4, <2>5, <2>6, <2>7
    <2>9. Len(queue') = k
      BY <1>5, <1>9, <1>18, <2>2, QueueTable DEF SyncTypes
    <2>10. Name(r) \notin renamed' \ late'
      BY <1>5, <1>6, <1>13, <2>3, <2>4
    <2> QED BY <2>4, <2>5, <2>8, <2>9, <2>10 DEF Known, Name
  <1>24. RowsKnow'
    BY <1>23 DEF RowsKnow, Plain, Known, Name
  <1>25. AwaitedKnow'
    <2> SUFFICES ASSUME NEW q \in awaited
                 PROVE  /\ Plain(q) /\ OwnName(q) /\ ~ q.synced
                        /\ login # "out" => AnswersId(q) \/ Known(Name(q), Len(queue))'
      BY <1>6 DEF AwaitedKnow, Plain, OwnName, AnswersId, Placeholder
    <2>1. PICK k : k = Len(queue)
      OBVIOUS
    <2>2. /\ Plain(q) /\ OwnName(q) /\ ~ q.synced
          /\ login # "out" => AnswersId(q) \/ Known(Name(q), k)
      BY <2>1 DEF SyncInv, AwaitedKnow
    <2>3. Known(Name(q), k) => Known(Name(q), k)'
      <3>1. PICK m : m = Name(q)
        OBVIOUS
      <3>2. Known(m, k) => Known(m, k)'
        BY <1>15
      <3> QED BY <3>1, <3>2 DEF Name, Known
    <2>4. Len(queue') = k
      BY <1>5, <1>9, <1>18, <2>1 DEF SyncTypes
    <2> QED BY <2>2, <2>3, <2>4 DEF Known, Name
  <1>26. ASSUME NEW j \in Waiting'
         PROVE  Name(queue'[j]) \notin renamed' \ late'
    <2>1. j \in Waiting /\ j \in DOMAIN queue /\ j # i /\ ~ queue[j].synced /\ j \in Nat
      BY <1>17, ItemFacts DEF Waiting
    <2>2. /\ Name(queue[j]) \notin renamed \ late
          /\ Plain(queue[j]) /\ Known(Name(queue[j]), j)
      BY <2>1, ItemFacts DEF SyncInv, AllFresh, Fresh
    <2>3. CASE j < i
      <3>1. Name(queue[j]) # old.id
        <4>1. SUFFICES ASSUME Name(queue[j]) = old.id PROVE FALSE
          OBVIOUS
        <4>2. PICK c \in DOMAIN queue : c <= j /\ AnswersId(queue[c]) /\ queue[c].id = old.id
          BY <1>3, <2>2, <4>1 DEF Known
        <4>3. c = i
          BY <1>14, <4>2
        <4> QED BY <1>1, <2>1, <2>3, <4>2, <4>3
      <3>2. Name(queue'[j]) = Name(queue[j])
        BY <1>1, <1>11, <2>1, <2>3 DEF Name
      <3> QED BY <1>5, <1>6, <2>2, <3>1, <3>2
    <2>4. CASE j > i
      <3>1. Name(queue'[j]) = IF Name(queue[j]) = old.id THEN new ELSE Name(queue[j])
        BY <1>11, <2>1, <2>4 DEF Name
      <3> QED BY <1>5, <1>6, <1>13, <2>2, <3>1
    <2> QED BY <1>1, <2>1, <2>3, <2>4
  <1>27. AllFresh'
    BY <1>23, <1>26 DEF AllFresh, Fresh, Name
  <1> QED BY <1>18, <1>19, <1>20, <1>21, <1>22, <1>24, <1>25, <1>27 DEF SyncInv

LEMMA AnsweredKeeps == SyncInv /\ Answered => SyncInv'
  <1> SUFFICES ASSUME SyncInv, Answered PROVE SyncInv'
    OBVIOUS
  <1>1. /\ InFlight /\ ItemDone /\ UNCHANGED <<writes, awaited, stage, late, login>>
        /\ Accepts(flight.req) /\ Serve(flight.req)
    BY DEF Answered
  <1>2. /\ queue[flight.item] \in Items /\ queue \in Seq(Items) /\ flight.item \in DOMAIN queue
        /\ flight.req = queue[flight.item] /\ flight.req \in Items /\ Plain(flight.req)
    BY <1>1, FlightFacts, ItemFacts, QueueTable DEF SyncInv
  <1>3. /\ ServedRight /\ (flight.req.op = "create" => ids' \in Nat \ {0})
        /\ flight.req.write \in applied'
    BY <1>1, <1>2, ServeTyped DEF SyncInv, ServedRight
  <1>4. CASE AnswersId(flight.req)
    <2>1. Rename(flight.item, ids') /\ ids' \in Nat \ {0}
      BY <1>3, <1>4 DEF Answered, AnswersId
    <2> QED BY <1>1, <1>3, <1>4, <2>1, RenamedKeeps
  <1>5. CASE ~ AnswersId(flight.req)
    <2>1. UNCHANGED <<local, renamed>> /\ queue' = [queue EXCEPT ![flight.item].synced = TRUE]
      BY <1>5 DEF Answered, MarkSynced
    <2>2. PICK c \in BOOLEAN : c = queue[flight.item].conflict
      BY <1>2 DEF Items
    <2>3. [queue[flight.item] EXCEPT !.synced = TRUE]
             = [queue[flight.item] EXCEPT !.synced = TRUE, !.conflict = c]
      BY <1>2, <2>2 DEF Items
    <2>4. queue' = [queue EXCEPT ![flight.item] = [@ EXCEPT !.synced = TRUE, !.conflict = c]]
      BY <1>2, <2>1, <2>3
    <2> QED BY <1>1, <1>3, <2>1, <2>4, MarkedKeeps
  <1> QED BY <1>4, <1>5

(* The rows that are pulled carry the server's ids.                          *)
LEMMA PullKeeps == SyncInv /\ Pull => SyncInv'
  <1> SUFFICES ASSUME SyncInv, Pull PROVE SyncInv'
    OBVIOUS
  <1>1. /\ UNCHANGED <<queue, server, ids, writes, awaited, round, flight, renamed, late, applied>>
        /\ local' = local \/ (stage # "push" /\ stage # "idle" /\ Overwrite(stage))
        /\ stage' \in {"idle", "push"} \union Tables
        /\ login # "out" /\ (login' = login \/ LoggedOff)
    BY DEF Pull, NextStage, SyncInv, SyncTypes, Tables
  <1>2. ASSUME NEW r \in local'
        PROVE  /\ r \in LocalRows
               /\ Plain(r) /\ Known(Name(r), Len(queue)) /\ Fresh(r)
    <2>1. CASE r \in local
      BY <2>1 DEF SyncInv, SyncTypes, RowsKnow, AllFresh
    <2>2. ASSUME NEW s \in Rows(server, stage), r = LocalRow(stage, s.id, s.ref, FALSE),
                 stage # "push", stage # "idle"
          PROVE  /\ r \in LocalRows
                 /\ Plain(r) /\ Known(Name(r), Len(queue)) /\ Fresh(r)
      <3>1. /\ s.id \in Nat \ {0} /\ s.ref \in Nat /\ stage \in Tables
            /\ \A n \in renamed : n < 0
        BY <2>2 DEF SyncInv, SyncTypes, Rows, ServerRows
      <3>2. r.table = stage /\ r.id = s.id /\ r.ref = s.ref
        BY <2>2 DEF LocalRow
      <3>3. r \in LocalRows
        BY <2>2, <3>1 DEF LocalRow, LocalRows
      <3>4. Plain(r) /\ Name(r) \in Nat
        BY <3>1, <3>2 DEF Plain, Name
      <3> QED BY <3>1, <3>3, <3>4 DEF Fresh, Known
    <2> QED BY <1>1, <2>1, <2>2 DEF Overwrite
  <1>3. /\ login' \in {"in", "leaving"} /\ (login' = "in" => login = "in")
    BY <1>1 DEF SyncInv, SyncTypes, LoggedOff
  <1>4. SyncTypes'
    <2>1. local' \in SUBSET LocalRows
      BY <1>2
    <2> QED BY <1>1, <1>3, <2>1 DEF SyncInv, SyncTypes
  <1>5. SentFresh' /\ RoundWaits'
    BY <1>1, FlightGoesOn
  <1>6. NothingLost' /\ WritesApart'
    BY <1>1, <1>3 DEF SyncInv, NothingLost, WritesApart
  <1>7. QueueKnows' /\ AwaitedKnow'
    BY <1>1, <1>3 DEF SyncInv, QueueKnows, AwaitedKnow, Known, Name, Plain, OwnName
  <1>8. RowsKnow'
    BY <1>1, <1>2 DEF RowsKnow, Known, Name, Plain
  <1>9. AllFresh'
    BY <1>1, <1>2 DEF SyncInv, AllFresh, Waiting, Fresh, Name
  <1> QED BY <1>4, <1>5, <1>6, <1>7, <1>8, <1>9 DEF SyncInv

-----------------------------------------------------------------------------
LEMMA SyncStep == SyncInv /\ [SyncNext]_syncVars => SyncInv'
  <1> SUFFICES ASSUME SyncInv, [SyncNext]_syncVars PROVE SyncInv'
    OBVIOUS
  <1>1. CASE UNCHANGED syncVars
    <2>1. ServedRight /\ SyncTypes
      BY <1>1, NoneServed DEF SyncInv, NotServed, syncVars
    <2>2. SentFresh' /\ (login # "out" => RoundWaits')
      BY <1>1, FlightGoesOn DEF syncVars
    <2>3. stage' \in {"idle", "push"} \union Tables /\ login' \in {"in", "leaving", "out"}
      BY <1>1, <2>1 DEF syncVars, SyncTypes
    <2> QED BY <1>1, <2>1, <2>2, <2>3, QuietKeeps DEF syncVars
  <1>2. ASSUME NEW q \in awaited, Granted(q) \/ Kept(q) \/ TurnedAway(q) PROVE SyncInv'
    BY <1>2, GrantedKeeps, KeptKeeps, TurnedAwayKeeps
  <1> QED BY <1>1, <1>2, WriteKeeps, LogOutKeeps, ResetKeeps, StartSyncKeeps, PushItemKeeps,
             AnsweredKeeps, RefusedKeeps, UnauthenticatedKeeps, UnansweredKeeps, OutOfBaseKeeps,
             PullKeeps DEF SyncNext

(* The invariant holds of every behaviour of the client.                     *)
THEOREM SyncAlways == SyncSpec => []SyncInv
  <1> QED BY SyncStarts, SyncStep, PTL DEF SyncSpec

(* Until a logout no write is lost, for any number of writes and of          *)
(* failures: it has reached the server, or its request is awaited, or it is  *)
(* queued.                                                                   *)
THEOREM NothingLostAlways == SyncSpec => []NothingLost
  <1>1. SyncInv => NothingLost
    BY DEF SyncInv
  <1> QED BY <1>1, SyncAlways, PTL

(* Once the server has named an account no request of the queue carries its  *)
(* placeholder, but for one a write brought back that was awaited meanwhile. *)
THEOREM NamesKeptAlways == SyncSpec => []NamesKept
  <1>1. ASSUME SyncInv PROVE NamesKept
    <2> SUFFICES ASSUME flight # NoRequest
                 PROVE  /\ flight.req.ref \notin renamed \ late
                        /\ flight.req.table = "accounts" => flight.req.id \notin renamed \ late
      BY DEF NamesKept
    <2>1. Plain(flight.req) /\ Name(flight.req) \notin renamed \ late
      BY <1>1 DEF SyncInv, SentFresh, Fresh
    <2>2. \A n \in renamed : n \in Int /\ n < 0
      BY <1>1 DEF SyncInv, SyncTypes
    <2>3. flight.req.ref \notin renamed \ late
      BY <2>1, <2>2 DEF Plain, Name
    <2> QED BY <2>1, <2>3 DEF Name
  <1> QED BY <1>1, SyncAlways, PTL

-----------------------------------------------------------------------------
(* The conversation: the invariant                                           *)

Roles == {"user", "assistant"}
Messages == [role : Roles, sid : Nat, chat : Nat, card : BOOLEAN]
MessagesOf(c) == {m \in Messages : m.chat = c}
Answers == {a \in [phase : {"unused", "creating", "open", "closing", "over"},
                   kind : {"send", "edit", "regenerate", "workflow"},
                   chat : Nat, from : Nat, of : Nat, wire : Seq([role : Roles, id : Nat \ {0}])] :
               a.phase = "creating" => a.kind \in {"send", "workflow"}}
Pages == [phase : {"unused", "asked", "served", "over"}, what : {"select", "more"},
          chat : Nat, page : Nat \ {0}, seq : Nat, list : Seq(Messages), total : Nat]

(* Rows are of chats that exist, and the page shows one of those or none.    *)
ChatTypes ==
    /\ lastChat \in Nat /\ chats \in SUBSET (1 .. lastChat) /\ lastId \in Nat
    /\ rows \in SUBSET [id : 1 .. lastId, chat : chats, role : Roles] /\ IsFiniteSet(rows)
    /\ current \in chats \union {NoChat} /\ messages \in Seq(Messages)
    /\ controller \in Streams \union {NoStream}
    /\ seq \in Nat /\ page \in Nat \ {0} /\ total \in Nat
    /\ stream \in [Streams -> Answers]
    /\ job \in [Streams -> {"unused", "cut", "ask", "answer", "over"}]
    /\ load \in [Loads -> Pages]

(* A page that is asked for is one of an older selection, or of the one that *)
(* is waited for, and brings messages of the chat it was asked for.          *)
Pending(l) == load[l].phase \in {"asked", "served"}
Selects(l) == Pending(l) /\ load[l].what = "select"
LoadsApart ==
    /\ \A l \in Loads : Pending(l) => load[l].chat \in 1 .. lastChat /\ load[l].seq <= seq
    /\ \A l \in Loads : Selects(l) /\ Wanted(l) => awaiting
    /\ \A l, m \in Loads : Selects(l) /\ Selects(m) /\ load[l].seq = load[m].seq => l = m
    /\ \A l \in Loads : load[l].phase = "served" => load[l].list \in Seq(MessagesOf(load[l].chat))

OneChat == awaiting \/ messages \in Seq(MessagesOf(current))

ShowsInv == ChatTypes /\ LoadsApart /\ OneChat

-----------------------------------------------------------------------------
(* The first n of some messages: those with an id are in order; a question   *)
(* has one and a card has none.                                              *)
Named(m, n) == {i \in 1 .. n : m[i].sid # 0}
Pairs(m, n) == {<<m[i].sid, m[i].role>> : i \in Named(m, n)}
Below(m, n, x) == \A i \in Named(m, n) : m[i].sid < x
Tidy(m, n) ==
    /\ \A i \in 1 .. n : /\ m[i].role = "user" => m[i].sid # 0
                         /\ m[i].card => (m[i].sid = 0 /\ m[i].role = "assistant")
    /\ \A i, j \in Named(m, n) : i < j => m[i].sid < m[j].sid
Held(c) == {<<r.id, r.role>> : r \in History(c)}
Agrees(m, c) == Tidy(m, Len(m)) /\ Pairs(m, Len(m)) = Held(c)

(* While an answer is received, the last two messages are its question and   *)
(* its reply; what is before them, and what of them is stored, are the rows. *)
Old == Len(messages) - 2
Question == messages[Len(messages) - 1]
Reply == messages[Len(messages)]
OldPairs == Pairs(messages, Old)
BeforeCut(k) ==
    \/ /\ stream[k].kind = "send" /\ stream[k].from = 0
       /\ Question.sid = 0 /\ Held(current) = OldPairs
    \/ /\ stream[k].kind = "edit" /\ stream[k].from > 0
       /\ Below(messages, Old, stream[k].from)
       /\ OldPairs = {h \in Held(current) : h[1] < stream[k].from}
    \/ /\ stream[k].kind = "regenerate" /\ stream[k].from = 0
       /\ Question.sid > 0 /\ Below(messages, Old, Question.sid)
       /\ OldPairs \union {<<Question.sid, "user">>} \subseteq Held(current)
       /\ \A h \in Held(current) : \/ h \in OldPairs \union {<<Question.sid, "user">>}
                                   \/ h[2] = "assistant" /\ h[1] > Question.sid
BeforeAsk(k) ==
    IF stream[k].kind = "regenerate"
    THEN /\ Question.sid > 0 /\ Below(messages, Old, Question.sid)
         /\ Held(current) = OldPairs \union {<<Question.sid, "user">>}
    ELSE Held(current) = OldPairs
Event(role, x) == [role |-> role, id |-> x]
OnItsWay(k, x, y) ==
    \/ stream[k].wire = <<>> /\ Question.sid = x /\ Reply.sid = y
    \/ stream[k].wire = <<Event("user", x)>> /\ Reply.sid = 0 /\ y = 0
    \/ stream[k].wire = <<Event("user", x), Event("assistant", y)>> /\ Reply.sid = 0 /\ y # 0
    \/ stream[k].wire = <<Event("assistant", y)>> /\ Question.sid = x /\ Reply.sid = 0 /\ y # 0
InRows(x, y) ==
    /\ Below(messages, Old, x) /\ (y # 0 => x < y)
    /\ Held(current) = OldPairs \union {<<x, "user">>}
                                \union (IF y = 0 THEN {} ELSE {<<y, "assistant">>})
Stage(k) ==
    \/ job[k] = "cut" /\ stream[k].wire = <<>> /\ Reply.sid = 0 /\ BeforeCut(k)
    \/ job[k] = "ask" /\ stream[k].wire = <<>> /\ Reply.sid = 0 /\ BeforeAsk(k)
    \/ \E x \in Nat \ {0}, y \in Nat :
          /\ InRows(x, y) /\ OnItsWay(k, x, y)
          /\ (job[k] = "answer" /\ y = 0) \/ job[k] = "over"
InExchange(k) ==
    /\ Len(messages) >= 2 /\ Tidy(messages, Old)
    /\ Question.role = "user" /\ ~ Question.card /\ Reply.role = "assistant" /\ ~ Reply.card
    /\ stream[k].kind # "workflow" /\ Stage(k)

Busy(k) == stream[k].phase = "open"
AnswersAlone == ~ parted =>
    \A k \in Streams : IF Busy(k) THEN k = controller ELSE job[k] \in {"unused", "over"}
FirstPages == ~ parted =>
    total <= PageSize /\ \A l \in Loads : Pending(l) => load[l].what = "select" /\ load[l].page = 1
FetchFits == ~ parted /\ awaiting =>
    /\ \A k \in Streams : ~ Busy(k)
    /\ \A l \in Loads : load[l].phase = "served" /\ Wanted(l) /\ load[l].total <= PageSize
                            => Agrees(load[l].list, current)
RestFits == ~ parted /\ ~ awaiting /\ current # NoChat /\ (\A k \in Streams : ~ Busy(k))
    => Agrees(messages, current)
OpenFits == ~ parted /\ current # NoChat =>
    \A k \in Streams : Busy(k) => current = stream[k].chat /\ InExchange(k)

AgreeInv == AnswersAlone /\ FirstPages /\ FetchFits /\ RestFits /\ OpenFits

-----------------------------------------------------------------------------
(* What the page shows: one chat                                             *)

LEMMA EventTyped ==
  ASSUME NEW role \in Roles, NEW x \in Nat \ {0}
  PROVE  Event(role, x) \in [role : Roles, id : Nat \ {0}]
  BY DEF Event

LEMMA NoAnswerTyped == NoAnswer \in Answers
  BY DEF NoAnswer, NoChat, Answers

LEMMA NoLoadTyped == NoLoad \in Pages
  BY DEF NoLoad, NoChat, Pages

LEMMA SaidTyped ==
  ASSUME NEW role \in Roles, NEW c \in Nat
  PROVE  /\ Said(role, c) \in MessagesOf(c)
         /\ Said(role, c).sid = 0 /\ Said(role, c).role = role /\ Said(role, c).card = FALSE
  BY DEF Said, MessagesOf, Messages

(* Only answers both ends are done with are forgotten.                       *)
LEMMA SettledIs ==
  ASSUME NEW s \in [Streams -> Answers], NEW j
  PROVE  /\ Settled(s, j) \in [Streams -> Answers]
         /\ \A k \in Streams : /\ Settled(s, j)[k].phase = s[k].phase
                               /\ s[k].phase # "over" => Settled(s, j)[k] = s[k]
  <1>1. [NoAnswer EXCEPT !.phase = "over"] \in Answers
        /\ [NoAnswer EXCEPT !.phase = "over"].phase = "over"
    BY NoAnswerTyped DEF Answers
  <1> QED BY <1>1 DEF Settled

LEMMA AbortedIs ==
  ASSUME ChatTypes
  PROVE  /\ Aborted \in [Streams -> Answers]
         /\ \A k \in Streams :
              Aborted[k].phase = IF k = controller /\ Busy(k) THEN "closing" ELSE stream[k].phase
  <1>1. ASSUME NEW k \in Streams
        PROVE  /\ [stream[k] EXCEPT !.phase = "closing", !.wire = <<>>] \in Answers
               /\ [stream[k] EXCEPT !.phase = "closing", !.wire = <<>>].phase = "closing"
    <2>1. stream[k] \in Answers
      BY DEF ChatTypes
    <2>2. <<>> \in Seq([role : Roles, id : Nat \ {0}])
      OBVIOUS
    <2> QED BY <2>1, <2>2 DEF Answers
  <1> QED BY <1>1 DEF Aborted, ChatTypes, Busy

(* An answer breaks off unless none is received.                             *)
LEMMA NoneBusy ==
  ASSUME ChatTypes, AnswersAlone, ~ parted, ~ BreaksOff
  PROVE  Aborted = stream /\ \A k \in Streams : ~ Busy(k) /\ job[k] \in {"unused", "over"}
  <1>1. ASSUME NEW k \in Streams PROVE ~ Busy(k)
    <2>1. Aborted = stream
      BY DEF BreaksOff
    <2> QED BY <2>1, AbortedIs DEF AnswersAlone, Busy
  <1> QED BY <1>1 DEF AnswersAlone, BreaksOff

(* An answer that begins is the one received; the others are as the abort    *)
(* left them.                                                                *)
Begun(k, kind, c, from, msgs) ==
    /\ stream' \in [Streams -> Answers] /\ controller' \in Streams \union {NoStream}
    /\ job' \in [Streams -> {"unused", "cut", "ask", "answer", "over"}]
    /\ stream'[k].phase = "open" /\ stream'[k].kind = kind /\ stream'[k].chat = c
    /\ stream'[k].from = from /\ stream'[k].wire = <<>> /\ job'[k] = "cut"
    /\ \A j \in Streams \ {k} : stream'[j] = Aborted[j] /\ job'[j] = job[j]
    /\ controller' = k /\ messages' = msgs

LEMMA BeginTyped ==
  ASSUME ChatTypes, NEW k \in Streams, NEW kind \in {"send", "edit", "regenerate", "workflow"},
         NEW c \in Nat, NEW from \in Nat, NEW of \in Nat, NEW msgs, NEW flag,
         Begin(k, kind, c, from, of, msgs, flag)
  PROVE  Begun(k, kind, c, from, msgs)
  <1> DEFINE a == [phase |-> "open", kind |-> kind, chat |-> c, from |-> from, of |-> of,
                   wire |-> <<>>]
  <1>1. /\ a \in Answers /\ a.phase = "open" /\ a.kind = kind /\ a.chat = c
        /\ a.from = from /\ a.wire = <<>>
    <2>1. <<>> \in Seq([role : Roles, id : Nat \ {0}])
      OBVIOUS
    <2> QED BY <2>1 DEF Answers
  <1>2. stream' = [Aborted EXCEPT ![k] = a] /\ job' = [job EXCEPT ![k] = "cut"]
        /\ controller' = k /\ messages' = msgs
    BY DEF Begin
  <1> HIDE DEF a
  <1> QED BY <1>1, <1>2, AbortedIs DEF ChatTypes, Begun

(* The steps that neither touch the messages shown nor ask for any.          *)
LEMMA ShowsSame ==
  ASSUME LoadsApart, OneChat, UNCHANGED <<current, messages, awaiting, load, seq, lastChat>>
  PROVE  LoadsApart' /\ OneChat'
  BY DEF LoadsApart, OneChat, Pending, Selects, Wanted, MessagesOf

(* Messages of the chat shown give way to others of it.                      *)
LEMMA ShowsOther ==
  ASSUME LoadsApart, messages' \in Seq(MessagesOf(current)) \/ awaiting,
         UNCHANGED <<current, awaiting, load, seq, lastChat>>
  PROVE  LoadsApart' /\ OneChat'
  BY DEF LoadsApart, OneChat, Pending, Selects, Wanted, MessagesOf

(* The page goes on to no chat, or to a new one.                             *)
LEMMA ShowsNew ==
  ASSUME ChatTypes, LoadsApart, lastChat' \in {lastChat, lastChat + 1},
         current' = NoChat \/ (current' = lastChat + 1 /\ lastChat' = lastChat + 1),
         messages' \in Seq(MessagesOf(current')), UNCHANGED <<load, seq>>
  PROVE  LoadsApart' /\ OneChat'
  <1>1. lastChat \in Nat /\ current' \notin 1 .. lastChat
    BY DEF ChatTypes, NoChat
  <1>2. \A l \in Loads : Pending(l)' = Pending(l) /\ Selects(l)' = Selects(l)
    BY DEF Pending, Selects
  <1>3. \A l \in Loads : Pending(l) => ~ Wanted(l)'
    BY <1>1 DEF LoadsApart, Wanted
  <1>4. 1 .. lastChat \subseteq 1 .. lastChat'
    BY <1>1
  <1>5. \A l \in Loads : Pending(l)' => load'[l].chat \in 1 .. lastChat' /\ load'[l].seq <= seq'
    BY <1>2, <1>4 DEF LoadsApart
  <1>6. \A l \in Loads : Selects(l)' /\ Wanted(l)' => awaiting'
    BY <1>2, <1>3 DEF Selects
  <1>7. \A l, m \in Loads : Selects(l)' /\ Selects(m)' /\ load'[l].seq = load'[m].seq => l = m
    BY <1>2 DEF LoadsApart
  <1>8. \A l \in Loads : load'[l].phase = "served"
                            => load'[l].list \in Seq(MessagesOf(load'[l].chat))
    BY DEF LoadsApart
  <1>9. OneChat'
    BY DEF OneChat, MessagesOf
  <1> QED BY <1>5, <1>6, <1>7, <1>8, <1>9 DEF LoadsApart, MessagesOf

(* The rows: some go, or one of the chat asked about is added.               *)
LEMMA FewerRows ==
  ASSUME ChatTypes, rows' \in SUBSET rows, UNCHANGED <<chats, lastId>>
  PROVE  /\ rows' \in SUBSET [id : 1 .. lastId', chat : chats', role : Roles]
         /\ IsFiniteSet(rows')
  BY FS_Subset DEF ChatTypes

LEMMA CutRows ==
  ASSUME NEW c, NEW id, DeleteLastAnswer(c) \/ DeleteFrom(c, id) \/ UNCHANGED rows
  PROVE  rows' \in SUBSET rows
  BY DEF DeleteLastAnswer, DeleteFrom

LEMMA MoreRows ==
  ASSUME ChatTypes, NEW k \in Streams, NEW role \in Roles, Insert(k, role), UNCHANGED chats
  PROVE  /\ lastId' = lastId + 1 /\ lastId' \in Nat
         /\ rows' \in SUBSET [id : 1 .. lastId', chat : chats', role : Roles]
         /\ IsFiniteSet(rows')
  <1>1. lastId \in Nat /\ lastId' = lastId + 1
    BY DEF Insert, ChatTypes
  <1>2. [id |-> lastId + 1, chat |-> stream[k].chat, role |-> role]
            \in [id : 1 .. lastId', chat : chats', role : Roles]
    BY <1>1 DEF Insert
  <1>3. rows \in SUBSET [id : 1 .. lastId', chat : chats', role : Roles]
    BY <1>1 DEF ChatTypes
  <1>4. IsFiniteSet(rows')
    BY FS_AddElement DEF Insert, ChatTypes
  <1> QED BY <1>1, <1>2, <1>3, <1>4 DEF Insert

LEMMA ToldIs ==
  ASSUME ChatTypes, NEW k \in Streams, NEW role \in Roles
  PROVE  /\ Told(k, role) \in [Streams -> Answers]
         /\ \A j \in Streams \ {k} : Told(k, role)[j] = stream[j]
         /\ Told(k, role)[k].phase = stream[k].phase /\ Told(k, role)[k].kind = stream[k].kind
         /\ Told(k, role)[k].chat = stream[k].chat /\ Told(k, role)[k].from = stream[k].from
         /\ Busy(k) => Told(k, role)[k].wire = Append(stream[k].wire, Event(role, lastId + 1))
  <1> DEFINE w == IF stream[k].phase = "open"
                  THEN Append(stream[k].wire, Event(role, lastId + 1)) ELSE stream[k].wire
  <1>1. stream[k] \in Answers /\ lastId + 1 \in Nat \ {0}
    BY DEF ChatTypes
  <1>2. w \in Seq([role : Roles, id : Nat \ {0}])
    <2>1. stream[k].wire \in Seq([role : Roles, id : Nat \ {0}])
      BY <1>1 DEF Answers
    <2>2. Event(role, lastId + 1) \in [role : Roles, id : Nat \ {0}]
      BY <1>1, EventTyped
    <2>3. Append(stream[k].wire, Event(role, lastId + 1))
              \in Seq([role : Roles, id : Nat \ {0}])
      BY ONLY <2>1, <2>2, AppendProperties
    <2> QED BY <2>1, <2>3
  <1>3. Told(k, role) = [stream EXCEPT ![k].wire = w]
    BY DEF Told, Event
  <1>4. Busy(k) => w = Append(stream[k].wire, Event(role, lastId + 1))
    BY DEF Busy
  <1> HIDE DEF w
  <1>5. [stream[k] EXCEPT !.wire = w] \in Answers
    BY <1>1, <1>2 DEF Answers
  <1>6. stream \in [Streams -> Answers] /\ [stream[k] EXCEPT !.wire = w].wire = w
    BY <1>1 DEF ChatTypes, Answers
  <1>7. Told(k, role) = [stream EXCEPT ![k] = [stream[k] EXCEPT !.wire = w]]
    BY <1>3
  <1>8. Told(k, role) \in [Streams -> Answers]
        /\ \A j \in Streams \ {k} : Told(k, role)[j] = stream[j]
    BY <1>5, <1>6, <1>7
  <1>9. Told(k, role)[k] = [stream[k] EXCEPT !.wire = w]
    BY <1>6, <1>7
  <1> QED BY <1>1, <1>4, <1>6, <1>8, <1>9 DEF Answers

LEMMA ServerShows ==
  ASSUME ShowsInv, NEW k \in Streams, RefuseChat(k) \/ Cut(k) \/ Ask(k) \/ Answer(k)
  PROVE  ShowsInv'
<1>1. UNCHANGED <<chats, lastChat, current, messages, controller, seq, page, total, awaiting, load>>
  BY DEF RefuseChat, Cut, Ask, Answer, stored, shown, paging
<1>2. LoadsApart' /\ OneChat'
  BY <1>1, ShowsSame DEF ShowsInv
<1>3. job' \in [Streams -> {"unused", "cut", "ask", "answer", "over"}]
  BY DEF RefuseChat, Cut, Ask, Answer, ShowsInv, ChatTypes
<1>4. ChatTypes
  BY DEF ShowsInv
<1>5. CASE RefuseChat(k)
  <2>1. UNCHANGED <<rows, lastId>> /\ stream' = Settled(stream, job')
    BY <1>5 DEF RefuseChat, stored
  <2>2. stream' \in [Streams -> Answers]
    BY <1>4, <2>1, SettledIs DEF ChatTypes
  <2> QED BY <1>1, <1>2, <1>3, <2>1, <2>2 DEF ShowsInv, ChatTypes
<1>6. CASE Cut(k)
  <2>1. UNCHANGED <<lastId, stream>> /\ rows' \in SUBSET rows
    BY <1>6, CutRows DEF Cut
  <2> QED BY <1>1, <1>2, <1>3, <1>4, <2>1, FewerRows DEF ShowsInv, ChatTypes
<1>7. CASE Ask(k)
  <2>1. CASE Insert(k, "user") /\ stream' = Told(k, "user")
    <3>1. stream' \in [Streams -> Answers]
      BY <1>4, <2>1, ToldIs DEF Roles
    <3>2. lastId' \in Nat /\ rows' \in SUBSET [id : 1 .. lastId', chat : chats', role : Roles]
          /\ IsFiniteSet(rows')
      BY <1>1, <1>4, <2>1, MoreRows DEF Roles
    <3> QED BY <1>1, <1>2, <1>3, <3>1, <3>2 DEF ShowsInv, ChatTypes
  <2>2. CASE UNCHANGED <<rows, lastId, stream>>
    BY <1>1, <1>2, <1>3, <2>2 DEF ShowsInv, ChatTypes
  <2> QED BY <1>7, <2>1, <2>2 DEF Ask
<1>8. CASE Answer(k)
  <2>1. CASE Insert(k, "assistant")
    <3>1. \E s \in [Streams -> Answers] : stream' = Settled(s, job')
      <4>1. Told(k, "assistant") \in [Streams -> Answers] /\ stream \in [Streams -> Answers]
        BY <1>4, ToldIs DEF Roles, ChatTypes
      <4> QED BY <1>8, <4>1 DEF Answer
    <3>2. stream' \in [Streams -> Answers]
      BY <3>1, SettledIs
    <3>3. lastId' \in Nat /\ rows' \in SUBSET [id : 1 .. lastId', chat : chats', role : Roles]
          /\ IsFiniteSet(rows')
      BY <1>1, <1>4, <2>1, MoreRows DEF Roles
    <3> QED BY <1>1, <1>2, <1>3, <3>2, <3>3 DEF ShowsInv, ChatTypes
  <2>2. CASE UNCHANGED <<rows, lastId>> /\ stream' = Settled(stream, job')
    <3>1. stream' \in [Streams -> Answers]
      BY <1>4, <2>2, SettledIs DEF ChatTypes
    <3> QED BY <1>1, <1>2, <1>3, <2>2, <3>1 DEF ShowsInv, ChatTypes
  <2> QED BY <1>8, <2>1, <2>2 DEF Answer
<1> QED BY <1>5, <1>6, <1>7, <1>8

(* A step of the page that leaves the rows alone.                            *)
RowsSame == UNCHANGED <<chats, lastChat, rows, lastId>>

(* Messages and events keep their types.                                     *)
LEMMA Relabelled ==
  ASSUME NEW c, NEW m \in MessagesOf(c), NEW x \in Nat
  PROVE  [m EXCEPT !.sid = x] \in MessagesOf(c) /\ [m EXCEPT !.card = FALSE] \in MessagesOf(c)
  BY DEF MessagesOf, Messages

LEMMA RelabelledAny ==
  ASSUME NEW m \in Messages, NEW x \in Nat
  PROVE  [m EXCEPT !.sid = x] \in Messages /\ [m EXCEPT !.card = FALSE] \in Messages
  BY DEF Messages

LEMMA Several ==
  ASSUME NEW S, NEW s \in Seq(S), NEW a \in S, NEW b \in S
  PROVE  /\ s \o <<a, b>> \in Seq(S) /\ Append(s, a) \in Seq(S) /\ <<a, b>> \in Seq(S)
         /\ <<a>> \in Seq(S)
         /\ \A i \in DOMAIN s : /\ Append(SubSeq(s, 1, i), a) \in Seq(S)
                                /\ RemoveAt(s, i) \in Seq(S)
  <1>1. ASSUME NEW i \in DOMAIN s
        PROVE  SubSeq(s, 1, i) \in Seq(S) /\ RemoveAt(s, i) \in Seq(S)
    <2>1. i \in 1 .. Len(s) /\ Len(s) \in Nat
      OBVIOUS
    <2>2. SubSeq(s, 1, i) \in Seq(S) /\ SubSeq(s, 1, i - 1) \in Seq(S)
          /\ SubSeq(s, i + 1, Len(s)) \in Seq(S)
      BY <2>1
    <2> QED BY <2>2 DEF RemoveAt
  <1> QED BY <1>1

LEMMA MapTyped ==
  ASSUME NEW S, NEW s \in Seq(S), NEW t, DOMAIN t = DOMAIN s, t = [i \in DOMAIN t |-> t[i]],
         \A i \in DOMAIN s : t[i] \in S
  PROVE  t \in Seq(S) /\ Len(t) = Len(s)
  <1>1. Len(s) \in Nat /\ DOMAIN t = 1 .. Len(s)
    OBVIOUS
  <1>2. t \in [1 .. Len(s) -> S]
    BY <1>1
  <1> QED BY <1>1, <1>2

LEMMA BeginShows ==
  ASSUME ShowsInv, NEW k \in Streams, NEW kind \in {"send", "edit", "regenerate", "workflow"},
         NEW from \in Nat, NEW of \in Nat, NEW msgs, NEW flag,
         Begin(k, kind, current, from, of, msgs, flag),
         msgs \in Seq(Messages), awaiting \/ msgs \in Seq(MessagesOf(current)),
         UNCHANGED <<stored, current, paging, load, awaiting>>
  PROVE  ShowsInv'
  <1>1. RowsSame /\ UNCHANGED <<current, seq, page, total, load, awaiting>>
    BY DEF RowsSame, stored, paging
  <1>2. current \in Nat /\ ChatTypes
    BY DEF ShowsInv, ChatTypes, NoChat
  <1>5. PICK c \in Nat : c = current
    BY <1>2
  <1>6. /\ ChatTypes /\ k \in Streams /\ kind \in {"send", "edit", "regenerate", "workflow"}
        /\ c \in Nat /\ from \in Nat /\ of \in Nat /\ Begin(k, kind, c, from, of, msgs, flag)
    BY <1>2, <1>5
  <1>3. /\ stream' \in [Streams -> Answers] /\ controller' \in Streams \union {NoStream}
        /\ job' \in [Streams -> {"unused", "cut", "ask", "answer", "over"}] /\ messages' = msgs
    <2>1. Begun(k, kind, c, from, msgs)
      BY ONLY <1>6, BeginTyped
    <2> QED BY <2>1 DEF Begun
  <1>4. LoadsApart' /\ OneChat'
    BY <1>1, <1>3, ShowsOther DEF ShowsInv, RowsSame
  <1> QED BY <1>1, <1>3, <1>4 DEF ShowsInv, ChatTypes, RowsSame

LEMMA CardTyped ==
  ASSUME NEW c \in Nat
  PROVE  /\ Card(c) \in MessagesOf(c)
         /\ Card(c).sid = 0 /\ Card(c).role = "assistant"
  <1>1. Said("assistant", c) \in Messages /\ Said("assistant", c).sid = 0
        /\ Said("assistant", c).role = "assistant" /\ Said("assistant", c).chat = c
    BY DEF Said, Messages, Roles
  <1>2. Card(c) \in Messages /\ Card(c).sid = 0 /\ Card(c).role = "assistant" /\ Card(c).chat = c
    BY <1>1 DEF Card, Messages
  <1> QED BY <1>2 DEF MessagesOf, Messages, Roles

(* What is said of a message holds for one of the chat and for one of any.   *)
LEMMA SaidHere ==
  ASSUME ShowsInv, NEW role \in Roles
  PROVE  /\ Said(role, current) \in MessagesOf(current) /\ Said(role, current) \in Messages
         /\ Card(current) \in MessagesOf(current) /\ Card(current) \in Messages
  <1>1. current \in Nat
    BY DEF ShowsInv, ChatTypes, NoChat
  <1>2. PICK c \in Nat : c = current
    BY <1>1
  <1>3. Said(role, c) \in MessagesOf(c) /\ Card(c) \in MessagesOf(c)
    BY SaidTyped, CardTyped
  <1> QED BY <1>2, <1>3 DEF MessagesOf

LEMMA SendShows ==
  ASSUME ShowsInv, NEW k \in Streams, NEW kind \in {"send", "workflow"}, SendMessage(k, kind)
  PROVE  ShowsInv'
  <1> DEFINE a == Said("user", current)
             b == Said("assistant", current)
  <1>1. /\ a \in MessagesOf(current) /\ a \in Messages
        /\ b \in MessagesOf(current) /\ b \in Messages
    BY SaidHere DEF Roles
  <1>2. Begin(k, kind, current, 0, NoChat, messages \o <<a, b>>, FALSE)
        /\ UNCHANGED <<stored, current, paging, load, awaiting>>
    BY DEF SendMessage
  <1> HIDE DEF a, b
  <1>3. messages \o <<a, b>> \in Seq(Messages)
    BY <1>1, Several DEF ShowsInv, ChatTypes
  <1>4. awaiting \/ messages \o <<a, b>> \in Seq(MessagesOf(current))
    BY <1>1, Several DEF ShowsInv, OneChat
  <1> QED BY <1>2, <1>3, <1>4, BeginShows DEF NoChat

LEMMA ShortenedTyped ==
  ASSUME ShowsInv, NEW i \in DOMAIN messages
  PROVE  /\ Append(SubSeq(messages, 1, i), Said("assistant", current)) \in Seq(Messages)
         /\ awaiting \/ Append(SubSeq(messages, 1, i), Said("assistant", current))
                           \in Seq(MessagesOf(current))
  <1> DEFINE b == Said("assistant", current)
  <1>1. b \in MessagesOf(current) /\ b \in Messages
    BY SaidHere DEF Roles
  <1> HIDE DEF b
  <1>2. Append(SubSeq(messages, 1, i), b) \in Seq(Messages)
    BY <1>1, Several DEF ShowsInv, ChatTypes
  <1>3. awaiting \/ Append(SubSeq(messages, 1, i), b) \in Seq(MessagesOf(current))
    BY <1>1, Several DEF ShowsInv, OneChat
  <1> QED BY <1>2, <1>3 DEF b

LEMMA EditShows ==
  ASSUME ShowsInv, NEW k \in Streams, NEW i \in DOMAIN messages, Edit(k, i)
  PROVE  ShowsInv'
  <1>1. Begin(k, "edit", current, messages[i].sid, messages[i].chat,
              Append(SubSeq(messages, 1, i), Said("assistant", current)), FALSE)
        /\ UNCHANGED <<stored, current, paging, load, awaiting>>
    BY DEF Edit
  <1>2. messages[i] \in Messages
    BY DEF ShowsInv, ChatTypes
  <1>3. messages[i].sid \in Nat /\ messages[i].chat \in Nat
    BY <1>2 DEF Messages
  <1> QED BY <1>1, <1>3, ShortenedTyped, BeginShows

LEMMA RegenerateShows ==
  ASSUME ShowsInv, NEW k \in Streams, Regenerate(k)
  PROVE  ShowsInv'
  <1>1. PICK i \in DOMAIN messages :
            Begin(k, "regenerate", current, 0, NoChat,
                  Append(SubSeq(messages, 1, i), Said("assistant", current)), FALSE)
    BY DEF Regenerate
  <1>2. UNCHANGED <<stored, current, paging, load, awaiting>>
    BY DEF Regenerate
  <1> QED BY <1>1, <1>2, ShortenedTyped, BeginShows DEF NoChat

LEMMA UncardedTyped ==
  ASSUME NEW S, S = Messages \/ \E c : S = MessagesOf(c), NEW s \in Seq(S), NEW i \in DOMAIN s
  PROVE  [s EXCEPT ![i].card = FALSE] \in Seq(S)
  <1> DEFINE r == [s[i] EXCEPT !.card = FALSE]
  <1>1. s[i] \in S
    OBVIOUS
  <1>2. r \in S
    <2>1. CASE S = Messages
      BY <1>1, <2>1, RelabelledAny
    <2>2. CASE \E c : S = MessagesOf(c)
      <3>1. PICK c : S = MessagesOf(c)
        BY <2>2
      <3> QED BY <1>1, <3>1, Relabelled
    <2> QED BY <2>1, <2>2
  <1>3. [s EXCEPT ![i].card = FALSE] = [s EXCEPT ![i] = r]
    OBVIOUS
  <1> HIDE DEF r
  <1>4. i \in 1 .. Len(s)
    OBVIOUS
  <1>5. [s EXCEPT ![i] = r] \in Seq(S)
    BY ONLY <1>2, <1>4, ExceptSeq, s \in Seq(S)
  <1> QED BY <1>3, <1>5

LEMMA StartCardShows ==
  ASSUME ShowsInv, NEW k \in Streams, NEW i \in DOMAIN messages, StartCard(k, i)
  PROVE  ShowsInv'
  <1>1. Begin(k, "workflow", current, 0, NoChat, [messages EXCEPT ![i].card = FALSE], TRUE)
        /\ UNCHANGED <<stored, current, paging, load, awaiting>>
    BY DEF StartCard
  <1>2. [messages EXCEPT ![i].card = FALSE] \in Seq(Messages)
    BY UncardedTyped DEF ShowsInv, ChatTypes
  <1>3. awaiting \/ [messages EXCEPT ![i].card = FALSE] \in Seq(MessagesOf(current))
    BY UncardedTyped DEF ShowsInv, OneChat
  <1> QED BY <1>1, <1>2, <1>3, BeginShows DEF NoChat

(* A new chat is shown with what was said in it.                             *)
LEMMA NewChatShows ==
  ASSUME ShowsInv, NewSession, messages' \in Seq(MessagesOf(lastChat + 1)),
         UNCHANGED <<rows, lastId, load, seq, page, total>>,
         controller' \in Streams \union {NoStream}, stream' \in [Streams -> Answers],
         job' \in [Streams -> {"unused", "cut", "ask", "answer", "over"}]
  PROVE  ShowsInv'
  <1>1. /\ lastChat' = lastChat + 1 /\ chats' = chats \union {lastChat + 1}
        /\ current' = lastChat + 1 /\ lastChat \in Nat /\ ChatTypes
    BY DEF NewSession, ShowsInv, ChatTypes
  <1>2. LoadsApart' /\ OneChat'
    BY <1>1, ShowsNew DEF ShowsInv
  <1>3. messages' \in Seq(Messages)
    BY DEF MessagesOf
  <1>4. chats' \in SUBSET (1 .. lastChat') /\ current' \in chats'
    BY <1>1 DEF ChatTypes
  <1>5. rows' \in SUBSET [id : 1 .. lastId', chat : chats', role : Roles]
    BY <1>1 DEF ChatTypes
  <1> QED BY <1>1, <1>2, <1>3, <1>4, <1>5 DEF ShowsInv, ChatTypes

LEMMA SendInNewShows ==
  ASSUME ShowsInv, NEW k \in Streams, SendInNewChat(k)
  PROVE  ShowsInv'
  <1>1. /\ ChatTypes /\ lastChat + 1 \in Nat
        /\ stream[k].kind \in {"send", "edit", "regenerate", "workflow"}
    <2>1. ChatTypes /\ lastChat \in Nat /\ stream[k] \in Answers
      BY DEF ShowsInv, ChatTypes
    <2> QED BY <2>1 DEF Answers
  <1>2. PICK c \in Nat, kind \in {"send", "edit", "regenerate", "workflow"} :
            c = lastChat + 1 /\ kind = stream[k].kind
    BY <1>1
  <1>3. PICK a \in MessagesOf(c), b \in MessagesOf(c) :
            a = Said("user", c) /\ b = Said("assistant", c)
    BY SaidTyped DEF Roles
  <1>4. PICK msgs, flag : msgs = <<a, b>> /\ flag = FALSE
    OBVIOUS
  <1>5. /\ Begin(k, kind, c, 0, NoChat, msgs, flag) /\ NewSession
        /\ UNCHANGED <<rows, lastId, load, seq, page, total>>
    BY <1>2, <1>3, <1>4 DEF SendInNewChat, paging
  <1>6. msgs \in Seq(MessagesOf(c)) /\ NoChat \in Nat
    BY <1>4 DEF NoChat
  <1>7. /\ ChatTypes /\ k \in Streams /\ kind \in {"send", "edit", "regenerate", "workflow"}
        /\ c \in Nat /\ 0 \in Nat /\ NoChat \in Nat /\ Begin(k, kind, c, 0, NoChat, msgs, flag)
    BY <1>1, <1>5, <1>6
  <1>8. /\ stream' \in [Streams -> Answers] /\ controller' \in Streams \union {NoStream}
        /\ job' \in [Streams -> {"unused", "cut", "ask", "answer", "over"}]
        /\ messages' = msgs
    <2>1. Begun(k, kind, c, 0, msgs)
      BY ONLY <1>7, BeginTyped
    <2> QED BY <2>1 DEF Begun
  <1>9. messages' \in Seq(MessagesOf(lastChat + 1))
    BY <1>2, <1>6, <1>8
  <1> QED BY <1>5, <1>8, <1>9, NewChatShows

LEMMA StageShows == ShowsInv /\ StageCard => ShowsInv'
<1> SUFFICES ASSUME ShowsInv, StageCard PROVE ShowsInv'
  OBVIOUS
<1>1. UNCHANGED <<rows, lastId, controller, seq, page, total, stream, job, load>>
  BY DEF StageCard, paging
<1>2. CASE messages' = Append(messages, Card(current))
           /\ UNCHANGED <<chats, lastChat, current, awaiting>>
  <2>1. Card(current) \in MessagesOf(current) /\ Card(current) \in Messages
    BY SaidHere DEF Roles
  <2>2. messages' \in Seq(Messages)
    BY <1>2, <2>1, Several DEF ShowsInv, ChatTypes
  <2>3. messages' \in Seq(MessagesOf(current)) \/ awaiting
    BY <1>2, <2>1, Several DEF ShowsInv, OneChat
  <2>4. LoadsApart' /\ OneChat'
    BY <1>1, <1>2, <2>3, ShowsOther DEF ShowsInv
  <2> QED BY <1>1, <1>2, <2>2, <2>4 DEF ShowsInv, ChatTypes
<1>3. CASE NewSession /\ messages' = <<Card(lastChat + 1)>>
  <2>1. lastChat + 1 \in Nat
    BY DEF ShowsInv, ChatTypes
  <2>2. Card(lastChat + 1) \in MessagesOf(lastChat + 1)
    BY <2>1, CardTyped
  <2>3. messages' \in Seq(MessagesOf(lastChat + 1))
    BY <1>3, <2>2
  <2> QED BY <1>1, <1>3, <2>3, NewChatShows DEF ShowsInv, ChatTypes
<1> QED BY <1>2, <1>3 DEF StageCard

LEMMA CancelShows ==
  ASSUME ShowsInv, NEW i \in DOMAIN messages, CancelCard(i)
  PROVE  ShowsInv'
  <1>1. RowsSame /\ UNCHANGED <<current, controller, seq, page, total, stream, job, load, awaiting>>
        /\ messages' = RemoveAt(messages, i)
    BY DEF CancelCard, RowsSame, stored, paging
  <1>2. messages' \in Seq(Messages)
    <2>1. Said("user", current) \in Messages
      BY SaidHere DEF Roles
    <2> QED BY <1>1, <2>1, Several DEF ShowsInv, ChatTypes
  <1>3. messages' \in Seq(MessagesOf(current)) \/ awaiting
    <2>1. Said("user", current) \in MessagesOf(current)
      BY SaidHere DEF Roles
    <2> QED BY <1>1, <2>1, Several DEF ShowsInv, OneChat
  <1>4. LoadsApart' /\ OneChat'
    BY <1>1, <1>3, ShowsOther DEF ShowsInv, RowsSame
  <1> QED BY <1>1, <1>2, <1>4 DEF ShowsInv, ChatTypes, RowsSame

(* The id of a row goes to a message of the same chat.                       *)
LEMMA AdoptIs ==
  ASSUME NEW S, S = Messages \/ \E c : S = MessagesOf(c), messages \in Seq(S), NEW e,
         e.id \in Nat, Adopt(e)
  PROVE  /\ messages' \in Seq(S) /\ Len(messages') = Len(messages)
         /\ \A i \in 1 .. Len(messages) : messages'[i] =
              IF /\ messages[i].role = e.role
                 /\ \A j \in i + 1 .. Len(messages) : messages[j].role # e.role
              THEN [messages[i] EXCEPT !.sid = e.id] ELSE messages[i]
  <1>1. DOMAIN messages = 1 .. Len(messages) /\ Len(messages) \in Nat
    OBVIOUS
  <1>2. \A m \in S : [m EXCEPT !.sid = e.id] \in S
    <2>1. CASE S = Messages
      BY <2>1, RelabelledAny
    <2>2. CASE \E c : S = MessagesOf(c)
      BY <2>2, Relabelled
    <2> QED BY <2>1, <2>2
  <1>3. DOMAIN messages' = DOMAIN messages
        /\ \A i \in DOMAIN messages : messages'[i] =
              IF /\ messages[i].role = e.role
                 /\ \A j \in i + 1 .. Len(messages) : messages[j].role # e.role
              THEN [messages[i] EXCEPT !.sid = e.id] ELSE messages[i]
    BY DEF Adopt
  <1>4. \A i \in DOMAIN messages : messages'[i] \in S
    BY <1>2, <1>3
  <1>5. messages' = [i \in DOMAIN messages' |-> messages'[i]]
    BY DEF Adopt
  <1>6. messages' \in [1 .. Len(messages) -> S]
    BY <1>1, <1>3, <1>4, <1>5
  <1> QED BY <1>1, <1>3, <1>6

LEMMA WireTyped ==
  ASSUME NEW a \in Answers, a.wire # <<>>
  PROVE  /\ Head(a.wire) \in [role : Roles, id : Nat \ {0}]
         /\ Tail(a.wire) \in Seq([role : Roles, id : Nat \ {0}])
         /\ [a EXCEPT !.wire = Tail(a.wire)] \in Answers
  <1>1. a.wire \in Seq([role : Roles, id : Nat \ {0}])
    BY DEF Answers
  <1>2. PICK S, w : S = [role : Roles, id : Nat \ {0}] /\ w = a.wire
    OBVIOUS
  <1>3. w \in Seq(S) /\ w # <<>>
    BY <1>1, <1>2
  <1>4. Head(w) \in S /\ Tail(w) \in Seq(S)
    BY ONLY <1>3, HeadTailProperties
  <1> QED BY <1>2, <1>4 DEF Answers

LEMMA ReceiveShows ==
  ASSUME ShowsInv, NEW k \in Streams, ReceiveEvent(k)
  PROVE  ShowsInv'
<1>1. /\ RowsSame
      /\ UNCHANGED <<current, controller, seq, page, total, load, job, awaiting>>
      /\ stream[k].wire # <<>> /\ stream' = [stream EXCEPT ![k].wire = Tail(@)]
      /\ Adopt(Head(stream[k].wire)) \/ messages' = messages
  BY DEF ReceiveEvent, stored, paging, RowsSame
<1>2. stream[k] \in Answers /\ stream \in [Streams -> Answers]
  BY DEF ShowsInv, ChatTypes
<1>3. [stream[k] EXCEPT !.wire = Tail(stream[k].wire)] \in Answers
      /\ Head(stream[k].wire).id \in Nat
  BY <1>1, <1>2, WireTyped
<1>4. stream' \in [Streams -> Answers]
  BY <1>1, <1>2, <1>3
<1>5. PICK e : e = Head(stream[k].wire)
  OBVIOUS
<1>6. messages' \in Seq(Messages)
  <2>1. CASE Adopt(e)
    BY <1>3, <1>5, <2>1, AdoptIs DEF ShowsInv, ChatTypes
  <2> QED BY <1>1, <1>5, <2>1 DEF ShowsInv, ChatTypes
<1>7. messages' \in Seq(MessagesOf(current)) \/ awaiting
  <2>1. PICK S : S = MessagesOf(current)
    OBVIOUS
  <2>2. CASE messages \in Seq(S) /\ Adopt(e)
    BY <1>3, <1>5, <2>1, <2>2, AdoptIs
  <2> QED BY <1>1, <1>5, <2>1, <2>2 DEF ShowsInv, OneChat
<1>8. LoadsApart' /\ OneChat'
  BY <1>1, <1>7, ShowsOther DEF ShowsInv, RowsSame
<1> QED BY <1>1, <1>4, <1>6, <1>8 DEF ShowsInv, ChatTypes, RowsSame

(* Only the answers change.                                                  *)
LEMMA AnswersShow ==
  ASSUME ShowsInv, RowsSame, UNCHANGED <<current, messages, seq, page, total, load, awaiting>>,
         controller' \in Streams \union {NoStream}, stream' \in [Streams -> Answers],
         job' \in [Streams -> {"unused", "cut", "ask", "answer", "over"}]
  PROVE  ShowsInv'
  <1>1. LoadsApart' /\ OneChat'
    BY ShowsSame DEF ShowsInv, RowsSame
  <1> QED BY <1>1 DEF ShowsInv, ChatTypes, RowsSame

LEMMA ArrivalShows ==
  ASSUME ShowsInv, NEW k \in Streams, Ends(k) \/ Breaks(k) \/ Finally(k) \/ NoNewChat(k)
  PROVE  ShowsInv'
<1>1. /\ RowsSame /\ UNCHANGED <<current, messages, seq, page, total, load, awaiting, job>>
      /\ controller' \in {controller, NoStream}
  BY DEF Ends, Breaks, Finally, NoNewChat, stored, shown, paging, RowsSame
<1>2. stream[k] \in Answers /\ stream \in [Streams -> Answers]
  BY DEF ShowsInv, ChatTypes
<1>3. \A p \in {"closing", "over"} :
         /\ [stream EXCEPT ![k].phase = p] \in [Streams -> Answers]
         /\ [stream EXCEPT ![k].phase = p, ![k].wire = <<>>] \in [Streams -> Answers]
  <2>1. <<>> \in Seq([role : Roles, id : Nat \ {0}])
    OBVIOUS
  <2>2. ASSUME NEW p \in {"closing", "over"}
        PROVE  /\ [stream[k] EXCEPT !.phase = p] \in Answers
               /\ [stream[k] EXCEPT !.phase = p, !.wire = <<>>] \in Answers
    BY <1>2, <2>1 DEF Answers
  <2> QED BY <1>2, <2>2
<1>4. stream' \in [Streams -> Answers]
  <2>1. CASE Ends(k) \/ Breaks(k) \/ NoNewChat(k)
    BY <1>3, <2>1 DEF Ends, Breaks, NoNewChat
  <2>2. CASE Finally(k)
    <3>1. PICK s \in [Streams -> Answers] : s = [stream EXCEPT ![k].phase = "over"]
      BY <1>3
    <3>2. stream' = Settled(s, job)
      BY <2>2, <3>1 DEF Finally
    <3> QED BY <3>2, SettledIs
  <2> QED BY <2>1, <2>2
<1> QED BY <1>1, <1>4, AnswersShow DEF ShowsInv, ChatTypes

LEMMA StopShows == ShowsInv /\ Stop => ShowsInv'
  <1> SUFFICES ASSUME ShowsInv, Stop PROVE ShowsInv'
    OBVIOUS
  <1>1. /\ RowsSame /\ UNCHANGED <<current, messages, seq, page, total, load, awaiting, job>>
        /\ controller' = NoStream /\ stream' = Aborted /\ ChatTypes
    BY DEF Stop, stored, paging, RowsSame, ShowsInv
  <1> QED BY <1>1, AbortedIs, AnswersShow DEF ShowsInv, ChatTypes

LEMMA AskForChatShows ==
  ASSUME ShowsInv, NEW k \in Streams, NEW kind \in {"send", "workflow"}, AskForChat(k, kind)
  PROVE  ShowsInv'
  <1>1. /\ RowsSame /\ UNCHANGED <<current, messages, seq, page, total, load, awaiting, job, controller>>
        /\ stream' = [stream EXCEPT ![k].phase = "creating", ![k].kind = kind]
    BY DEF AskForChat, stored, paging, RowsSame
  <1>2. stream[k] \in Answers /\ stream \in [Streams -> Answers]
    BY DEF ShowsInv, ChatTypes
  <1>3. [stream[k] EXCEPT !.phase = "creating", !.kind = kind] \in Answers
    BY <1>2 DEF Answers
  <1>4. stream' \in [Streams -> Answers]
    BY <1>1, <1>2, <1>3
  <1> QED BY <1>1, <1>4, AnswersShow DEF ShowsInv, ChatTypes

LEMMA LeaveShows == ShowsInv /\ (Clear \/ LeaveChat) => ShowsInv'
  <1> SUFFICES ASSUME ShowsInv, Clear \/ LeaveChat PROVE ShowsInv'
    OBVIOUS
  <1>1. /\ RowsSame /\ UNCHANGED <<seq, page, total, load, job>> /\ messages' = <<>>
        /\ controller' = NoStream /\ stream' = Aborted /\ ChatTypes
        /\ \/ UNCHANGED <<current, awaiting>>
           \/ current' = NoChat
    BY DEF Clear, LeaveChat, stored, paging, RowsSame, ShowsInv
  <1>2. messages' \in Seq(MessagesOf(current')) /\ messages' \in Seq(Messages)
    BY <1>1
  <1>3. LoadsApart' /\ OneChat'
    <2>1. CASE UNCHANGED <<current, awaiting>>
      BY <1>1, <1>2, <2>1, ShowsOther DEF ShowsInv, RowsSame
    <2>2. CASE current' = NoChat
      BY <1>1, <1>2, <2>2, ShowsNew DEF ShowsInv, RowsSame
    <2> QED BY <1>1, <2>1, <2>2
  <1>4. stream' \in [Streams -> Answers]
    BY <1>1, AbortedIs
  <1> QED BY <1>1, <1>2, <1>3, <1>4 DEF ShowsInv, ChatTypes, RowsSame

LEMMA AskToDeleteShows ==
  ASSUME ShowsInv, NEW c \in chats, AskToDelete(c)
  PROVE  ShowsInv'
  <1>1. /\ RowsSame /\ UNCHANGED <<current, messages, seq, page, total, load, awaiting, job>>
        /\ ChatTypes
        /\ \/ stream' = Aborted /\ controller' = NoStream
           \/ UNCHANGED <<stream, controller>>
    BY DEF AskToDelete, stored, paging, RowsSame, ShowsInv
  <1> QED BY <1>1, AbortedIs, AnswersShow DEF ShowsInv, ChatTypes

LEMMA DeleteShows ==
  ASSUME ShowsInv, NEW c \in chats, Delete(c)
  PROVE  ShowsInv'
  <1>1. /\ chats' = chats \ {c} /\ rows' = {r \in rows : r.chat # c} /\ ChatTypes
        /\ UNCHANGED <<lastChat, lastId, controller, seq, page, total, stream, job, load>>
        /\ IF current = c THEN current' = NoChat /\ messages' = <<>>
           ELSE UNCHANGED <<current, messages, awaiting>>
    BY DEF Delete, paging, ShowsInv
  <1>2. /\ chats' \in SUBSET (1 .. lastChat')
        /\ rows' \in SUBSET [id : 1 .. lastId', chat : chats', role : Roles]
    BY <1>1 DEF ChatTypes
  <1>5. current' \in chats' \union {NoChat} /\ messages' \in Seq(Messages)
    <2>1. <<>> \in Seq(Messages) /\ messages \in Seq(Messages)
      BY <1>1 DEF ChatTypes
    <2> QED BY <1>1, <2>1 DEF ChatTypes
  <1>3. IsFiniteSet(rows')
    BY <1>1, FS_Subset DEF ChatTypes
  <1>4. LoadsApart' /\ OneChat'
    <2>1. CASE current = c
      <3>1. messages' \in Seq(MessagesOf(current'))
        BY <1>1, <2>1
      <3> QED BY <1>1, <2>1, <3>1, ShowsNew DEF ShowsInv
    <2>2. CASE current # c
      BY <1>1, <2>2, ShowsSame DEF ShowsInv
    <2> QED BY <2>1, <2>2
  <1> QED BY <1>1, <1>2, <1>3, <1>4, <1>5 DEF ShowsInv, ChatTypes

(* A page is asked for, in a chat that exists.                               *)
LEMMA AskedIs ==
  ASSUME ChatTypes, NEW l \in Loads, NEW what \in {"select", "more"}, NEW c \in Nat,
         NEW n \in Nat \ {0}, NEW s \in Nat, AskForPage(l, what, c, n, s)
  PROVE  /\ load' \in [Loads -> Pages]
         /\ load'[l].phase = "asked" /\ load'[l].what = what /\ load'[l].chat = c
         /\ load'[l].page = n /\ load'[l].seq = s
         /\ \A m \in Loads \ {l} : load'[m] = load[m]
  <1> DEFINE p == [NoLoad EXCEPT !.phase = "asked", !.what = what, !.chat = c, !.page = n,
                                 !.seq = s]
  <1>1. /\ p \in Pages /\ p.phase = "asked" /\ p.what = what /\ p.chat = c
        /\ p.page = n /\ p.seq = s
    BY NoLoadTyped DEF Pages
  <1>2. load' = [load EXCEPT ![l] = p]
    BY DEF AskForPage
  <1> HIDE DEF p
  <1> QED BY <1>1, <1>2 DEF ChatTypes

(* A page that is not waited for any more.                                   *)
LEMMA OverIs ==
  ASSUME ChatTypes, NEW l \in Loads, load' = [load EXCEPT ![l] = [NoLoad EXCEPT !.phase = "over"]]
  PROVE  /\ load' \in [Loads -> Pages] /\ load'[l].phase = "over"
         /\ \A m \in Loads \ {l} : load'[m] = load[m]
  <1>1. [NoLoad EXCEPT !.phase = "over"] \in Pages
        /\ [NoLoad EXCEPT !.phase = "over"].phase = "over"
    BY NoLoadTyped DEF Pages
  <1> QED BY <1>1 DEF ChatTypes

LEMMA HistoryIs ==
  ASSUME ChatTypes, NEW c, NEW n
  PROVE  /\ IsFiniteSet(History(c)) /\ Cardinality(History(c)) \in Nat
         /\ ListPage(c, n) \in SUBSET History(c)
         /\ Cardinality(ListPage(c, n)) \in Nat
  <1>1. History(c) \in SUBSET rows /\ IsFiniteSet(rows)
    BY DEF History, ChatTypes
  <1>2. IsFiniteSet(History(c))
    BY <1>1, FS_Subset
  <1>3. ListPage(c, n) \in SUBSET History(c)
    BY DEF ListPage
  <1>4. IsFiniteSet(ListPage(c, n))
    BY <1>2, <1>3, FS_Subset
  <1> QED BY <1>2, <1>3, <1>4, FS_CardinalityType

(* What the server answers: the rows of the page, as the page shows them.    *)
Shown(list, t) ==
    /\ DOMAIN t = DOMAIN list
    /\ \A i \in DOMAIN list : /\ t[i].sid = list[i].id /\ t[i].role = list[i].role
                              /\ t[i].card = FALSE
LEMMA ServedIs ==
  ASSUME ChatTypes, NEW l \in Loads, ServePage(l)
  PROVE  \E list, t :
           /\ OldestFirst(list, ListPage(load[l].chat, load[l].page)) /\ Shown(list, t)
           /\ t \in Seq(MessagesOf(load[l].chat)) /\ load' \in [Loads -> Pages]
           /\ load'[l].list = t /\ load'[l].phase = "served"
           /\ load'[l].total = Cardinality(History(load[l].chat))
           /\ load'[l].what = load[l].what /\ load'[l].chat = load[l].chat
           /\ load'[l].page = load[l].page /\ load'[l].seq = load[l].seq
           /\ \A m \in Loads \ {l} : load'[m] = load[m]
  <1>1. PICK c, found : c = load[l].chat /\ found = ListPage(c, load[l].page)
    OBVIOUS
  <1>2. load \in [Loads -> Pages] /\ load[l] \in Pages /\ c \in Nat
    BY <1>1 DEF ChatTypes, Pages
  <1>3. PICK list \in [1 .. Cardinality(found) -> found] :
           /\ OldestFirst(list, found)
           /\ load' = [load EXCEPT ![l].phase = "served",
                ![l].list = [i \in DOMAIN list |->
                     [Said(list[i].role, list[i].chat) EXCEPT !.sid = list[i].id]],
                ![l].total = Cardinality(History(load[l].chat))]
    BY <1>1 DEF ServePage
  <1>4. PICK t, w : /\ t = [i \in DOMAIN list |->
                         [Said(list[i].role, list[i].chat) EXCEPT !.sid = list[i].id]]
                    /\ w = Cardinality(History(c))
    OBVIOUS
  <1>5. ASSUME NEW r \in found
        PROVE  /\ [Said(r.role, r.chat) EXCEPT !.sid = r.id] \in MessagesOf(c)
               /\ [Said(r.role, r.chat) EXCEPT !.sid = r.id].sid = r.id
               /\ [Said(r.role, r.chat) EXCEPT !.sid = r.id].role = r.role
               /\ [Said(r.role, r.chat) EXCEPT !.sid = r.id].card = FALSE
    <2>1. r \in History(c)
      BY <1>1, HistoryIs
    <2>2. r.role \in Roles /\ r.chat = c /\ r.id \in Nat
      <3>1. r \in rows /\ r.chat = c
        BY <2>1 DEF History
      <3>2. r \in [id : 1 .. lastId, chat : chats, role : Roles] /\ lastId \in Nat
        BY <3>1 DEF ChatTypes
      <3> QED BY <3>1, <3>2
    <2>3. /\ Said(r.role, c) \in MessagesOf(c) /\ Said(r.role, c).role = r.role
          /\ Said(r.role, c).card = FALSE
      BY <1>2, <2>2, SaidTyped
    <2>4. [Said(r.role, c) EXCEPT !.sid = r.id] \in MessagesOf(c)
      BY <2>2, <2>3, Relabelled
    <2> QED BY <2>2, <2>3, <2>4 DEF MessagesOf, Messages
  <1>6. DOMAIN list = 1 .. Cardinality(found) /\ Cardinality(found) \in Nat
    BY <1>1, HistoryIs
  <1>7. t \in [1 .. Cardinality(found) -> MessagesOf(c)] /\ Shown(list, t)
    BY <1>4, <1>5, <1>6 DEF Shown
  <1>8. t \in Seq(MessagesOf(c)) /\ t \in Seq(Messages)
    BY <1>6, <1>7 DEF MessagesOf
  <1>9. w \in Nat
    BY <1>4, HistoryIs
  <1> DEFINE p == [load[l] EXCEPT !.phase = "served", !.list = t, !.total = w]
  <1>10. /\ p \in Pages /\ p.list = t /\ p.phase = "served" /\ p.total = w
         /\ p.what = load[l].what /\ p.chat = c /\ p.page = load[l].page
         /\ p.seq = load[l].seq
    BY <1>1, <1>2, <1>8, <1>9 DEF Pages
  <1>11. load' = [load EXCEPT ![l] = p]
    BY <1>1, <1>2, <1>3, <1>4
  <1> HIDE DEF p
  <1>12. load' \in [Loads -> Pages] /\ load'[l] = p /\ \A m \in Loads \ {l} : load'[m] = load[m]
    BY <1>2, <1>10, <1>11
  <1> QED BY <1>1, <1>3, <1>4, <1>7, <1>8, <1>10, <1>12

LEMMA SelectShows ==
  ASSUME ShowsInv, NEW l \in Loads, NEW c \in chats, Select(l, c)
  PROVE  ShowsInv'
  <1>1. /\ RowsSame /\ UNCHANGED <<messages, job>> /\ stream' = Aborted /\ controller' = NoStream
        /\ current' = c /\ awaiting' = TRUE /\ seq' = seq + 1 /\ page' = 1 /\ total' = 0
        /\ AskForPage(l, "select", c, 1, seq + 1) /\ ChatTypes /\ load[l].phase = "unused"
    BY DEF Select, FreeLoad, stored, RowsSame, ShowsInv
  <1>2. seq \in Nat /\ seq + 1 \in Nat /\ c \in 1 .. lastChat /\ lastChat \in Nat /\ c \in Nat
    BY <1>1 DEF ChatTypes
  <1>3. PICK s \in Nat, n \in Nat \ {0}, d \in Nat : s = seq + 1 /\ n = 1 /\ d = c
    BY <1>2
  <1>4. /\ load' \in [Loads -> Pages]
        /\ load'[l].phase = "asked" /\ load'[l].what = "select" /\ load'[l].chat = c
        /\ load'[l].seq = s /\ \A m \in Loads \ {l} : load'[m] = load[m]
    <2>1. ChatTypes /\ AskForPage(l, "select", d, n, s)
      BY <1>1, <1>3
    <2>2. /\ load' \in [Loads -> Pages]
          /\ load'[l].phase = "asked" /\ load'[l].what = "select" /\ load'[l].chat = d
          /\ load'[l].seq = s /\ \A m \in Loads \ {l} : load'[m] = load[m]
      BY <2>1, AskedIs
    <2> QED BY <1>3, <2>2
  <1>5. stream' \in [Streams -> Answers]
    BY <1>1, AbortedIs
  <1>6. \A m \in Loads : Pending(m)' => load'[m].chat \in 1 .. lastChat' /\ load'[m].seq <= seq'
    <2>1. \A m \in Loads : Pending(m) => load[m].seq <= seq /\ load[m].seq \in Nat
      BY <1>1 DEF ShowsInv, LoadsApart, ChatTypes, Pages
    <2> QED BY <1>1, <1>2, <1>3, <1>4, <2>1 DEF ShowsInv, LoadsApart, Pending, RowsSame
  <1>7. \A m, o \in Loads : Selects(m)' /\ Selects(o)' /\ load'[m].seq = load'[o].seq => m = o
    <2>1. \A m \in Loads : Pending(m) => load[m].seq # s
      BY <1>1, <1>2, <1>3 DEF ShowsInv, LoadsApart, ChatTypes, Pages
    <2> QED BY <1>3, <1>4, <2>1 DEF ShowsInv, LoadsApart, Pending, Selects
  <1>8. \A m \in Loads : load'[m].phase = "served"
                            => load'[m].list \in Seq(MessagesOf(load'[m].chat))
    BY <1>4 DEF ShowsInv, LoadsApart
  <1>9. LoadsApart'
    BY <1>1, <1>6, <1>7, <1>8 DEF LoadsApart, MessagesOf
  <1> QED BY <1>1, <1>2, <1>4, <1>5, <1>9 DEF ShowsInv, ChatTypes, RowsSame, OneChat

LEMMA MoreShows ==
  ASSUME ShowsInv, NEW l \in Loads, More(l)
  PROVE  ShowsInv'
  <1>1. /\ RowsSame /\ UNCHANGED <<current, messages, controller, seq, page, total, stream, job, awaiting>>
        /\ AskForPage(l, "more", current, page + 1, seq) /\ ChatTypes /\ current # NoChat
    BY DEF More, stored, shown, RowsSame, ShowsInv
  <1>2. seq \in Nat /\ page + 1 \in Nat \ {0} /\ current \in 1 .. lastChat /\ lastChat \in Nat
    BY <1>1 DEF ChatTypes
  <1>3. PICK s \in Nat, n \in Nat \ {0}, c \in Nat : s = seq /\ n = page + 1 /\ c = current
    BY <1>2
  <1>4. /\ load' \in [Loads -> Pages]
        /\ load'[l].phase = "asked" /\ load'[l].what = "more" /\ load'[l].chat = c
        /\ load'[l].seq = s /\ \A m \in Loads \ {l} : load'[m] = load[m]
    <2>1. ChatTypes /\ AskForPage(l, "more", c, n, s)
      BY <1>1, <1>3
    <2> QED BY <2>1, AskedIs
  <1>5. \A m \in Loads : Pending(m)' => load'[m].chat \in 1 .. lastChat' /\ load'[m].seq <= seq'
    BY <1>1, <1>2, <1>3, <1>4 DEF ShowsInv, LoadsApart, Pending, RowsSame
  <1>6. \A m \in Loads : Selects(m)' => m # l /\ Selects(m)
    BY <1>4 DEF Pending, Selects
  <1>7. \A m \in Loads : load'[m].phase = "served"
                            => load'[m].list \in Seq(MessagesOf(load'[m].chat))
    BY <1>4 DEF ShowsInv, LoadsApart
  <1>8. LoadsApart'
    BY <1>1, <1>4, <1>5, <1>6, <1>7 DEF ShowsInv, LoadsApart, MessagesOf, Wanted
  <1> QED BY <1>1, <1>4, <1>8 DEF ShowsInv, ChatTypes, RowsSame, OneChat, MessagesOf

LEMMA ServeShows ==
  ASSUME ShowsInv, NEW l \in Loads, ServePage(l)
  PROVE  ShowsInv'
  <1>1. /\ RowsSame /\ UNCHANGED <<current, messages, controller, seq, page, total, stream, job, awaiting>>
        /\ ChatTypes /\ load[l].phase = "asked"
    BY DEF ServePage, stored, shown, paging, RowsSame, ShowsInv
  <1>2. PICK list, t :
           /\ t \in Seq(MessagesOf(load[l].chat)) /\ load' \in [Loads -> Pages]
           /\ load'[l].list = t /\ load'[l].phase = "served"
           /\ load'[l].what = load[l].what /\ load'[l].chat = load[l].chat
           /\ load'[l].seq = load[l].seq
           /\ \A m \in Loads \ {l} : load'[m] = load[m]
    BY <1>1, ServedIs
  <1>3. \A m \in Loads : /\ Pending(m)' = Pending(m) /\ Selects(m)' = Selects(m)
                         /\ load'[m].chat = load[m].chat /\ load'[m].seq = load[m].seq
    BY <1>1, <1>2 DEF Pending, Selects
  <1>4. \A m \in Loads : load'[m].phase = "served"
                            => load'[m].list \in Seq(MessagesOf(load'[m].chat))
    BY <1>2 DEF ShowsInv, LoadsApart
  <1>5. LoadsApart'
    BY <1>1, <1>3, <1>4 DEF ShowsInv, LoadsApart, MessagesOf, Wanted, RowsSame
  <1> QED BY <1>1, <1>2, <1>5 DEF ShowsInv, ChatTypes, RowsSame, OneChat, MessagesOf

(* An answered or failed request is not pending any more.                    *)
LEMMA OneLess ==
  ASSUME ShowsInv, NEW l \in Loads, load' = [load EXCEPT ![l] = [NoLoad EXCEPT !.phase = "over"]],
         UNCHANGED <<current, seq, lastChat>>, awaiting' = awaiting \/ (Selects(l) /\ Wanted(l))
  PROVE  LoadsApart'
  <1>1. /\ load'[l].phase = "over" /\ \A m \in Loads \ {l} : load'[m] = load[m]
    BY OverIs DEF ShowsInv
  <1>2. \A m \in Loads : Pending(m)' => Pending(m) /\ m # l /\ load'[m] = load[m]
    BY <1>1 DEF Pending
  <1>3. \A m \in Loads : Selects(m)' => Selects(m) /\ m # l /\ load'[m] = load[m]
    BY <1>1, <1>2 DEF Pending, Selects
  <1>4. \A m \in Loads : Pending(m)' => load'[m].chat \in 1 .. lastChat' /\ load'[m].seq <= seq'
    BY <1>2 DEF ShowsInv, LoadsApart
  <1>5. \A m \in Loads : Selects(m)' /\ Wanted(m)' => awaiting'
    <2>1. SUFFICES ASSUME NEW m \in Loads, Selects(m)', Wanted(m)' PROVE awaiting'
      OBVIOUS
    <2>2. Selects(m) /\ Wanted(m) /\ m # l
      BY <1>3, <2>1 DEF Wanted
    <2>3. awaiting /\ ~ (Selects(l) /\ Wanted(l))
      BY <2>2 DEF ShowsInv, LoadsApart, Wanted
    <2> QED BY <2>3
  <1>6. \A m, o \in Loads : Selects(m)' /\ Selects(o)' /\ load'[m].seq = load'[o].seq => m = o
    BY <1>3 DEF ShowsInv, LoadsApart
  <1>7. \A m \in Loads : load'[m].phase = "served"
                            => load'[m].list \in Seq(MessagesOf(load'[m].chat))
    BY <1>1 DEF ShowsInv, LoadsApart
  <1> QED BY <1>4, <1>5, <1>6, <1>7 DEF LoadsApart, MessagesOf

LEMMA TakenTyped ==
  ASSUME ShowsInv, NEW l \in Loads, load[l].phase = "served", Wanted(l)
  PROVE  load[l].list \in Seq(MessagesOf(current)) /\ load[l].list \in Seq(Messages)
  BY DEF ShowsInv, LoadsApart, ChatTypes, Wanted, MessagesOf, Pages

LEMMA TakeHistoryShows ==
  ASSUME ShowsInv, NEW l \in Loads, TakeHistory(l)
  PROVE  ShowsInv'
  <1>1. /\ RowsSame /\ UNCHANGED <<current, controller, seq, page, stream, job>> /\ ChatTypes
        /\ load' = [load EXCEPT ![l] = [NoLoad EXCEPT !.phase = "over"]]
        /\ load[l].phase = "served" /\ Selects(l)
        /\ IF Wanted(l) THEN messages' = load[l].list /\ total' = load[l].total /\ awaiting' = FALSE
           ELSE UNCHANGED <<messages, total, awaiting>>
    BY DEF TakeHistory, stored, RowsSame, ShowsInv, Selects, Pending
  <1>2. load' \in [Loads -> Pages]
    BY <1>1, OverIs
  <1>3. CASE Wanted(l)
    <2>1. LoadsApart'
      BY <1>1, <1>3, OneLess DEF RowsSame
    <2>2. load[l].total \in Nat
      BY <1>1 DEF ChatTypes, Pages
    <2>3. OneChat' /\ messages' \in Seq(Messages)
      BY <1>1, <1>3, TakenTyped DEF OneChat, MessagesOf
    <2> QED BY <1>1, <1>2, <1>3, <2>1, <2>2, <2>3 DEF ShowsInv, ChatTypes, RowsSame
  <1>4. CASE ~ Wanted(l)
    <2>1. LoadsApart'
      BY <1>1, <1>4, OneLess DEF RowsSame
    <2> QED BY <1>1, <1>2, <1>4, <2>1 DEF ShowsInv, ChatTypes, RowsSame, OneChat, MessagesOf
  <1> QED BY <1>3, <1>4

LEMMA TurnedTyped ==
  ASSUME NEW S, NEW s \in Seq(S), NEW t \in Seq(S)
  PROVE  Reverse(s) \o t \in Seq(S)
  <1>1. Len(s) \in Nat /\ \A i \in 1 .. Len(s) : (Len(s) - i) + 1 \in 1 .. Len(s)
    OBVIOUS
  <1>2. Reverse(s) \in [1 .. Len(s) -> S]
    BY <1>1 DEF Reverse
  <1>3. Reverse(s) \in Seq(S)
    BY <1>1, <1>2
  <1> QED BY <1>3

LEMMA TakeMoreShows ==
  ASSUME ShowsInv, NEW l \in Loads, TakeMore(l)
  PROVE  ShowsInv'
  <1>1. /\ RowsSame /\ UNCHANGED <<current, controller, seq, stream, job, awaiting>> /\ ChatTypes
        /\ load' = [load EXCEPT ![l] = [NoLoad EXCEPT !.phase = "over"]]
        /\ load[l].phase = "served" /\ ~ Selects(l)
        /\ IF Wanted(l) THEN /\ messages' = Reverse(load[l].list) \o messages
                             /\ total' = load[l].total /\ page' = load[l].page
           ELSE UNCHANGED <<messages, total, page>>
    BY DEF TakeMore, stored, RowsSame, ShowsInv, Selects
  <1>2. load' \in [Loads -> Pages] /\ LoadsApart'
    BY <1>1, OverIs, OneLess DEF RowsSame
  <1>3. CASE Wanted(l)
    <2>1. load[l].total \in Nat /\ load[l].page \in Nat \ {0}
      BY <1>1 DEF ChatTypes, Pages
    <2>2. messages' \in Seq(Messages)
      <3>1. load[l].list \in Seq(Messages) /\ messages \in Seq(Messages)
        BY <1>1, <1>3, TakenTyped DEF ChatTypes
      <3> QED BY <1>1, <1>3, <3>1, TurnedTyped
    <2>3. OneChat'
      <3>1. awaiting \/ messages' \in Seq(MessagesOf(current))
        BY <1>1, <1>3, TakenTyped, TurnedTyped DEF ShowsInv, OneChat
      <3> QED BY <1>1, <3>1 DEF OneChat, MessagesOf
    <2> QED BY <1>1, <1>2, <1>3, <2>1, <2>2, <2>3 DEF ShowsInv, ChatTypes, RowsSame
  <1>4. CASE ~ Wanted(l)
    BY <1>1, <1>2, <1>4 DEF ShowsInv, ChatTypes, RowsSame, OneChat, MessagesOf
  <1> QED BY <1>3, <1>4

LEMMA LoadFailsShows ==
  ASSUME ShowsInv, NEW l \in Loads, LoadFails(l)
  PROVE  ShowsInv'
  <1>1. /\ RowsSame /\ UNCHANGED <<current, messages, controller, seq, page, total, stream, job, awaiting>>
        /\ ChatTypes /\ load' = [load EXCEPT ![l] = [NoLoad EXCEPT !.phase = "over"]]
    BY DEF LoadFails, stored, shown, RowsSame, ShowsInv
  <1>2. load' \in [Loads -> Pages]
    BY <1>1, OverIs
  <1>3. LoadsApart'
    <2>1. ASSUME NEW m \in Loads
          PROVE  load'[m] = load[m] \/ load'[m].phase = "over"
      BY <1>1, OverIs
    <2>2. \A m \in Loads : /\ Pending(m)' => Pending(m) /\ load'[m] = load[m]
                           /\ Selects(m)' => Selects(m)
                           /\ load'[m].phase = "served" => load'[m] = load[m]
      BY <2>1 DEF Pending, Selects
    <2>3. \A m \in Loads : Selects(m)' /\ Wanted(m)' => awaiting'
      BY <1>1, <2>2 DEF ShowsInv, LoadsApart, Wanted, Selects
    <2>4. \A m, o \in Loads : Selects(m)' /\ Selects(o)' /\ load'[m].seq = load'[o].seq => m = o
      BY <2>2 DEF ShowsInv, LoadsApart, Selects
    <2>5. \A m \in Loads : load'[m].phase = "served" => load'[m].list \in Seq(MessagesOf(load'[m].chat))
      BY <2>2 DEF ShowsInv, LoadsApart
    <2>6. \A m \in Loads : Pending(m)' => load'[m].chat \in 1 .. lastChat' /\ load'[m].seq <= seq'
      BY <1>1, <2>2 DEF ShowsInv, LoadsApart, RowsSame
    <2> QED BY <2>3, <2>4, <2>5, <2>6 DEF LoadsApart, MessagesOf
  <1> QED BY <1>1, <1>2, <1>3 DEF ShowsInv, ChatTypes, RowsSame, OneChat, MessagesOf

LEMMA ChatStarts == ChatInit => ShowsInv
<1> SUFFICES ASSUME ChatInit PROVE ShowsInv
  OBVIOUS
<1>1. FirstChats \in Nat /\ Asked \in Seq(1 .. FirstChats) /\ Len(Asked) \in Nat
  BY ChatConstants
<1>2. rows \in SUBSET [id : 1 .. lastId, chat : chats, role : Roles]
  <2>1. SUFFICES ASSUME NEW n \in 1 .. 2 * Len(Asked)
                 PROVE  [id |-> n, chat |-> Asked[(n + 1) \div 2],
                         role |-> IF n % 2 = 1 THEN "user" ELSE "assistant"]
                            \in [id : 1 .. lastId, chat : chats, role : Roles]
    BY DEF ChatInit
  <2>2. (n + 1) \div 2 \in 1 .. Len(Asked)
    BY <1>1
  <2>3. Asked[(n + 1) \div 2] \in 1 .. FirstChats
    BY <1>1, <2>2
  <2> QED BY <2>3 DEF ChatInit, Roles
<1>3. IsFiniteSet(rows)
  <2> DEFINE row(n) == [id |-> n, chat |-> Asked[(n + 1) \div 2],
                        role |-> IF n % 2 = 1 THEN "user" ELSE "assistant"]
             f == [n \in 1 .. 2 * Len(Asked) |-> row(n)]
  <2>1. IsFiniteSet(1 .. 2 * Len(Asked))
    BY <1>1, FS_Interval
  <2>2. rows = {row(n) : n \in 1 .. 2 * Len(Asked)}
    BY DEF ChatInit
  <2> HIDE DEF row
  <2>3. f \in Surjection(1 .. 2 * Len(Asked), rows)
    BY <2>2 DEF Surjection
  <2> QED BY <2>1, <2>3, FS_Surjection
<1>4. ChatTypes
  <2>1. /\ stream \in [Streams -> Answers] /\ load \in [Loads -> Pages]
        /\ job \in [Streams -> {"unused", "cut", "ask", "answer", "over"}]
    BY NoAnswerTyped, NoLoadTyped DEF ChatInit
  <2>2. /\ lastChat \in Nat /\ chats \in SUBSET (1 .. lastChat) /\ lastId \in Nat
        /\ current = NoChat /\ messages \in Seq(Messages)
        /\ controller = NoStream /\ seq = 0 /\ page = 1 /\ total = 0
    BY <1>1 DEF ChatInit
  <2> QED BY <1>2, <1>3, <2>1, <2>2 DEF ChatTypes
<1>5. \A l \in Loads : load[l].phase = "unused"
  BY DEF ChatInit, NoLoad
<1> QED BY <1>4, <1>5 DEF ChatInit, ShowsInv, LoadsApart, OneChat, Pending, Selects

LEMMA ChatStepShows == ShowsInv /\ [ChatNext]_chatVars => ShowsInv'
<1> SUFFICES ASSUME ShowsInv, [ChatNext]_chatVars PROVE ShowsInv'
  OBVIOUS
<1>1. CASE ServerStep
  BY <1>1, ServerShows DEF ServerStep
<1>2. CASE AnswerBegins
  BY <1>2, SendShows, AskForChatShows, SendInNewShows, ArrivalShows, RegenerateShows, EditShows,
     StartCardShows, StageShows, CancelShows DEF AnswerBegins
<1>3. CASE AnswerArrives
  BY <1>3, ReceiveShows, ArrivalShows, StopShows DEF AnswerArrives
<1>4. CASE Browse
  BY <1>4, LeaveShows, SelectShows, MoreShows, ServeShows, TakeHistoryShows, TakeMoreShows,
     LoadFailsShows, AskToDeleteShows, DeleteShows DEF Browse
<1>5. CASE UNCHANGED chatVars
  <2>1. /\ RowsSame /\ UNCHANGED <<current, messages, seq, page, total, load, awaiting, controller,
                                   stream, job>>
    BY <1>5 DEF chatVars, stored, shown, paging, RowsSame
  <2> QED BY <2>1, AnswersShow DEF ShowsInv, ChatTypes
<1> QED BY <1>1, <1>2, <1>3, <1>4, <1>5 DEF ChatNext

LEMMA ShowsHolds == ChatSpec => []ShowsInv
  BY ChatStarts, ChatStepShows, PTL DEF ChatSpec

(* The messages shown are of the chat that is current once its history has   *)
(* come, whatever the order in which histories, older pages and answers for  *)
(* chats left come in (sessionSwitchSeq): OneChatShown, for any number of    *)
(* chats, streams and requests.                                              *)
THEOREM OneChatAlways == ChatSpec => []OneChatShown
<1>1. ShowsInv => OneChatShown
  BY DEF ShowsInv, OneChat, OneChatShown, MessagesOf
<1> QED BY <1>1, ShowsHolds, PTL

-----------------------------------------------------------------------------
(* The page and the rows: lists of messages                                  *)

LEMMA PrefixSame ==
  ASSUME NEW m, NEW t, NEW n \in Nat, \A i \in 1 .. n : t[i] = m[i]
  PROVE  /\ Named(t, n) = Named(m, n) /\ Pairs(t, n) = Pairs(m, n)
         /\ Tidy(m, n) => Tidy(t, n)
         /\ \A x : Below(m, n, x) => Below(t, n, x)
  <1>1. Named(t, n) = Named(m, n)
    BY DEF Named
  <1>2. \A i \in Named(m, n) : t[i] = m[i] /\ i \in 1 .. n
    BY DEF Named
  <1> QED BY <1>1, <1>2 DEF Pairs, Tidy, Below

(* A message more.                                                           *)
LEMMA OneMore ==
  ASSUME NEW m, NEW n \in Nat, Tidy(m, n), m[n + 1].sid \in Nat,
         m[n + 1].role = "user" => m[n + 1].sid # 0,
         m[n + 1].card => (m[n + 1].sid = 0 /\ m[n + 1].role = "assistant"),
         m[n + 1].sid # 0 => Below(m, n, m[n + 1].sid)
  PROVE  /\ Tidy(m, n + 1)
         /\ Pairs(m, n + 1) = Pairs(m, n) \union
                (IF m[n + 1].sid = 0 THEN {} ELSE {<<m[n + 1].sid, m[n + 1].role>>})
  <1>1. Named(m, n + 1) = Named(m, n) \union (IF m[n + 1].sid = 0 THEN {} ELSE {n + 1})
    BY DEF Named
  <1>2. Named(m, n) \subseteq 1 .. n
    BY DEF Named
  <1>3. ASSUME NEW i \in Named(m, n + 1), NEW j \in Named(m, n + 1), i < j
        PROVE  m[i].sid < m[j].sid
    <2>1. CASE j \in Named(m, n)
      <3>1. i \in Named(m, n)
        BY <1>1, <1>2, <1>3, <2>1
      <3> QED BY <1>3, <2>1, <3>1 DEF Tidy
    <2>2. CASE j = n + 1 /\ m[n + 1].sid # 0
      <3>1. i \in Named(m, n)
        BY <1>1, <1>3, <2>2
      <3> QED BY <2>2, <3>1 DEF Below
    <2> QED BY <1>1, <1>3, <2>1, <2>2
  <1>4. ASSUME NEW i \in 1 .. n + 1
        PROVE  /\ m[i].role = "user" => m[i].sid # 0
               /\ m[i].card => (m[i].sid = 0 /\ m[i].role = "assistant")
    <2>1. i \in 1 .. n \/ i = n + 1
      BY <1>4
    <2> QED BY <2>1 DEF Tidy
  <1> QED BY <1>1, <1>3, <1>4 DEF Tidy, Pairs

(* A message without an id less.                                             *)
LEMMA OneFewer ==
  ASSUME NEW m, NEW t, NEW n \in Nat, NEW i \in 1 .. n, m[i].sid = 0,
         \A j \in 1 .. n - 1 : t[j] = IF j < i THEN m[j] ELSE m[j + 1]
  PROVE  /\ Pairs(t, n - 1) = Pairs(m, n) /\ (Tidy(m, n) => Tidy(t, n - 1))
         /\ \A x : Below(m, n, x) => Below(t, n - 1, x)
  <1> DEFINE to(j) == IF j < i THEN j ELSE j + 1
             fro(j) == IF j < i THEN j ELSE j - 1
  <1>1. ASSUME NEW j \in 1 .. n - 1
        PROVE  to(j) \in 1 .. n /\ t[j] = m[to(j)]
    BY <1>1
  <1>2. ASSUME NEW j \in Named(t, n - 1)
        PROVE  j \in 1 .. n - 1 /\ to(j) \in Named(m, n) /\ t[j] = m[to(j)]
    BY <1>1 DEF Named
  <1>3. ASSUME NEW j \in Named(m, n)
        PROVE  fro(j) \in Named(t, n - 1) /\ to(fro(j)) = j
    <2>1. j \in 1 .. n /\ j # i
      BY DEF Named
    <2>2. fro(j) \in 1 .. n - 1 /\ to(fro(j)) = j
      BY <2>1
    <2>3. t[fro(j)] = m[j]
      BY <1>1, <2>2
    <2> QED BY <2>2, <2>3 DEF Named
  <1>4. ASSUME NEW a \in 1 .. n - 1, NEW b \in 1 .. n - 1, a < b PROVE to(a) < to(b)
    BY <1>4
  <1> HIDE DEF to, fro
  <1>5. Pairs(t, n - 1) = Pairs(m, n)
    <2>1. \A j \in Named(m, n) : \E a \in Named(t, n - 1) : t[a] = m[j]
      BY <1>2, <1>3
    <2>2. \A a \in Named(t, n - 1) : \E j \in Named(m, n) : t[a] = m[j]
      BY <1>2
    <2> QED BY <2>1, <2>2 DEF Pairs
  <1>6. Tidy(m, n) => Tidy(t, n - 1)
    BY <1>1, <1>2, <1>4 DEF Tidy
  <1>7. \A x : Below(m, n, x) => Below(t, n - 1, x)
    BY <1>2 DEF Below
  <1> QED BY <1>5, <1>6, <1>7

LEMMA EmptyTidy == \A m : Tidy(m, 0) /\ Pairs(m, 0) = {} /\ \A x : Below(m, 0, x)
  BY DEF Tidy, Pairs, Below, Named

(* The rows of the chat shown.                                               *)
LEMMA HeldSame ==
  ASSUME UNCHANGED <<rows, current>>
  PROVE  Held(current)' = Held(current) /\ \A m : Agrees(m, current) => Agrees(m, current')
  BY DEF Held, History, Agrees

LEMMA HeldTyped ==
  ASSUME ChatTypes, NEW c, NEW h \in Held(c)
  PROVE  /\ h[1] \in 1 .. lastId /\ h[2] \in Roles /\ h = <<h[1], h[2]>> /\ c \in chats
         /\ lastId \in Nat
  <1>1. PICK r \in rows : r.chat = c /\ h = <<r.id, r.role>>
    BY DEF Held, History
  <1>2. r \in [id : 1 .. lastId, chat : chats, role : Roles]
    BY DEF ChatTypes
  <1> QED BY <1>1, <1>2 DEF ChatTypes

LEMMA HeldOfNone ==
  ASSUME ChatTypes, NEW c, c \notin chats
  PROVE  Held(c) = {}
  BY HeldTyped

-----------------------------------------------------------------------------
(* The page and the rows: steps that move neither                            *)

LEMMA ExchangeSame ==
  ASSUME NEW k, InExchange(k), UNCHANGED current, Held(current)' = Held(current),
         stream'[k] = stream[k], job'[k] = job[k],
         Len(messages') >= 2, Question' = Question, Reply' = Reply, OldPairs' = OldPairs,
         Tidy(messages, Old)',
         \A x : Below(messages, Old, x) => Below(messages', Old', x)
  PROVE  InExchange(k)'
  <1>1. BeforeCut(k) => BeforeCut(k)'
    BY DEF BeforeCut
  <1>2. BeforeAsk(k) => BeforeAsk(k)'
    BY DEF BeforeAsk
  <1>3. \A x, y : (InRows(x, y) => InRows(x, y)') /\ (OnItsWay(k, x, y) => OnItsWay(k, x, y)')
    BY DEF InRows, OnItsWay
  <1>4. Stage(k)'
    BY <1>1, <1>2, <1>3 DEF InExchange, Stage
  <1> QED BY <1>4 DEF InExchange

LEMMA RowsQuiet ==
  ASSUME AgreeInv, parted' \/ ~ parted, UNCHANGED <<current, messages, awaiting, seq, total>>,
         Held(current)' = Held(current),
         \A k \in Streams : /\ (stream'[k].phase = "open") = Busy(k) /\ job'[k] = job[k]
                            /\ Busy(k) => stream'[k] = stream[k],
         controller' = controller \/ \A k \in Streams : ~ Busy(k),
         \A l \in Loads : load'[l] = load[l] \/ load'[l].phase = "over"
  PROVE  AgreeInv'
<1> SUFFICES ASSUME ~ parted' PROVE AgreeInv'
  BY DEF AgreeInv, AnswersAlone, FirstPages, FetchFits, RestFits, OpenFits
<1>1. ~ parted /\ \A k \in Streams : Busy(k)' = Busy(k)
  BY DEF Busy
<1>2. AnswersAlone'
  BY <1>1 DEF AgreeInv, AnswersAlone
<1>3. FirstPages'
  BY <1>1 DEF AgreeInv, FirstPages, Pending
<1>4. FetchFits'
  BY <1>1 DEF AgreeInv, FetchFits, Wanted, Agrees
<1>5. RestFits'
  BY <1>1 DEF AgreeInv, RestFits, Agrees
<1>6. OpenFits'
  <2>1. SUFFICES ASSUME current' # NoChat, NEW k \in Streams, Busy(k)'
                 PROVE  current' = stream'[k].chat /\ InExchange(k)'
    BY DEF OpenFits
  <2>2. current = stream[k].chat /\ InExchange(k) /\ stream'[k] = stream[k] /\ job'[k] = job[k]
    BY <1>1, <2>1 DEF AgreeInv, OpenFits
  <2>3. /\ Len(messages') >= 2 /\ Question' = Question /\ Reply' = Reply /\ OldPairs' = OldPairs
        /\ Tidy(messages, Old)' /\ \A x : Below(messages, Old, x) => Below(messages', Old', x)
    BY <2>2 DEF InExchange, Question, Reply, OldPairs, Old, Tidy, Below, Named, Pairs
  <2> QED BY <2>2, <2>3, ExchangeSame
<1> QED BY <1>2, <1>3, <1>4, <1>5, <1>6 DEF AgreeInv

LEMMA QuietAgrees ==
  ASSUME AgreeInv, parted' \/ ~ parted, UNCHANGED <<rows, current, messages, awaiting, seq, total>>,
         \A k \in Streams : /\ (stream'[k].phase = "open") = Busy(k) /\ job'[k] = job[k]
                            /\ Busy(k) => stream'[k] = stream[k],
         controller' = controller \/ \A k \in Streams : ~ Busy(k),
         \A l \in Loads : load'[l] = load[l] \/ load'[l].phase = "over"
  PROVE  AgreeInv'
  BY HeldSame, RowsQuiet

(* An answer comes to its end, or a chat is still asked for.                 *)
LEMMA CreatingAgrees ==
  ASSUME ShowsInv, AgreeInv, NEW k \in Streams,
         NoNewChat(k) \/ \E kind \in {"send", "workflow"} : AskForChat(k, kind)
  PROVE  AgreeInv'
<1>1. /\ UNCHANGED <<rows, current, messages, awaiting, seq, total, parted, job, load, controller>>
      /\ stream[k].phase \in {"creating", "unused"}
  BY DEF NoNewChat, AskForChat, Unused, stored, paging
<1>2. stream[k] \in Answers /\ stream \in [Streams -> Answers]
  BY DEF ShowsInv, ChatTypes
<1>3. /\ stream'[k].phase \in {"creating", "over"}
      /\ \A j \in Streams \ {k} : stream'[j] = stream[j]
  BY <1>2 DEF NoNewChat, AskForChat, Answers
<1>4. \A j \in Streams : /\ (stream'[j].phase = "open") = Busy(j) /\ job'[j] = job[j]
                         /\ Busy(j) => stream'[j] = stream[j]
  BY <1>1, <1>3 DEF Busy
<1> QED BY <1>1, <1>4, QuietAgrees

LEMMA FinallyAgrees ==
  ASSUME ShowsInv, AgreeInv, NEW k \in Streams, Finally(k)
  PROVE  AgreeInv'
<1> SUFFICES ASSUME ~ parted' PROVE AgreeInv'
  BY DEF AgreeInv, AnswersAlone, FirstPages, FetchFits, RestFits, OpenFits
<1>1. /\ UNCHANGED <<rows, current, messages, awaiting, seq, total, job, load>>
      /\ stream[k].phase = "closing" /\ ~ parted /\ controller \in {NoStream, k}
      /\ controller' = NoStream
  BY DEF Finally, stored, paging
<1>2. stream[k] \in Answers /\ stream \in [Streams -> Answers]
  BY DEF ShowsInv, ChatTypes
<1>3. PICK s : s = [stream EXCEPT ![k].phase = "over"]
  OBVIOUS
<1>4. /\ s \in [Streams -> Answers] /\ s[k].phase = "over"
      /\ \A j \in Streams \ {k} : s[j] = stream[j]
  BY <1>2, <1>3 DEF Answers
<1>5. stream' = Settled(s, job)
  BY <1>3 DEF Finally
<1>6. \A j \in Streams : /\ stream'[j].phase = s[j].phase
                         /\ s[j].phase # "over" => stream'[j] = s[j]
  BY <1>4, <1>5, SettledIs
<1>7. \A j \in Streams : /\ (stream'[j].phase = "open") = Busy(j) /\ job'[j] = job[j]
                         /\ Busy(j) => stream'[j] = stream[j]
  BY <1>1, <1>4, <1>6 DEF Busy
<1>8. \A j \in Streams : ~ Busy(j)
  <2>1. ASSUME NEW j \in Streams, Busy(j) PROVE FALSE
    <3>1. j = controller
      BY <1>1, <2>1 DEF AgreeInv, AnswersAlone
    <3>2. j # k /\ j # NoStream
      BY <1>1, <2>1 DEF Busy, Streams, NoStream
    <3> QED BY <1>1, <3>1, <3>2
  <2> QED BY <2>1
<1> QED BY <1>1, <1>7, <1>8, QuietAgrees

(* What breaks an answer off parts the page; else none was received.         *)
LEMMA StopAgrees ==
  ASSUME ShowsInv, AgreeInv,
         UNCHANGED <<rows, current, messages, awaiting, seq, total, job, load>>,
         stream' = Aborted, parted' \/ (~ parted /\ ~ BreaksOff)
  PROVE  AgreeInv'
<1> SUFFICES ASSUME ~ parted' PROVE AgreeInv'
  BY DEF AgreeInv, AnswersAlone, FirstPages, FetchFits, RestFits, OpenFits
<1>1. Aborted = stream /\ \A k \in Streams : ~ Busy(k)
  BY NoneBusy DEF ShowsInv, AgreeInv
<1>2. \A j \in Streams : /\ (stream'[j].phase = "open") = Busy(j) /\ job'[j] = job[j]
                         /\ Busy(j) => stream'[j] = stream[j]
  BY <1>1 DEF Busy
<1> QED BY <1>1, <1>2, QuietAgrees

LEMMA StoppedAgrees == ShowsInv /\ AgreeInv /\ Stop => AgreeInv'
  <1> SUFFICES ASSUME ShowsInv, AgreeInv, Stop PROVE AgreeInv'
    OBVIOUS
  <1>1. /\ UNCHANGED <<rows, current, messages, awaiting, seq, total, job, load>>
        /\ stream' = Aborted /\ (parted' \/ (~ parted /\ ~ BreaksOff))
    BY DEF Stop, stored, paging
  <1> QED BY <1>1, StopAgrees

LEMMA AskToDeleteAgrees ==
  ASSUME ShowsInv, AgreeInv, NEW c \in chats, AskToDelete(c)
  PROVE  AgreeInv'
<1>1. /\ UNCHANGED <<rows, current, messages, awaiting, seq, total, job, load>>
  BY DEF AskToDelete, stored, paging
<1>2. CASE current = c
  <2>1. stream' = Aborted /\ (parted' \/ (~ parted /\ ~ BreaksOff))
    BY <1>2 DEF AskToDelete
  <2> QED BY <1>1, <2>1, StopAgrees
<1>3. CASE current # c
  <2>1. UNCHANGED <<stream, controller, parted>>
    BY <1>3 DEF AskToDelete
  <2>2. \A j \in Streams : /\ (stream'[j].phase = "open") = Busy(j) /\ job'[j] = job[j]
                           /\ Busy(j) => stream'[j] = stream[j]
    BY <1>1, <2>1 DEF Busy
  <2> QED BY <1>1, <2>1, <2>2, QuietAgrees
<1> QED BY <1>2, <1>3

(* A request that failed, or came too late.                                  *)
LEMMA DroppedAgrees ==
  ASSUME ShowsInv, AgreeInv, NEW l \in Loads,
         LoadFails(l) \/ ((TakeHistory(l) \/ TakeMore(l)) /\ ~ Wanted(l))
  PROVE  AgreeInv'
<1>1. /\ UNCHANGED <<rows, current, messages, awaiting, seq, total, job, stream, controller, parted>>
      /\ load' = [load EXCEPT ![l] = [NoLoad EXCEPT !.phase = "over"]]
  BY DEF LoadFails, TakeHistory, TakeMore, stored, shown
<1>2. \A m \in Loads : load'[m] = load[m] \/ load'[m].phase = "over"
  BY <1>1, OverIs DEF ShowsInv
<1>3. \A j \in Streams : /\ (stream'[j].phase = "open") = Busy(j) /\ job'[j] = job[j]
                         /\ Busy(j) => stream'[j] = stream[j]
  BY <1>1 DEF Busy
<1> QED BY <1>1, <1>2, <1>3, QuietAgrees

(* No older page is asked for while the page shows the whole chat.           *)
LEMMA NoMore ==
  ASSUME ShowsInv, AgreeInv, ~ parted
  PROVE  ~ (page * PageSize < total) /\ \A l \in Loads : ~ TakeMore(l)
<1>1. total <= PageSize /\ total \in Nat /\ page \in Nat \ {0} /\ PageSize \in Nat
  BY ChatConstants DEF AgreeInv, FirstPages, ShowsInv, ChatTypes
<1>2. \A a \in Nat \ {0}, b \in Nat : a * b >= b
  <2>1. SUFFICES ASSUME NEW a \in Nat \ {0}, NEW b \in Nat PROVE a * b >= b
    OBVIOUS
  <2>2. PICK d \in Nat : a = d + 1
    <3>1. a - 1 \in Nat /\ a = (a - 1) + 1
      OBVIOUS
    <3> QED BY <3>1
  <2>3. d * b \in Nat /\ (d + 1) * b = d * b + b
    OBVIOUS
  <2> QED BY <2>2, <2>3
<1>3. page * PageSize >= PageSize /\ page * PageSize \in Nat
  BY <1>1, <1>2
<1>4. \A l \in Loads : ~ TakeMore(l)
  BY DEF TakeMore, AgreeInv, FirstPages, Pending
<1> QED BY <1>1, <1>3, <1>4

LEMMA MoreAgrees ==
  ASSUME ShowsInv, AgreeInv, NEW l \in Loads, More(l) \/ TakeMore(l)
  PROVE  AgreeInv'
<1>1. parted'
  <2>1. parted' = parted
    BY DEF More, TakeMore
  <2> QED BY <2>1, NoMore DEF More
<1> QED BY <1>1 DEF AgreeInv, AnswersAlone, FirstPages, FetchFits, RestFits, OpenFits

(* The page goes on to no chat, or waits for the history of another.         *)
LEMMA LeaveAgrees == ShowsInv /\ AgreeInv /\ (Clear \/ LeaveChat) => AgreeInv'
<1> SUFFICES ASSUME ShowsInv, AgreeInv, Clear \/ LeaveChat, ~ parted' PROVE AgreeInv'
  BY DEF AgreeInv, AnswersAlone, FirstPages, FetchFits, RestFits, OpenFits
<1>1. /\ UNCHANGED <<rows, seq, total, job, load>> /\ stream' = Aborted /\ ~ parted /\ ~ BreaksOff
      /\ current' = NoChat /\ awaiting' = FALSE
  BY DEF Clear, LeaveChat, stored, paging
<1>2. stream' = stream /\ \A k \in Streams : ~ Busy(k) /\ job[k] \in {"unused", "over"}
  BY <1>1, NoneBusy DEF ShowsInv, AgreeInv
<1>3. AnswersAlone' /\ FirstPages'
  BY <1>1, <1>2 DEF AgreeInv, AnswersAlone, FirstPages, Pending, Busy
<1> QED BY <1>1, <1>3 DEF AgreeInv, FetchFits, RestFits, OpenFits

LEMMA SelectAgrees ==
  ASSUME ShowsInv, AgreeInv, NEW l \in Loads, NEW c \in chats, Select(l, c)
  PROVE  AgreeInv'
<1> SUFFICES ASSUME ~ parted' PROVE AgreeInv'
  BY DEF AgreeInv, AnswersAlone, FirstPages, FetchFits, RestFits, OpenFits
<1>1. /\ UNCHANGED <<job>> /\ stream' = Aborted /\ ~ parted /\ ~ BreaksOff
      /\ current' = c /\ awaiting' = TRUE /\ seq' = seq + 1 /\ total' = 0
      /\ AskForPage(l, "select", c, 1, seq + 1) /\ ChatTypes
  BY DEF Select, ShowsInv
<1>2. stream' = stream /\ \A k \in Streams : ~ Busy(k) /\ job[k] \in {"unused", "over"}
  BY <1>1, NoneBusy DEF AgreeInv
<1>3. PICK s \in Nat, n \in Nat \ {0}, d \in Nat : s = seq + 1 /\ n = 1 /\ d = c
  BY <1>1 DEF ChatTypes
<1>4. /\ load'[l].phase = "asked" /\ load'[l].what = "select" /\ load'[l].page = n
      /\ \A m \in Loads \ {l} : load'[m] = load[m]
  <2>1. ChatTypes /\ AskForPage(l, "select", d, n, s)
    BY <1>1, <1>3
  <2> QED BY <2>1, AskedIs
<1>5. PageSize \in Nat
  BY ChatConstants
<1>6. AnswersAlone' /\ FirstPages'
  BY <1>1, <1>2, <1>3, <1>4, <1>5 DEF AgreeInv, AnswersAlone, FirstPages, Pending, Busy
<1>7. \A m \in Loads : load'[m].phase = "served" => ~ Wanted(m)'
  <2>1. \A m \in Loads : Pending(m) => load[m].seq <= seq /\ load[m].seq \in Nat /\ seq \in Nat
    BY <1>1 DEF ShowsInv, LoadsApart, ChatTypes, Pages
  <2> QED BY <1>1, <1>4, <2>1 DEF Wanted, Pending
<1>8. FetchFits'
  BY <1>2, <1>7 DEF FetchFits, Busy
<1>9. RestFits' /\ OpenFits'
  BY <1>1, <1>2 DEF RestFits, OpenFits, Busy
<1> QED BY <1>6, <1>8, <1>9 DEF AgreeInv

(* The history comes: all of the chat, or the page is parted from it.        *)
LEMMA TakeHistoryAgrees ==
  ASSUME ShowsInv, AgreeInv, NEW l \in Loads, TakeHistory(l), Wanted(l)
  PROVE  AgreeInv'
<1> SUFFICES ASSUME ~ parted' PROVE AgreeInv'
  BY DEF AgreeInv, AnswersAlone, FirstPages, FetchFits, RestFits, OpenFits
<1>1. /\ UNCHANGED <<rows, current, seq, stream, job, controller>> /\ ChatTypes
      /\ load' = [load EXCEPT ![l] = [NoLoad EXCEPT !.phase = "over"]]
      /\ load[l].phase = "served" /\ Selects(l) /\ ~ parted
      /\ messages' = load[l].list /\ total' = load[l].total /\ awaiting' = FALSE
      /\ ~ (load[l].total > PageSize)
  BY DEF TakeHistory, stored, ShowsInv, Selects, Pending
<1>2. load[l].total <= PageSize
  <2>1. load[l] \in Pages
    BY <1>1 DEF ChatTypes
  <2>2. load[l].total \in Nat /\ PageSize \in Nat
    BY <2>1, ChatConstants DEF Pages
  <2> QED BY <1>1, <2>2
<1>3. awaiting
  BY <1>1 DEF ShowsInv, LoadsApart
<1>4. (\A k \in Streams : ~ Busy(k)) /\ Agrees(load[l].list, current)
  BY <1>1, <1>2, <1>3 DEF AgreeInv, FetchFits
<1>5. \A m \in Loads : load'[m] = load[m] \/ load'[m].phase = "over"
  BY <1>1, OverIs
<1>6. AnswersAlone' /\ FirstPages'
  BY <1>1, <1>2, <1>5 DEF AgreeInv, AnswersAlone, FirstPages, Pending, Busy
<1>7. Agrees(messages, current)'
  BY <1>1, <1>4 DEF Agrees, Held, History
<1> QED BY <1>1, <1>4, <1>6, <1>7 DEF AgreeInv, FetchFits, RestFits, OpenFits, Busy

(* A first page as long as the chat is the whole chat, in order.             *)
LEMMA WholeChat ==
  ASSUME ChatTypes, NEW c, NEW list, NEW t \in Seq(Messages),
         OldestFirst(list, ListPage(c, 1)), Shown(list, t), Cardinality(History(c)) <= PageSize
  PROVE  Agrees(t, c)
<1>1. ListPage(c, 1) = History(c)
  <2>1. SUFFICES ASSUME NEW r \in History(c)
                 PROVE  Cardinality({q \in History(c) : q.id < r.id})
                            \in (1 - 1) * PageSize .. 1 * PageSize - 1
    BY DEF ListPage
  <2>2. PICK older, w, p : /\ older = {q \in History(c) : q.id < r.id}
                           /\ w = Cardinality(older) /\ p = PageSize
    OBVIOUS
  <2>3. IsFiniteSet(History(c)) /\ Cardinality(History(c)) \in Nat
    BY HistoryIs
  <2>4. older \subseteq History(c) /\ r \notin older
    <3>1. r \in [id : 1 .. lastId, chat : chats, role : Roles] /\ lastId \in Nat
      BY DEF History, ChatTypes
    <3> QED BY <2>2, <3>1
  <2>5. w \in Nat /\ w < Cardinality(History(c))
    <3>1. IsFiniteSet(older) /\ w <= Cardinality(History(c)) /\ w # Cardinality(History(c))
      BY <2>2, <2>3, <2>4, FS_Subset
    <3>2. w \in Nat
      BY <2>2, <3>1, FS_CardinalityType
    <3> QED BY <2>3, <3>1, <3>2
  <2>6. w <= p - 1 /\ p \in Nat /\ w \in Nat
    BY <2>2, <2>3, <2>5, ChatConstants
  <2>7. w \in (1 - 1) * p .. 1 * p - 1
    BY ONLY <2>6
  <2> QED BY <2>2, <2>7
<1>2. {list[i] : i \in DOMAIN list} = History(c)
      /\ \A i, j \in DOMAIN list : i < j => list[i].id < list[j].id
  BY <1>1 DEF OldestFirst
<1>3. DOMAIN list = 1 .. Len(t) /\ Len(t) \in Nat
      /\ \A i \in 1 .. Len(t) : t[i].sid = list[i].id /\ t[i].role = list[i].role /\ t[i].card = FALSE
  BY DEF Shown
<1>4. \A i \in 1 .. Len(t) : t[i].sid # 0
  <2>1. SUFFICES ASSUME NEW i \in 1 .. Len(t) PROVE list[i].id # 0
    BY <1>3
  <2>2. list[i] \in rows
    BY <1>2, <1>3 DEF History
  <2>3. list[i] \in [id : 1 .. lastId, chat : chats, role : Roles] /\ lastId \in Nat
    BY <2>2 DEF ChatTypes
  <2> QED BY <2>3
<1>5. Named(t, Len(t)) = 1 .. Len(t)
  BY <1>4 DEF Named
<1>6. Tidy(t, Len(t))
  BY <1>2, <1>3, <1>4, <1>5 DEF Tidy
<1>7. Pairs(t, Len(t)) = Held(c)
  <2>1. Pairs(t, Len(t)) = {<<list[i].id, list[i].role>> : i \in DOMAIN list}
    BY <1>3, <1>5 DEF Pairs
  <2>2. Held(c) = {<<r.id, r.role>> : r \in {list[i] : i \in DOMAIN list}}
    BY <1>2 DEF Held
  <2> QED BY <2>1, <2>2
<1> QED BY <1>6, <1>7 DEF Agrees

LEMMA ServeAgrees ==
  ASSUME ShowsInv, AgreeInv, NEW l \in Loads, ServePage(l)
  PROVE  AgreeInv'
<1> SUFFICES ASSUME ~ parted' PROVE AgreeInv'
  BY DEF AgreeInv, AnswersAlone, FirstPages, FetchFits, RestFits, OpenFits
<1>1. /\ UNCHANGED <<rows, current, messages, awaiting, seq, total, stream, job, controller>>
      /\ ~ parted /\ ChatTypes /\ load[l].phase = "asked"
  BY DEF ServePage, stored, shown, paging, ShowsInv
<1>2. load[l].what = "select" /\ load[l].page = 1
  BY <1>1 DEF AgreeInv, FirstPages, Pending
<1>3. PICK list, t :
           /\ OldestFirst(list, ListPage(load[l].chat, load[l].page)) /\ Shown(list, t)
           /\ t \in Seq(MessagesOf(load[l].chat)) /\ load' \in [Loads -> Pages]
           /\ load'[l].list = t /\ load'[l].phase = "served"
           /\ load'[l].total = Cardinality(History(load[l].chat))
           /\ load'[l].what = load[l].what /\ load'[l].chat = load[l].chat
           /\ load'[l].page = load[l].page /\ load'[l].seq = load[l].seq
           /\ \A m \in Loads \ {l} : load'[m] = load[m]
  BY <1>1, ServedIs
<1>4. AnswersAlone' /\ FirstPages'
  BY <1>1, <1>2, <1>3 DEF AgreeInv, AnswersAlone, FirstPages, Pending, Busy
<1>5. load'[l].total <= PageSize => Agrees(t, load[l].chat)
  <2>1. t \in Seq(Messages)
    BY <1>3 DEF MessagesOf
  <2>2. PICK c : c = load[l].chat
    OBVIOUS
  <2>3. /\ ChatTypes /\ t \in Seq(Messages) /\ OldestFirst(list, ListPage(c, 1)) /\ Shown(list, t)
        /\ load'[l].total = Cardinality(History(c))
    BY <1>1, <1>2, <1>3, <2>1, <2>2
  <2>4. load'[l].total <= PageSize => Agrees(t, c)
    BY ONLY <2>3, WholeChat
  <2> QED BY <2>2, <2>4
<1>6. FetchFits'
  <2>1. SUFFICES ASSUME awaiting', NEW m \in Loads, load'[m].phase = "served", Wanted(m)',
                        load'[m].total <= PageSize
                 PROVE  Agrees(load[m].list, current)'
    BY <1>1 DEF AgreeInv, FetchFits, Busy
  <2>2. CASE m = l
    <3>1. load[l].chat = current /\ Agrees(t, load[l].chat)
      BY <1>1, <1>3, <1>5, <2>1, <2>2 DEF Wanted
    <3> QED BY <1>1, <1>3, <2>2, <3>1 DEF Agrees, Held, History
  <2>3. CASE m # l
    <3>1. Agrees(load[m].list, current) /\ load'[m] = load[m]
      BY <1>1, <1>3, <2>1, <2>3 DEF AgreeInv, FetchFits, Wanted
    <3> QED BY <1>1, <3>1 DEF Agrees, Held, History
  <2> QED BY <2>2, <2>3
<1>7. RestFits'
  BY <1>1 DEF AgreeInv, RestFits, Agrees, Held, History, Busy
<1>8. OpenFits'
  <2>1. SUFFICES ASSUME current' # NoChat, NEW k \in Streams, Busy(k)'
                 PROVE  current' = stream'[k].chat /\ InExchange(k)'
    BY DEF OpenFits
  <2>2. current = stream[k].chat /\ InExchange(k)
    BY <1>1, <2>1 DEF AgreeInv, OpenFits, Busy
  <2>3. /\ Len(messages') >= 2 /\ Question' = Question /\ Reply' = Reply /\ OldPairs' = OldPairs
        /\ Tidy(messages, Old)' /\ \A x : Below(messages, Old, x) => Below(messages', Old', x)
    BY <1>1, <2>2 DEF InExchange, Question, Reply, OldPairs, Old, Tidy, Below, Named, Pairs
  <2> QED BY <1>1, <2>2, <2>3, ExchangeSame, HeldSame
<1> QED BY <1>4, <1>6, <1>7, <1>8 DEF AgreeInv

LEMMA DeleteAgrees ==
  ASSUME ShowsInv, AgreeInv, NEW c \in chats, Delete(c)
  PROVE  AgreeInv'
<1>1. /\ rows' = {r \in rows : r.chat # c}
      /\ UNCHANGED <<seq, total, stream, job, controller, load, parted>>
      /\ IF current = c THEN current' = NoChat /\ awaiting' = FALSE
         ELSE UNCHANGED <<current, messages, awaiting>>
  BY DEF Delete, paging
<1>2. CASE current = c
  BY <1>1, <1>2 DEF AgreeInv, AnswersAlone, FirstPages, FetchFits, RestFits, OpenFits, Busy, Pending
<1>3. CASE current # c
  <2>1. Held(current)' = Held(current)
    BY <1>1, <1>3 DEF Held, History
  <2>2. \A j \in Streams : /\ (stream'[j].phase = "open") = Busy(j) /\ job'[j] = job[j]
                           /\ Busy(j) => stream'[j] = stream[j]
    BY <1>1 DEF Busy
  <2> QED BY <1>1, <1>3, <2>1, <2>2, RowsQuiet
<1> QED BY <1>2, <1>3

(* A card is staged where no answer is received, or the page parts.          *)
LEMMA StageAgrees == ShowsInv /\ AgreeInv /\ StageCard => AgreeInv'
<1> SUFFICES ASSUME ShowsInv, AgreeInv, StageCard, ~ parted' PROVE AgreeInv'
  BY DEF AgreeInv, AnswersAlone, FirstPages, FetchFits, RestFits, OpenFits
<1>1. /\ UNCHANGED <<rows, controller, seq, total, stream, job, load>>
      /\ ~ parted /\ controller = NoStream /\ ChatTypes
  BY DEF StageCard, paging, ShowsInv
<1>2. \A k \in Streams : ~ Busy(k)
  BY <1>1 DEF AgreeInv, AnswersAlone, Streams, NoStream
<1>3. AnswersAlone' /\ FirstPages' /\ OpenFits'
  BY <1>1, <1>2 DEF AgreeInv, AnswersAlone, FirstPages, OpenFits, Pending, Busy
<1>4. CASE messages' = Append(messages, Card(current)) /\ UNCHANGED <<current, awaiting>>
  <2>1. FetchFits'
    BY <1>1, <1>4 DEF AgreeInv, FetchFits, Wanted, Agrees, Held, History, Busy
  <2>2. RestFits'
    <3>1. SUFFICES ASSUME ~ awaiting', current' # NoChat PROVE Agrees(messages, current)'
      BY DEF RestFits
    <3>2. Agrees(messages, current)
      BY <1>1, <1>2, <1>4, <3>1 DEF AgreeInv, RestFits
    <3>3. PICK n \in Nat : n = Len(messages)
      BY <1>1 DEF ChatTypes
    <3>4. /\ messages \in Seq(Messages) /\ current \in Nat
          /\ Card(current) \in MessagesOf(current) /\ Card(current).sid = 0
          /\ Card(current).role = "assistant"
      BY <1>1, CardTyped DEF ChatTypes, NoChat
    <3>5. /\ Len(messages') = n + 1 /\ messages'[n + 1] = Card(current)
          /\ \A i \in 1 .. n : messages'[i] = messages[i]
      BY <1>4, <3>3, <3>4
    <3>6. Tidy(messages', n) /\ Pairs(messages', n) = Pairs(messages, n)
      BY <3>2, <3>3, <3>5, PrefixSame DEF Agrees
    <3>7. /\ Tidy(messages', n + 1)
          /\ Pairs(messages', n + 1) = Pairs(messages', n) \union
                (IF messages'[n + 1].sid = 0 THEN {} ELSE {<<messages'[n + 1].sid, messages'[n + 1].role>>})
      <4>1. /\ n \in Nat /\ messages'[n + 1].sid = 0 /\ messages'[n + 1].role = "assistant"
            /\ messages'[n + 1].sid \in Nat /\ Tidy(messages', n)
        BY <3>4, <3>5, <3>6
      <4>2. PICK m : m = messages'
        OBVIOUS
      <4>3. /\ n \in Nat /\ Tidy(m, n) /\ m[n + 1].sid \in Nat
            /\ (m[n + 1].role = "user" => m[n + 1].sid # 0)
            /\ (m[n + 1].card => (m[n + 1].sid = 0 /\ m[n + 1].role = "assistant"))
            /\ (m[n + 1].sid # 0 => Below(m, n, m[n + 1].sid))
        BY <4>1, <4>2
      <4>4. /\ Tidy(m, n + 1)
            /\ Pairs(m, n + 1) = Pairs(m, n) \union
                  (IF m[n + 1].sid = 0 THEN {} ELSE {<<m[n + 1].sid, m[n + 1].role>>})
        BY ONLY <4>3, OneMore
      <4> QED BY <4>2, <4>4
    <3>8. Pairs(messages', n + 1) = Held(current)
      BY <3>2, <3>3, <3>4, <3>5, <3>6, <3>7 DEF Agrees
    <3> QED BY <1>1, <1>4, <3>5, <3>7, <3>8, HeldSame DEF Agrees
  <2> QED BY <1>3, <2>1, <2>2 DEF AgreeInv
<1>5. CASE NewSession /\ messages' = <<Card(lastChat + 1)>>
  <2>1. /\ current' = lastChat + 1 /\ awaiting' = FALSE /\ lastChat + 1 \in Nat
        /\ current' \notin chats
    BY <1>1, <1>5 DEF NewSession, ChatTypes
  <2>2. Held(current)' = {}
    <3>1. PICK c : c = lastChat + 1
      OBVIOUS
    <3>2. Held(c) = {}
      BY <1>1, <2>1, <3>1, HeldOfNone
    <3> QED BY <1>1, <2>1, <3>1, <3>2 DEF Held, History
  <2>3. /\ Len(messages') = 1 /\ messages'[1].sid = 0 /\ messages'[1].role = "assistant"
    BY <1>5, <2>1, CardTyped
  <2>4. Named(messages', 1) = {}
    BY <2>3 DEF Named
  <2>5. Agrees(messages, current)'
    BY <2>2, <2>3, <2>4 DEF Agrees, Tidy, Pairs
  <2> QED BY <1>3, <2>1, <2>5 DEF AgreeInv, FetchFits, RestFits
<1> QED BY <1>4, <1>5 DEF StageCard

LEMMA RemovedIs ==
  ASSUME NEW S, NEW s \in Seq(S), NEW i \in 1 .. Len(s), NEW t, t = RemoveAt(s, i)
  PROVE  /\ Len(t) = Len(s) - 1 /\ Len(s) \in Nat
         /\ \A j \in 1 .. Len(s) - 1 : t[j] = IF j < i THEN s[j] ELSE s[j + 1]
  <1>1. Len(s) \in Nat
    OBVIOUS
  <1>2. PICK a, b : a = SubSeq(s, 1, i - 1) /\ b = SubSeq(s, i + 1, Len(s))
    OBVIOUS
  <1>3. /\ a \in Seq(S) /\ b \in Seq(S) /\ Len(a) = i - 1 /\ Len(b) = Len(s) - i
        /\ \A j \in 1 .. i - 1 : a[j] = s[j]
        /\ \A j \in 1 .. Len(s) - i : b[j] = s[i + j]
    <2>1. a \in Seq(S) /\ Len(a) = i - 1 /\ \A j \in 1 .. i - 1 : a[j] = s[j]
      BY <1>1, <1>2
    <2>2. b \in Seq(S) /\ Len(b) = Len(s) - i
      BY <1>1, <1>2
    <2>3. \A j \in 1 .. Len(s) - i : b[j] = s[i + j]
      <3>1. ASSUME NEW j \in 1 .. Len(s) - i PROVE b[j] = s[(i + 1) + j - 1] /\ (i + 1) + j - 1 = i + j
        BY <1>1, <1>2, <3>1
      <3> QED BY <3>1
    <2> QED BY <2>1, <2>2, <2>3
  <1>4. t = a \o b
    BY <1>2 DEF RemoveAt
  <1>5. Len(t) = Len(s) - 1
    <2>1. Len(t) = Len(a) + Len(b)
      <3>1. a \in Seq(S) /\ b \in Seq(S)
        BY <1>3
      <3> QED BY ONLY <1>4, <3>1
    <2>2. (i - 1) + (Len(s) - i) = Len(s) - 1
      BY <1>1
    <2> QED BY <1>3, <2>1, <2>2
  <1>6. ASSUME NEW j \in 1 .. Len(s) - 1 PROVE t[j] = IF j < i THEN s[j] ELSE s[j + 1]
    <2>1. CASE j < i
      BY <1>1, <1>3, <1>4, <2>1
    <2>2. CASE ~ (j < i)
      <3>1. j - (i - 1) \in 1 .. Len(s) - i /\ i + (j - (i - 1)) = j + 1
        BY <1>1, <2>2
      <3>2. j \in 1 .. Len(a) + Len(b) /\ ~ (j <= Len(a)) /\ j - Len(a) = j - (i - 1)
        BY <1>1, <1>3, <2>2
      <3>3. t[j] = b[j - (i - 1)]
        <4>1. (a \o b)[j] = IF j <= Len(a) THEN a[j] ELSE b[j - Len(a)]
          BY ONLY <1>3, <3>2, ConcatProperties
        <4> QED BY <1>4, <3>2, <4>1
      <3> QED BY <1>3, <2>2, <3>1, <3>3
    <2> QED BY <2>1, <2>2
  <1> QED BY <1>1, <1>5, <1>6

LEMMA CancelAgrees ==
  ASSUME ShowsInv, AgreeInv, NEW i \in DOMAIN messages, CancelCard(i)
  PROVE  AgreeInv'
<1> SUFFICES ASSUME ~ parted' PROVE AgreeInv'
  BY DEF AgreeInv, AnswersAlone, FirstPages, FetchFits, RestFits, OpenFits
<1>1. /\ UNCHANGED <<rows, current, awaiting, seq, total, stream, job, controller, load>>
      /\ ~ parted /\ messages[i].card /\ messages' = RemoveAt(messages, i)
      /\ messages \in Seq(Messages) /\ i \in 1 .. Len(messages)
  BY DEF CancelCard, stored, paging, ShowsInv, ChatTypes
<1>2. AnswersAlone' /\ FirstPages' /\ FetchFits'
  BY <1>1 DEF AgreeInv, AnswersAlone, FirstPages, FetchFits, Pending, Wanted, Agrees, Held,
              History, Busy
<1>3. PICK m, t, n : m = messages /\ t = messages' /\ n = Len(messages)
  OBVIOUS
<1>4. /\ Len(t) = n - 1 /\ n \in Nat /\ i \in 1 .. n
      /\ \A j \in 1 .. n - 1 : t[j] = IF j < i THEN m[j] ELSE m[j + 1]
  <2>1. m \in Seq(Messages) /\ i \in 1 .. Len(m) /\ t = RemoveAt(m, i) /\ n = Len(m)
    BY <1>1, <1>3
  <2> QED BY ONLY <2>1, RemovedIs
<1>5. RestFits'
  <2>1. SUFFICES ASSUME ~ awaiting', current' # NoChat, \A k \in Streams : ~ Busy(k)'
                 PROVE  Agrees(messages, current)'
    BY DEF RestFits
  <2>2. Agrees(m, current)
    BY <1>1, <1>3, <2>1 DEF AgreeInv, RestFits, Busy
  <2>3. Tidy(m, n) /\ Pairs(m, n) = Held(current) /\ m[i].sid = 0
    BY <1>1, <1>3, <1>4, <2>2 DEF Agrees, Tidy
  <2>4. Pairs(t, n - 1) = Pairs(m, n) /\ Tidy(t, n - 1)
    BY <1>4, <2>3, OneFewer
  <2> QED BY <1>1, <1>3, <1>4, <2>3, <2>4 DEF Agrees, Held, History
<1>6. OpenFits'
  <2>1. SUFFICES ASSUME current' # NoChat, NEW k \in Streams, Busy(k)'
                 PROVE  current' = stream'[k].chat /\ InExchange(k)'
    BY DEF OpenFits
  <2>2. current = stream[k].chat /\ InExchange(k)
    BY <1>1, <2>1 DEF AgreeInv, OpenFits, Busy
  <2>3. /\ n >= 2 /\ Tidy(m, n - 2) /\ ~ m[n - 1].card /\ ~ m[n].card /\ Old = n - 2
        /\ m[i].card /\ OldPairs = Pairs(m, n - 2)
    BY <1>1, <1>3, <2>2 DEF InExchange, Question, Reply, Old, OldPairs
  <2>4. i # n - 1 /\ i # n
    BY <2>3
  <2>5. PICK o \in Nat : o = n - 2 /\ i \in 1 .. o
    BY <1>4, <2>3, <2>4
  <2>6. m[i].sid = 0
    BY <2>3, <2>5 DEF Tidy
  <2>7. /\ Pairs(t, o - 1) = Pairs(m, o) /\ Tidy(t, o - 1)
        /\ \A x : Below(m, o, x) => Below(t, o - 1, x)
    <3>1. \A j \in 1 .. o - 1 : t[j] = IF j < i THEN m[j] ELSE m[j + 1]
      BY <1>4, <2>5
    <3> QED BY <2>3, <2>5, <2>6, <3>1, OneFewer
  <2>8. Old' = o - 1 /\ Len(messages') = n - 1 /\ n - 1 >= 2
    BY <1>3, <1>4, <2>5 DEF Old
  <2>9. Question' = Question /\ Reply' = Reply
    <3>1. t[n - 2] = m[n - 1] /\ t[n - 1] = m[n]
      BY <1>4, <2>5
    <3> QED BY <1>3, <1>4, <2>8, <3>1 DEF Question, Reply
  <2>10. OldPairs' = OldPairs
    BY <1>3, <2>3, <2>5, <2>7, <2>8 DEF OldPairs
  <2>11. Tidy(messages, Old)' /\ \A x : Below(messages, Old, x) => Below(messages', Old', x)
    <3>1. Tidy(messages', Old')
      BY <1>3, <2>7, <2>8
    <3>2. \A x : Below(messages, Old, x) => Below(messages', Old', x)
      BY <1>3, <2>3, <2>5, <2>7, <2>8
    <3>3. Tidy(messages, Old)'
      BY <3>1 DEF Tidy, Named
    <3> QED BY <3>2, <3>3
  <2> QED BY <1>1, <2>2, <2>8, <2>9, <2>10, <2>11, ExchangeSame, HeldSame
<1> QED BY <1>2, <1>5, <1>6 DEF AgreeInv

-----------------------------------------------------------------------------
(* The page and the rows: an answer                                          *)

LEMMA BeginAgrees ==
  ASSUME ShowsInv, AgreeInv, NEW k \in Streams,
         NEW kind \in {"send", "edit", "regenerate", "workflow"},
         NEW c \in Nat, NEW from \in Nat, NEW of \in Nat, NEW msgs, NEW flag,
         Begin(k, kind, c, from, of, msgs, flag), ~ parted, ~ BreaksOff,
         current' = c, awaiting' = FALSE, UNCHANGED <<load, total>>,
         c # NoChat => InExchange(k)'
  PROVE  AgreeInv'
<1>1. ChatTypes
  BY DEF ShowsInv
<1>2. Aborted = stream /\ \A j \in Streams : ~ Busy(j) /\ job[j] \in {"unused", "over"}
  BY <1>1, NoneBusy DEF AgreeInv
<1>3. /\ stream'[k].phase = "open" /\ stream'[k].chat = c /\ controller' = k
      /\ \A j \in Streams \ {k} : stream'[j] = Aborted[j] /\ job'[j] = job[j]
  <2>1. /\ ChatTypes /\ k \in Streams /\ kind \in {"send", "edit", "regenerate", "workflow"}
        /\ c \in Nat /\ from \in Nat /\ of \in Nat /\ Begin(k, kind, c, from, of, msgs, flag)
    BY <1>1
  <2>2. Begun(k, kind, c, from, msgs)
    BY ONLY <2>1, BeginTyped
  <2> QED BY <2>2 DEF Begun
<1>4. \A j \in Streams : Busy(j)' = (j = k)
  BY <1>2, <1>3 DEF Busy
<1>5. AnswersAlone'
  BY <1>2, <1>3, <1>4 DEF AnswersAlone
<1>6. FirstPages'
  BY DEF AgreeInv, FirstPages, Pending
<1>7. FetchFits' /\ RestFits'
  BY <1>4 DEF FetchFits, RestFits
<1>8. OpenFits'
  BY <1>3, <1>4 DEF OpenFits
<1> QED BY <1>5, <1>6, <1>7, <1>8 DEF AgreeInv

(* What there is to check when an answer begins.                             *)
LEMMA ExchangeBegins ==
  ASSUME NEW k, NEW m, NEW n \in Nat, messages' = m, Len(m) = n + 2, Tidy(m, n),
         m[n + 1].role = "user", ~ m[n + 1].card,
         m[n + 2].role = "assistant", ~ m[n + 2].card, m[n + 2].sid = 0,
         stream'[k].kind # "workflow", stream'[k].wire = <<>>, job'[k] = "cut",
         NEW held, held = Held(current)',
         \/ /\ stream'[k].kind = "send" /\ stream'[k].from = 0
            /\ m[n + 1].sid = 0 /\ held = Pairs(m, n)
         \/ /\ stream'[k].kind = "edit" /\ stream'[k].from > 0
            /\ Below(m, n, stream'[k].from)
            /\ Pairs(m, n) = {h \in held : h[1] < stream'[k].from}
         \/ /\ stream'[k].kind = "regenerate" /\ stream'[k].from = 0
            /\ m[n + 1].sid > 0 /\ Below(m, n, m[n + 1].sid)
            /\ Pairs(m, n) \union {<<m[n + 1].sid, "user">>} \subseteq held
            /\ \A h \in held : \/ h \in Pairs(m, n) \union {<<m[n + 1].sid, "user">>}
                               \/ h[2] = "assistant" /\ h[1] > m[n + 1].sid
  PROVE  InExchange(k)'
<1>1. Old' = n /\ Len(messages') >= 2
  BY DEF Old
<1>2. Question' = m[n + 1] /\ Reply' = m[n + 2]
  BY DEF Question, Reply
<1>3. OldPairs' = Pairs(m, n) /\ Tidy(messages, Old)'
  BY <1>1 DEF OldPairs, Pairs, Named, Tidy
<1>4. BeforeCut(k)'
  BY <1>1, <1>2, <1>3 DEF BeforeCut, Below, Named
<1> QED BY <1>1, <1>2, <1>3, <1>4 DEF InExchange, Stage

(* What the page shows before an answer is asked for.                        *)
LEMMA AtRestAgrees ==
  ASSUME ShowsInv, AgreeInv, ~ parted, ~ BreaksOff, ~ awaiting, current # NoChat
  PROVE  Agrees(messages, current)
  BY NoneBusy DEF ShowsInv, AgreeInv, RestFits

LEMMA SendAgrees ==
  ASSUME ShowsInv, AgreeInv, NEW k \in Streams, NEW kind \in {"send", "workflow"},
         SendMessage(k, kind)
  PROVE  AgreeInv'
<1> SUFFICES ASSUME ~ parted' PROVE AgreeInv'
  BY DEF AgreeInv, AnswersAlone, FirstPages, FetchFits, RestFits, OpenFits
<1>a. PICK c \in Nat : c = current
  BY DEF ShowsInv, ChatTypes, NoChat
<1>1. PICK u, a, msgs, flag :
         /\ u = Said("user", c) /\ a = Said("assistant", c)
         /\ msgs = messages \o <<u, a>> /\ flag = FALSE
  OBVIOUS
<1>2. /\ Begin(k, kind, c, 0, NoChat, msgs, flag) /\ ~ parted /\ ~ BreaksOff /\ ~ awaiting
      /\ kind = "send" /\ current # NoChat
      /\ UNCHANGED <<rows, current, load, total, awaiting>>
  BY <1>a, <1>1 DEF SendMessage, Unnamed, stored, paging
<1>b. PICK m : m = messages /\ m \in Seq(Messages)
  BY DEF ShowsInv, ChatTypes
<1>3. PICK n \in Nat : n = Len(m)
  BY <1>b
<1>4. /\ Tidy(m, n) /\ Pairs(m, n) = Held(current)
  BY <1>2, <1>b, <1>3, AtRestAgrees DEF Agrees
<1>5. /\ u \in MessagesOf(c) /\ u.sid = 0 /\ u.role = "user" /\ u.card = FALSE
      /\ a \in MessagesOf(c) /\ a.sid = 0 /\ a.role = "assistant" /\ a.card = FALSE
  BY <1>1, SaidTyped DEF Roles
<1>6. /\ Len(msgs) = n + 2 /\ msgs[n + 1] = u /\ msgs[n + 2] = a
      /\ \A i \in 1 .. n : msgs[i] = m[i]
  BY <1>1, <1>b, <1>3
<1>7. Tidy(msgs, n) /\ Pairs(msgs, n) = Pairs(m, n)
  BY <1>4, <1>6, PrefixSame
<1>8. /\ stream'[k].kind = "send" /\ stream'[k].from = 0 /\ stream'[k].wire = <<>>
      /\ job'[k] = "cut" /\ messages' = msgs
  <2>1. /\ ChatTypes /\ k \in Streams /\ kind \in {"send", "edit", "regenerate", "workflow"}
        /\ c \in Nat /\ 0 \in Nat /\ NoChat \in Nat /\ Begin(k, kind, c, 0, NoChat, msgs, flag)
        /\ kind = "send"
    BY <1>2 DEF ShowsInv, NoChat
  <2>2. Begun(k, kind, c, 0, msgs)
    BY ONLY <2>1, BeginTyped
  <2> QED BY <2>1, <2>2 DEF Begun
<1>9. InExchange(k)'
  <2>1. PICK held : held = Held(current)'
    OBVIOUS
  <2>2. held = Pairs(msgs, n)
    BY <1>2, <1>4, <1>7, <2>1, HeldSame
  <2>3. /\ n \in Nat /\ messages' = msgs /\ Len(msgs) = n + 2 /\ Tidy(msgs, n)
        /\ msgs[n + 1].role = "user" /\ ~ msgs[n + 1].card
        /\ msgs[n + 2].role = "assistant" /\ ~ msgs[n + 2].card /\ msgs[n + 2].sid = 0
        /\ stream'[k].kind # "workflow" /\ stream'[k].wire = <<>> /\ job'[k] = "cut"
        /\ held = Held(current)'
        /\ stream'[k].kind = "send" /\ stream'[k].from = 0 /\ msgs[n + 1].sid = 0
        /\ held = Pairs(msgs, n)
    BY <1>5, <1>6, <1>7, <1>8, <2>1, <2>2
  <2> QED BY ONLY <2>3, ExchangeBegins
<1>10. /\ ShowsInv /\ AgreeInv /\ k \in Streams
       /\ kind \in {"send", "edit", "regenerate", "workflow"}
       /\ c \in Nat /\ 0 \in Nat /\ NoChat \in Nat /\ Begin(k, kind, c, 0, NoChat, msgs, flag)
       /\ ~ parted /\ ~ BreaksOff /\ current' = c /\ awaiting' = FALSE
       /\ load' = load /\ total' = total /\ InExchange(k)'
  BY <1>a, <1>1, <1>2, <1>9 DEF NoChat
<1> QED BY ONLY <1>10, BeginAgrees

LEMMA SendInNewAgrees ==
  ASSUME ShowsInv, AgreeInv, NEW k \in Streams, SendInNewChat(k)
  PROVE  AgreeInv'
<1> SUFFICES ASSUME ~ parted' PROVE AgreeInv'
  BY DEF AgreeInv, AnswersAlone, FirstPages, FetchFits, RestFits, OpenFits
<1>a. PICK c \in Nat : c = lastChat + 1
  BY DEF ShowsInv, ChatTypes
<1>1. PICK u, a, msgs, flag, kind :
         /\ u = Said("user", c) /\ a = Said("assistant", c)
         /\ msgs = <<u, a>> /\ flag = FALSE /\ kind = stream[k].kind
  OBVIOUS
<1>2. /\ Begin(k, kind, c, 0, NoChat, msgs, flag) /\ ~ parted /\ ~ BreaksOff
      /\ kind # "workflow" /\ stream[k].phase = "creating"
      /\ current' = c /\ awaiting' = FALSE /\ UNCHANGED <<rows, load, total>>
  BY <1>a, <1>1 DEF SendInNewChat, NewSession, Unnamed, paging
<1>3. kind = "send"
  <2>1. stream[k] \in Answers
    BY DEF ShowsInv, ChatTypes
  <2> QED BY <1>1, <1>2, <2>1 DEF Answers
<1>4. c \notin chats /\ ChatTypes
  BY <1>a DEF ShowsInv, ChatTypes
<1>5. Held(current)' = {}
  <2>1. Held(c) = {}
    BY <1>4, HeldOfNone
  <2> QED BY <1>2, <2>1 DEF Held, History
<1>6. /\ u.sid = 0 /\ u.role = "user" /\ u.card = FALSE
      /\ a.sid = 0 /\ a.role = "assistant" /\ a.card = FALSE
  BY <1>1, SaidTyped DEF Roles
<1>7. /\ stream'[k].kind = "send" /\ stream'[k].from = 0 /\ stream'[k].wire = <<>>
      /\ job'[k] = "cut" /\ messages' = msgs
  <2>1. /\ ChatTypes /\ k \in Streams /\ kind \in {"send", "edit", "regenerate", "workflow"}
        /\ c \in Nat /\ 0 \in Nat /\ NoChat \in Nat /\ Begin(k, kind, c, 0, NoChat, msgs, flag)
        /\ kind = "send"
    BY <1>2, <1>3, <1>4 DEF NoChat
  <2>2. Begun(k, kind, c, 0, msgs)
    BY ONLY <2>1, BeginTyped
  <2> QED BY <2>1, <2>2 DEF Begun
<1>8. InExchange(k)'
  <2>a. PICK held : held = Held(current)'
    OBVIOUS
  <2>1. PICK n \in Nat : n = 0
    OBVIOUS
  <2>2. /\ n \in Nat /\ messages' = msgs /\ Len(msgs) = n + 2 /\ Tidy(msgs, n)
        /\ msgs[n + 1].role = "user" /\ ~ msgs[n + 1].card
        /\ msgs[n + 2].role = "assistant" /\ ~ msgs[n + 2].card /\ msgs[n + 2].sid = 0
        /\ stream'[k].kind # "workflow" /\ stream'[k].wire = <<>> /\ job'[k] = "cut"
        /\ held = Held(current)'
        /\ stream'[k].kind = "send" /\ stream'[k].from = 0 /\ msgs[n + 1].sid = 0
        /\ held = Pairs(msgs, n)
    BY <1>1, <1>5, <1>6, <1>7, <2>a, <2>1, EmptyTidy
  <2> QED BY ONLY <2>2, ExchangeBegins
<1>9. /\ ShowsInv /\ AgreeInv /\ k \in Streams
      /\ kind \in {"send", "edit", "regenerate", "workflow"}
      /\ c \in Nat /\ 0 \in Nat /\ NoChat \in Nat /\ Begin(k, kind, c, 0, NoChat, msgs, flag)
      /\ ~ parted /\ ~ BreaksOff /\ current' = c /\ awaiting' = FALSE
      /\ load' = load /\ total' = total /\ InExchange(k)'
  BY <1>2, <1>3, <1>8 DEF NoChat
<1> QED BY ONLY <1>9, BeginAgrees

(* The messages before one with an id.                                       *)
LEMMA TidyBefore ==
  ASSUME NEW m, NEW n \in Nat, NEW i \in 1 .. n, Tidy(m, n), m[i].sid # 0,
         \A j \in 1 .. n : m[j].sid \in Nat
  PROVE  /\ Tidy(m, i - 1) /\ Below(m, i - 1, m[i].sid)
         /\ Pairs(m, i - 1) = {h \in Pairs(m, n) : h[1] < m[i].sid}
         /\ \A j \in Named(m, n) : j > i => m[j].sid > m[i].sid
<1>1. Named(m, i - 1) = {j \in Named(m, n) : j < i} /\ i \in Named(m, n)
  BY DEF Named
<1>2. \A j \in Named(m, n) : /\ j \in 1 .. n /\ m[j].sid \in Nat
                             /\ j < i => m[j].sid < m[i].sid
                             /\ j > i => m[j].sid > m[i].sid
  <2>1. ASSUME NEW j \in Named(m, n)
        PROVE  /\ j \in 1 .. n /\ m[j].sid \in Nat /\ m[i].sid \in Nat
               /\ j < i => m[j].sid < m[i].sid
               /\ i < j => m[i].sid < m[j].sid
    BY <1>1 DEF Tidy, Named
  <2> QED BY <2>1
<1>3. \A j \in Named(m, n) : m[j].sid < m[i].sid <=> j < i
  BY <1>2
<1>4. Tidy(m, i - 1)
  <2>1. 1 .. i - 1 \subseteq 1 .. n
    OBVIOUS
  <2> QED BY <1>1, <2>1 DEF Tidy
<1>5. Below(m, i - 1, m[i].sid)
  BY <1>1, <1>2 DEF Below
<1>6. Pairs(m, i - 1) = {h \in Pairs(m, n) : h[1] < m[i].sid}
  <2>1. \A j : <<m[j].sid, m[j].role>>[1] = m[j].sid
    OBVIOUS
  <2> QED BY <1>1, <1>3, <2>1 DEF Pairs
<1> QED BY <1>2, <1>4, <1>5, <1>6

(* The messages up to a question and an empty answer after it.               *)
LEMMA ShortenedIs ==
  ASSUME NEW S, NEW m \in Seq(S), NEW i \in 1 .. Len(m), NEW a \in S, NEW t,
         t = Append(SubSeq(m, 1, i), a)
  PROVE  Len(t) = i + 1 /\ t[i + 1] = a /\ \A j \in 1 .. i : t[j] = m[j]
  <1>1. PICK b : b = SubSeq(m, 1, i)
    OBVIOUS
  <1>2. b \in Seq(S) /\ Len(b) = i /\ \A j \in 1 .. i : b[j] = m[j]
    <2>1. Len(m) \in Nat /\ i \in Nat
      OBVIOUS
    <2> QED BY <1>1, <2>1, SubSeqProperties
  <1>3. t = Append(b, a)
    BY <1>1
  <1> QED BY <1>2, <1>3, AppendProperties

(* The question asked again is one of the page; what is before it and what   *)
(* comes after it are the rows.                                              *)
LEMMA AskedAgain ==
  ASSUME NEW m \in Seq(Messages), NEW i \in 1 .. Len(m), NEW c, Agrees(m, c),
         m[i].role = "user"
  PROVE  /\ m[i].sid \in Nat \ {0} /\ ~ m[i].card /\ i - 1 \in Nat
         /\ Tidy(m, i - 1) /\ Below(m, i - 1, m[i].sid)
         /\ Pairs(m, i - 1) = {h \in Held(c) : h[1] < m[i].sid}
         /\ (\A j \in i + 1 .. Len(m) : m[j].role # "user") =>
              /\ Pairs(m, i - 1) \union {<<m[i].sid, "user">>} \subseteq Held(c)
              /\ \A h \in Held(c) : \/ h \in Pairs(m, i - 1) \union {<<m[i].sid, "user">>}
                                    \/ h[2] = "assistant" /\ h[1] > m[i].sid
<1>1. PICK n \in Nat : n = Len(m)
  OBVIOUS
<1>2. /\ i \in 1 .. n /\ Tidy(m, n) /\ Pairs(m, n) = Held(c)
  BY <1>1 DEF Agrees
<1>3. \A j \in 1 .. n : m[j] \in Messages
  BY <1>1
<1>4. \A j \in 1 .. n : m[j].sid \in Nat /\ m[j].role \in {"user", "assistant"}
  BY <1>3 DEF Messages, Roles
<1>5. m[i].sid # 0 /\ ~ m[i].card
  BY <1>2 DEF Tidy
<1>6. /\ Tidy(m, i - 1) /\ Below(m, i - 1, m[i].sid)
      /\ Pairs(m, i - 1) = {h \in Pairs(m, n) : h[1] < m[i].sid}
      /\ \A j \in Named(m, n) : j > i => m[j].sid > m[i].sid
  BY <1>2, <1>4, <1>5, TidyBefore
<1>7. ASSUME \A j \in i + 1 .. Len(m) : m[j].role # "user"
      PROVE  /\ Pairs(m, i - 1) \union {<<m[i].sid, "user">>} \subseteq Held(c)
             /\ \A h \in Held(c) : \/ h \in Pairs(m, i - 1) \union {<<m[i].sid, "user">>}
                                   \/ h[2] = "assistant" /\ h[1] > m[i].sid
  <2>1. i \in Named(m, n)
    BY <1>2, <1>5 DEF Named
  <2>2. Pairs(m, i - 1) \union {<<m[i].sid, "user">>} \subseteq Held(c)
    BY <1>2, <1>6, <2>1 DEF Pairs
  <2>3. ASSUME NEW h \in Held(c)
        PROVE  \/ h \in Pairs(m, i - 1) \union {<<m[i].sid, "user">>}
               \/ h[2] = "assistant" /\ h[1] > m[i].sid
    <3>1. PICK j \in Named(m, n) : h = <<m[j].sid, m[j].role>>
      BY <1>2 DEF Pairs
    <3>2. j \in 1 .. n /\ m[j].sid # 0
      BY <3>1 DEF Named
    <3>3. CASE j < i
      <4>1. j \in Named(m, i - 1)
        BY <3>2, <3>3 DEF Named
      <4> QED BY <3>1, <4>1 DEF Pairs
    <3>4. CASE j = i
      BY <3>1, <3>4
    <3>5. CASE j > i
      <4>1. m[j].role # "user"
        BY <1>1, <1>7, <3>2, <3>5
      <4>2. m[j].role = "assistant" /\ m[j].sid > m[i].sid
        BY <1>4, <1>6, <3>1, <3>2, <3>5, <4>1
      <4>3. h[1] = m[j].sid /\ h[2] = m[j].role
        BY <3>1
      <4> QED BY <4>2, <4>3
    <3> QED BY <3>2, <3>3, <3>4, <3>5
  <2> QED BY <2>2, <2>3
<1> QED BY <1>2, <1>4, <1>5, <1>6, <1>7

LEMMA AgainAgrees ==
  ASSUME ShowsInv, AgreeInv, NEW k \in Streams, NEW kind \in {"edit", "regenerate"},
         NEW i \in DOMAIN messages, NEW from \in Nat, NEW of \in Nat,
         messages[i].role = "user",
         Begin(k, kind, current, from, of,
               Append(SubSeq(messages, 1, i), Said("assistant", current)), FALSE),
         parted' = (parted \/ BreaksOff \/ awaiting \/ (kind = "edit" /\ from = 0)),
         IF kind = "edit" THEN from = messages[i].sid
         ELSE from = 0 /\ \A j \in i + 1 .. Len(messages) : messages[j].role # "user",
         UNCHANGED <<stored, current, paging, load, deleting, awaiting>>
  PROVE  AgreeInv'
<1> SUFFICES ASSUME ~ parted' PROVE AgreeInv'
  BY DEF AgreeInv, AnswersAlone, FirstPages, FetchFits, RestFits, OpenFits
<1>1. PICK c \in Nat : c = current
  <2>1. ChatTypes
    BY DEF ShowsInv
  <2>2. current \in Nat
    BY ONLY <2>1 DEF ChatTypes, NoChat
  <2> QED BY ONLY <2>2
<1>2. PICK a, msgs, flag : /\ a = Said("assistant", c) /\ flag = FALSE
                           /\ msgs = Append(SubSeq(messages, 1, i), a)
  OBVIOUS
<1>3. PICK m : m = messages /\ m \in Seq(Messages)
  BY DEF ShowsInv, ChatTypes
<1>4. /\ Begin(k, kind, c, from, of, msgs, flag) /\ ~ parted /\ ~ BreaksOff /\ ~ awaiting
      /\ ~ (kind = "edit" /\ from = 0)
      /\ UNCHANGED <<rows, current, load, total, awaiting>>
  BY <1>1, <1>2 DEF stored, paging
<1>5. /\ a \in Messages /\ a.sid = 0 /\ a.role = "assistant" /\ a.card = FALSE
  BY <1>1, <1>2, SaidTyped DEF Roles, MessagesOf
<1>6. /\ i \in 1 .. Len(m) /\ Len(msgs) = i + 1 /\ msgs[i + 1] = a
      /\ \A j \in 1 .. i : msgs[j] = m[j]
  <2>1. i \in 1 .. Len(m) /\ msgs = Append(SubSeq(m, 1, i), a)
    BY <1>2, <1>3
  <2> QED BY <1>3, <1>5, <2>1, ShortenedIs
<1>7. /\ stream'[k].kind = kind /\ stream'[k].from = from /\ stream'[k].wire = <<>>
      /\ job'[k] = "cut" /\ messages' = msgs
  <2>1. /\ ChatTypes /\ k \in Streams /\ kind \in {"send", "edit", "regenerate", "workflow"}
        /\ c \in Nat /\ from \in Nat /\ of \in Nat /\ Begin(k, kind, c, from, of, msgs, flag)
    BY <1>4 DEF ShowsInv
  <2>2. Begun(k, kind, c, from, msgs)
    BY ONLY <2>1, BeginTyped
  <2> QED BY <2>2 DEF Begun
<1>8. ASSUME current # NoChat
      PROVE  InExchange(k)'
  <2>1. PICK held : held = Held(current)'
    OBVIOUS
  <2>2. Agrees(m, current) /\ held = Held(current)
    BY <1>3, <1>4, <1>8, <2>1, AtRestAgrees, HeldSame
  <2>3. m[i].role = "user"
    BY <1>3
  <2>4. /\ m[i].sid \in Nat \ {0} /\ ~ m[i].card /\ i - 1 \in Nat
        /\ Tidy(m, i - 1) /\ Below(m, i - 1, m[i].sid)
        /\ Pairs(m, i - 1) = {h \in held : h[1] < m[i].sid}
        /\ (\A j \in i + 1 .. Len(m) : m[j].role # "user") =>
             /\ Pairs(m, i - 1) \union {<<m[i].sid, "user">>} \subseteq held
             /\ \A h \in held : \/ h \in Pairs(m, i - 1) \union {<<m[i].sid, "user">>}
                                \/ h[2] = "assistant" /\ h[1] > m[i].sid
    BY <1>3, <1>6, <2>2, <2>3, AskedAgain
  <2>5. PICK n \in Nat : n = i - 1
    BY <2>4
  <2>6. \A j \in 1 .. n : msgs[j] = m[j]
    BY <1>6, <2>5
  <2>7. /\ Tidy(msgs, n) /\ Pairs(msgs, n) = Pairs(m, n)
        /\ Below(msgs, n, m[i].sid)
    BY <2>4, <2>5, <2>6, PrefixSame
  <2>8. n + 1 = i /\ n + 2 = i + 1 /\ msgs[n + 1] = m[i] /\ msgs[n + 2] = a
    BY <1>6, <2>5
  <2>9. /\ n \in Nat /\ messages' = msgs /\ Len(msgs) = n + 2 /\ Tidy(msgs, n)
        /\ msgs[n + 1].role = "user" /\ ~ msgs[n + 1].card
        /\ msgs[n + 2].role = "assistant" /\ ~ msgs[n + 2].card /\ msgs[n + 2].sid = 0
        /\ stream'[k].kind # "workflow" /\ stream'[k].wire = <<>> /\ job'[k] = "cut"
        /\ held = Held(current)'
    BY <1>5, <1>6, <1>7, <2>1, <2>3, <2>4, <2>7, <2>8
  <2>10. CASE kind = "edit"
    <3>1. from = m[i].sid /\ from > 0
      BY <1>3, <2>4, <2>10
    <3>2. /\ stream'[k].kind = "edit" /\ stream'[k].from > 0
          /\ Below(msgs, n, stream'[k].from)
          /\ Pairs(msgs, n) = {h \in held : h[1] < stream'[k].from}
      BY <1>7, <2>4, <2>5, <2>7, <2>10, <3>1
    <3> QED BY ONLY <2>9, <3>2, ExchangeBegins
  <2>11. CASE kind = "regenerate"
    <3>1. from = 0 /\ \A j \in i + 1 .. Len(m) : m[j].role # "user"
      BY <1>3, <2>11
    <3>2. /\ stream'[k].kind = "regenerate" /\ stream'[k].from = 0
          /\ msgs[n + 1].sid > 0 /\ Below(msgs, n, msgs[n + 1].sid)
      BY <1>7, <2>4, <2>5, <2>7, <2>8, <2>11, <3>1
    <3>3. /\ Pairs(msgs, n) \union {<<msgs[n + 1].sid, "user">>} \subseteq held
          /\ \A h \in held : \/ h \in Pairs(msgs, n) \union {<<msgs[n + 1].sid, "user">>}
                             \/ h[2] = "assistant" /\ h[1] > msgs[n + 1].sid
      BY <2>4, <2>5, <2>7, <2>8, <3>1
    <3> QED BY ONLY <2>9, <3>2, <3>3, ExchangeBegins
  <2> QED BY <2>10, <2>11
<1>9. /\ ShowsInv /\ AgreeInv /\ k \in Streams
      /\ kind \in {"send", "edit", "regenerate", "workflow"}
      /\ c \in Nat /\ from \in Nat /\ of \in Nat /\ Begin(k, kind, c, from, of, msgs, flag)
      /\ ~ parted /\ ~ BreaksOff /\ current' = c /\ awaiting' = FALSE
      /\ load' = load /\ total' = total /\ (c # NoChat => InExchange(k)')
  <2>1. awaiting' = FALSE
    BY <1>4
  <2> QED BY <1>1, <1>4, <1>8, <2>1
<1> QED BY ONLY <1>9, BeginAgrees

LEMMA EditAgrees ==
  ASSUME ShowsInv, AgreeInv, NEW k \in Streams, NEW i \in DOMAIN messages, Edit(k, i)
  PROVE  AgreeInv'
<1>1. PICK from, of, kind : from = messages[i].sid /\ of = messages[i].chat /\ kind = "edit"
  OBVIOUS
<1>2. from \in Nat /\ of \in Nat
  <2>1. messages[i] \in Messages
    BY DEF ShowsInv, ChatTypes
  <2> QED BY <1>1, <2>1 DEF Messages
<1>3. /\ ShowsInv /\ AgreeInv /\ k \in Streams /\ kind \in {"edit", "regenerate"}
      /\ i \in DOMAIN messages /\ from \in Nat /\ of \in Nat /\ messages[i].role = "user"
      /\ Begin(k, kind, current, from, of,
               Append(SubSeq(messages, 1, i), Said("assistant", current)), FALSE)
      /\ parted' = (parted \/ BreaksOff \/ awaiting \/ (kind = "edit" /\ from = 0))
      /\ kind = "edit" /\ from = messages[i].sid
      /\ UNCHANGED <<stored, current, paging, load, deleting, awaiting>>
  <2>1. Unnamed("edit", messages[i].sid) = (kind = "edit" /\ from = 0)
    BY <1>1 DEF Unnamed
  <2> QED BY <1>1, <1>2, <2>1 DEF Edit
<1> QED BY ONLY <1>3, AgainAgrees

LEMMA RegenerateAgrees ==
  ASSUME ShowsInv, AgreeInv, NEW k \in Streams, Regenerate(k)
  PROVE  AgreeInv'
<1>1. PICK i \in DOMAIN messages :
        /\ messages[i].role = "user"
        /\ \A j \in i + 1 .. Len(messages) : messages[j].role # "user"
        /\ Begin(k, "regenerate", current, 0, NoChat,
                 Append(SubSeq(messages, 1, i), Said("assistant", current)), FALSE)
  BY DEF Regenerate
<1>2. PICK from \in Nat, of \in Nat : from = 0 /\ of = NoChat
  BY DEF NoChat
<1>3. PICK kind : kind = "regenerate"
  OBVIOUS
<1>4. /\ ShowsInv /\ AgreeInv /\ k \in Streams /\ kind \in {"edit", "regenerate"}
      /\ i \in DOMAIN messages /\ from \in Nat /\ of \in Nat /\ messages[i].role = "user"
      /\ Begin(k, kind, current, from, of,
               Append(SubSeq(messages, 1, i), Said("assistant", current)), FALSE)
      /\ parted' = (parted \/ BreaksOff \/ awaiting \/ (kind = "edit" /\ from = 0))
      /\ kind # "edit" /\ from = 0
      /\ \A j \in i + 1 .. Len(messages) : messages[j].role # "user"
      /\ UNCHANGED <<stored, current, paging, load, deleting, awaiting>>
  <2>1. /\ parted' = (parted \/ BreaksOff \/ awaiting)
        /\ UNCHANGED <<stored, current, paging, load, deleting, awaiting>>
    BY DEF Regenerate
  <2> QED BY <1>1, <1>2, <1>3, <2>1
<1> QED BY ONLY <1>4, AgainAgrees

(* Steps that part the page from the rows.                                   *)
LEMMA PartedAgrees ==
  ASSUME NEW k \in Streams,
         Breaks(k) \/ Clear \/ \E i \in DOMAIN messages : StartCard(k, i)
  PROVE  AgreeInv'
<1>1. parted'
  BY DEF Breaks, Clear, StartCard, Unnamed
<1> QED BY <1>1 DEF AgreeInv, AnswersAlone, FirstPages, FetchFits, RestFits, OpenFits

-----------------------------------------------------------------------------
(* The page and the rows: an answer arrives                                  *)

(* What there is to check when a step concerns the answer received.          *)
LEMMA BusyStep ==
  ASSUME AgreeInv, NEW k \in Streams, Busy(k), ~ parted,
         UNCHANGED <<current, awaiting, load, total, controller, parted>>,
         \A j \in Streams \ {k} : Busy(j)' = Busy(j) /\ job'[j] = job[j],
         Busy(k)' \/ job'[k] = "over", stream'[k].chat = stream[k].chat,
         current # NoChat => IF Busy(k)' THEN InExchange(k)' ELSE Agrees(messages, current)'
  PROVE  AgreeInv'
<1>1. /\ k = controller
      /\ \A j \in Streams \ {k} : ~ Busy(j) /\ job[j] \in {"unused", "over"}
  BY DEF AgreeInv, AnswersAlone
<1>2. \A j \in Streams : Busy(j)' <=> (j = k /\ Busy(k)')
  <2>1. \A j \in Streams \ {k} : ~ Busy(j)'
    BY <1>1
  <2> QED BY <2>1
<1>3. ~ awaiting
  BY DEF AgreeInv, FetchFits
<1>4. AnswersAlone'
  BY <1>1, <1>2 DEF AnswersAlone
<1>5. FirstPages' /\ FetchFits'
  BY <1>3 DEF AgreeInv, FirstPages, FetchFits, Pending
<1>6. RestFits'
  BY <1>2 DEF RestFits
<1>7. OpenFits'
  BY <1>2 DEF AgreeInv, OpenFits
<1> QED BY <1>4, <1>5, <1>6, <1>7 DEF AgreeInv

(* A step of the server is for the answer received, unless the two are       *)
(* parted; its chat is the one shown, unless none is.                        *)
LEMMA AtWork ==
  ASSUME ShowsInv, AgreeInv, NEW k \in Streams, job[k] \notin {"unused", "over"}, ~ parted
  PROVE  Busy(k) /\ (current # NoChat => stream[k].chat = current /\ current \in chats
                                         /\ InExchange(k))
  BY DEF ShowsInv, ChatTypes, AgreeInv, AnswersAlone, OpenFits

LEMMA SamePage ==
  ASSUME UNCHANGED messages
  PROVE  /\ Old' = Old /\ Question' = Question /\ Reply' = Reply /\ OldPairs' = OldPairs
         /\ Tidy(messages, Old)' = Tidy(messages, Old)
         /\ \A x : Below(messages', Old', x) = Below(messages, Old, x)
  BY DEF Old, Question, Reply, OldPairs, Pairs, Named, Tidy, Below

(* The page as it is; the server is a step further.                          *)
LEMMA StageTaken ==
  ASSUME NEW k, InExchange(k), UNCHANGED messages, stream'[k].kind = stream[k].kind, Stage(k)'
  PROVE  InExchange(k)'
  BY SamePage DEF InExchange

LEMMA RefuseAgrees ==
  ASSUME ShowsInv, AgreeInv, NEW k \in Streams, RefuseChat(k)
  PROVE  AgreeInv'
<1> SUFFICES ASSUME ~ parted' PROVE AgreeInv'
  BY DEF AgreeInv, AnswersAlone, FirstPages, FetchFits, RestFits, OpenFits
<1>1. /\ UNCHANGED <<current, awaiting, load, total, controller, parted>> /\ ~ parted
      /\ job[k] = "cut" /\ stream[k].chat \notin chats
      /\ job' = [job EXCEPT ![k] = "over"] /\ stream' = Settled(stream, job')
  BY DEF RefuseChat, stored, shown, paging
<1>2. Busy(k) /\ current = NoChat
  BY <1>1, AtWork
<1>3. /\ stream \in [Streams -> Answers]
      /\ job \in [Streams -> {"unused", "cut", "ask", "answer", "over"}]
  BY DEF ShowsInv, ChatTypes
<1>4. \A j \in Streams : /\ stream'[j].phase = stream[j].phase
                         /\ stream[j].phase # "over" => stream'[j] = stream[j]
  BY <1>1, <1>3, SettledIs
<1>5. /\ \A j \in Streams \ {k} : Busy(j)' = Busy(j) /\ job'[j] = job[j]
      /\ job'[k] = "over" /\ stream'[k].chat = stream[k].chat
  BY <1>1, <1>2, <1>3, <1>4 DEF Busy
<1> QED BY <1>1, <1>2, <1>5, BusyStep

(* What a cut leaves.                                                        *)
LEMMA LastAnswerGone ==
  ASSUME ChatTypes, NEW c, DeleteLastAnswer(c), NEW P, NEW x \in Nat,
         P \union {<<x, "user">>} \subseteq Held(c), \A h \in P : h[1] < x,
         \A h \in Held(c) : \/ h \in P \union {<<x, "user">>}
                            \/ h[2] = "assistant" /\ h[1] > x
  PROVE  Held(c)' = P \union {<<x, "user">>}
<1>1. rows' = {r \in rows : ~ (/\ r.chat = c /\ r.role = "assistant"
                               /\ \A q \in History(c) : q.role = "user" => r.id > q.id)}
  BY DEF DeleteLastAnswer
<1>2. \A r \in History(c) : <<r.id, r.role>> \in Held(c) /\ r \in rows /\ r.chat = c /\ r.id \in Nat
  BY DEF Held, History, ChatTypes
<1>3. \A a, b : <<a, b>>[1] = a /\ <<a, b>>[2] = b
  OBVIOUS
<1>4. ASSUME NEW h \in P \union {<<x, "user">>}
      PROVE  h \in Held(c)'
  <2>1. PICK r \in History(c) : h = <<r.id, r.role>>
    BY <1>4 DEF Held
  <2>2. PICK q \in History(c) : <<x, "user">> = <<q.id, q.role>>
    BY DEF Held
  <2>3. q.id = x /\ q.role = "user"
    BY <2>2
  <2>4. r.role = "assistant" => r.id < x
    BY <1>3, <1>4, <2>1
  <2>5. ~ (r.role = "assistant" /\ r.id > q.id)
    <3>1. r.id \in Nat
      BY <1>2
    <3> QED BY <2>3, <2>4, <3>1
  <2>6. r \in rows'
    BY <1>1, <1>2, <2>3, <2>5
  <2> QED BY <1>2, <2>1, <2>6 DEF Held, History
<1>5. ASSUME NEW h \in Held(c)'
      PROVE  h \in P \union {<<x, "user">>}
  <2>1. PICK r \in rows' : r.chat = c /\ h = <<r.id, r.role>>
    BY DEF Held, History
  <2>2. r \in History(c)
    BY <1>1, <2>1 DEF History
  <2>3. CASE h[2] = "assistant" /\ h[1] > x
    <3>1. r.role = "assistant" /\ r.id > x
      BY <2>1, <2>3
    <3>2. ASSUME NEW q \in History(c), q.role = "user"
          PROVE  r.id > q.id
      <4>1. PICK g \in Held(c) : g = <<q.id, q.role>>
        BY <1>2
      <4>2. g[1] = q.id /\ g[2] = "user"
        BY <3>2, <4>1
      <4>3. g \in P \union {<<x, "user">>}
        BY <4>2
      <4>4. q.id \in Nat /\ r.id \in Nat
        BY <1>2, <2>2
      <4>5. q.id <= x
        <5>1. CASE g \in P
          BY <4>2, <4>4, <5>1
        <5>2. CASE g = <<x, "user">>
          <6>1. g[1] = x
            BY <5>2
          <6> QED BY <4>2, <6>1
        <5> QED BY <4>3, <5>1, <5>2
      <4> QED BY <3>1, <4>4, <4>5
    <3> QED BY <1>1, <2>1, <3>1, <3>2
  <2> QED BY <1>2, <2>1, <2>2, <2>3
<1> QED BY <1>4, <1>5

LEMMA TailGone ==
  ASSUME NEW c, NEW x, DeleteFrom(c, x), ChatTypes, x \in Nat
  PROVE  Held(c)' = {h \in Held(c) : h[1] < x}
<1>1. rows' = {r \in rows : ~ (r.chat = c /\ r.id >= x)}
  BY DEF DeleteFrom
<1>2. \A r \in rows : r.id \in Nat
  BY DEF ChatTypes
<1>3. \A r \in rows : r \in rows' /\ r.chat = c <=> r.chat = c /\ r.id < x
  BY <1>1, <1>2
<1>4. \A a, b : <<a, b>>[1] = a
  OBVIOUS
<1>5. History(c)' = {r \in History(c) : r.id < x}
  BY <1>1, <1>3 DEF History
<1> QED BY <1>4, <1>5 DEF Held

LEMMA CutAgrees ==
  ASSUME ShowsInv, AgreeInv, NEW k \in Streams, Cut(k)
  PROVE  AgreeInv'
<1> SUFFICES ASSUME ~ parted' PROVE AgreeInv'
  BY DEF AgreeInv, AnswersAlone, FirstPages, FetchFits, RestFits, OpenFits
<1>1. /\ UNCHANGED <<current, messages, awaiting, load, total, controller, parted, stream>>
      /\ ~ parted /\ job[k] = "cut" /\ job' = [job EXCEPT ![k] = "ask"]
      /\ \/ stream[k].kind = "regenerate" /\ DeleteLastAnswer(stream[k].chat)
         \/ stream[k].from > 0 /\ DeleteFrom(stream[k].chat, stream[k].from)
         \/ stream[k].kind # "regenerate" /\ stream[k].from = 0 /\ UNCHANGED rows
  BY DEF Cut, shown, paging
<1>2. Busy(k) /\ (current # NoChat => stream[k].chat = current /\ InExchange(k))
  BY <1>1, AtWork
<1>3. /\ stream \in [Streams -> Answers] /\ ChatTypes
      /\ job \in [Streams -> {"unused", "cut", "ask", "answer", "over"}]
  BY DEF ShowsInv, ChatTypes
<1>4. /\ \A j \in Streams : Busy(j)' = Busy(j)
      /\ \A j \in Streams \ {k} : job'[j] = job[j]
      /\ job'[k] = "ask" /\ stream'[k] = stream[k]
  BY <1>1, <1>3 DEF Busy
<1>5. ASSUME current # NoChat
      PROVE  InExchange(k)'
  <2>1. /\ stream[k].wire = <<>> /\ Reply.sid = 0 /\ BeforeCut(k) /\ stream[k].chat = current
    BY <1>1, <1>2, <1>5 DEF InExchange, Stage
  <2>2. PICK c : c = current
    OBVIOUS
  <2>3. Held(current)' = Held(c)'
    BY <1>1, <2>2 DEF Held, History
  <2>4. Question' = Question /\ Reply' = Reply /\ OldPairs' = OldPairs
        /\ \A x : Below(messages', Old', x) = Below(messages, Old, x)
    BY <1>1, SamePage
  <2>5. stream[k].from \in Nat
    BY <1>3 DEF Answers
  <2>6. BeforeAsk(k)'
    <3>1. CASE stream[k].kind = "regenerate" /\ DeleteLastAnswer(stream[k].chat)
      <4>1. /\ Question.sid > 0 /\ Below(messages, Old, Question.sid)
            /\ OldPairs \union {<<Question.sid, "user">>} \subseteq Held(c)
            /\ \A h \in Held(c) : \/ h \in OldPairs \union {<<Question.sid, "user">>}
                                  \/ h[2] = "assistant" /\ h[1] > Question.sid
        BY <2>1, <2>2, <3>1 DEF BeforeCut
      <4>2. \A h \in OldPairs : h[1] < Question.sid
        <5>1. \A a, b : <<a, b>>[1] = a
          OBVIOUS
        <5> QED BY <4>1, <5>1 DEF OldPairs, Pairs, Below
      <4>3. Question.sid \in Nat
        <5>1. Question \in Messages
          BY <1>2, <1>3, <1>5 DEF ChatTypes, InExchange, Question
        <5> QED BY <5>1 DEF Messages
      <4>4. PICK x \in Nat : x = Question.sid
        BY <4>3
      <4>p. PICK P : P = OldPairs
        OBVIOUS
      <4>5. Held(c)' = P \union {<<x, "user">>}
        <5>1. /\ ChatTypes /\ DeleteLastAnswer(c) /\ x \in Nat
              /\ P \union {<<x, "user">>} \subseteq Held(c) /\ \A h \in P : h[1] < x
              /\ \A h \in Held(c) : \/ h \in P \union {<<x, "user">>}
                                    \/ h[2] = "assistant" /\ h[1] > x
          BY <1>3, <2>1, <2>2, <3>1, <4>1, <4>2, <4>4, <4>p
        <5> QED BY ONLY <5>1, LastAnswerGone
      <4> QED BY <1>4, <2>3, <2>4, <3>1, <4>1, <4>4, <4>5, <4>p DEF BeforeAsk
    <3>2. CASE stream[k].from > 0 /\ DeleteFrom(stream[k].chat, stream[k].from)
      <4>1. stream[k].kind = "edit" /\ OldPairs = {h \in Held(c) : h[1] < stream[k].from}
        BY <2>1, <2>2, <2>5, <3>2 DEF BeforeCut
      <4>2. PICK x \in Nat : x = stream[k].from
        BY <2>5
      <4>3. Held(c)' = {h \in Held(c) : h[1] < x}
        BY <1>3, <2>1, <2>2, <3>2, <4>2, TailGone
      <4> QED BY <1>4, <2>3, <2>4, <4>1, <4>2, <4>3 DEF BeforeAsk
    <3>3. CASE stream[k].kind # "regenerate" /\ stream[k].from = 0 /\ UNCHANGED rows
      <4>1. Held(current) = OldPairs
        BY <2>1, <3>3 DEF BeforeCut
      <4>2. Held(current)' = Held(current)
        BY <1>1, <3>3, HeldSame
      <4> QED BY <1>4, <2>4, <3>3, <4>1, <4>2 DEF BeforeAsk
    <3> QED BY <1>1, <3>1, <3>2, <3>3
  <2>7. Stage(k)'
    BY <1>4, <2>1, <2>4, <2>6 DEF Stage
  <2> QED BY <1>1, <1>2, <1>4, <1>5, <2>7, StageTaken
<1> QED BY <1>1, <1>2, <1>4, <1>5, BusyStep

(* A row more, in the chat shown.                                            *)
LEMMA RowMore ==
  ASSUME ChatTypes, NEW k, NEW role \in Roles, Insert(k, role), NEW c, stream[k].chat = c,
         NEW x, x = lastId + 1
  PROVE  /\ Held(c)' = Held(c) \union {<<x, role>>} /\ x \in Nat \ {0}
         /\ \A h \in Held(c) : h[1] \in Nat /\ h[1] < x
<1>1. /\ x \in Nat \ {0} /\ lastId \in Nat
      /\ rows' = rows \cup {[id |-> x, chat |-> c, role |-> role]}
  BY DEF Insert, ChatTypes
<1>2. PICK e : e = [id |-> x, chat |-> c, role |-> role]
  OBVIOUS
<1>e. e.id = x /\ e.role = role /\ e.chat = c
  BY <1>2
<1>h. History(c)' = History(c) \union {e}
  BY <1>1, <1>2, <1>e DEF History
<1>3. Held(c)' = Held(c) \union {<<x, role>>}
  BY <1>e, <1>h DEF Held
<1>4. ASSUME NEW h \in Held(c) PROVE h[1] \in Nat /\ h[1] < x
  <2>1. h[1] \in 1 .. lastId
    BY HeldTyped
  <2> QED BY <1>1, <2>1
<1> QED BY <1>1, <1>3, <1>4

(* Rows the page shows have older ids.                                       *)
LEMMA OlderRows ==
  ASSUME NEW x, \A h \in OldPairs : h[1] < x
  PROVE  Below(messages, Old, x)
  <1>1. \A a, b : <<a, b>>[1] = a
    OBVIOUS
  <1> QED BY <1>1 DEF OldPairs, Pairs, Below

LEMMA AskAgrees ==
  ASSUME ShowsInv, AgreeInv, NEW k \in Streams, Ask(k)
  PROVE  AgreeInv'
<1> SUFFICES ASSUME ~ parted' PROVE AgreeInv'
  BY DEF AgreeInv, AnswersAlone, FirstPages, FetchFits, RestFits, OpenFits
<1>1. /\ UNCHANGED <<chats, current, messages, awaiting, load, total, controller, parted>>
      /\ ~ parted /\ job[k] = "ask" /\ job' = [job EXCEPT ![k] = "answer"]
      /\ \/ stream[k].kind # "regenerate" /\ Insert(k, "user") /\ stream' = Told(k, "user")
         \/ /\ (stream[k].kind \in {"regenerate", "workflow"} \/ stream[k].chat \notin chats)
            /\ UNCHANGED <<rows, stream>>
  BY DEF Ask, shown, paging
<1>2. Busy(k) /\ (current # NoChat => stream[k].chat = current /\ current \in chats
                                      /\ InExchange(k))
  BY <1>1, AtWork
<1>3. /\ stream \in [Streams -> Answers] /\ ChatTypes
      /\ job \in [Streams -> {"unused", "cut", "ask", "answer", "over"}]
  BY DEF ShowsInv, ChatTypes
<1>4. /\ \A j \in Streams \ {k} : job'[j] = job[j]
      /\ job'[k] = "answer"
  BY <1>1, <1>3
<1>5. /\ \A j \in Streams \ {k} : stream'[j] = stream[j]
      /\ stream'[k].phase = stream[k].phase /\ stream'[k].kind = stream[k].kind
      /\ stream'[k].chat = stream[k].chat
  <2>1. PICK role \in Roles : role = "user"
    BY DEF Roles
  <2>2. /\ \A j \in Streams \ {k} : Told(k, role)[j] = stream[j]
        /\ Told(k, role)[k].phase = stream[k].phase /\ Told(k, role)[k].kind = stream[k].kind
        /\ Told(k, role)[k].chat = stream[k].chat
    BY <1>3, ToldIs
  <2> QED BY <1>1, <2>1, <2>2
<1>6. ASSUME current # NoChat
      PROVE  InExchange(k)'
  <2>1. /\ stream[k].wire = <<>> /\ Reply.sid = 0 /\ BeforeAsk(k) /\ stream[k].chat = current
        /\ stream[k].kind # "workflow" /\ current \in chats
    BY <1>1, <1>2, <1>6 DEF InExchange, Stage
  <2>2. Question' = Question /\ Reply' = Reply /\ OldPairs' = OldPairs
        /\ \A x : Below(messages', Old', x) = Below(messages, Old, x)
    BY <1>1, SamePage
  <2>3. CASE stream[k].kind # "regenerate" /\ Insert(k, "user") /\ stream' = Told(k, "user")
    <3>1. PICK x : x = lastId + 1
      OBVIOUS
    <3>2. PICK role \in Roles : role = "user"
      BY DEF Roles
    <3>c. PICK c : c = current
      OBVIOUS
    <3>3. /\ Held(c)' = Held(c) \union {<<x, role>>} /\ x \in Nat \ {0}
          /\ \A h \in Held(c) : h[1] \in Nat /\ h[1] < x
      <4>1. ChatTypes /\ role \in Roles /\ Insert(k, role) /\ stream[k].chat = c /\ x = lastId + 1
        BY <1>3, <2>1, <2>3, <3>1, <3>2, <3>c
      <4> QED BY ONLY <4>1, RowMore
    <3>4. Held(current)' = Held(c)'
      BY <1>1, <3>c DEF Held, History
    <3>5. OldPairs = Held(c)
      BY <2>1, <2>3, <3>c DEF BeforeAsk
    <3>6. Below(messages, Old, x)
      BY <3>3, <3>5, OlderRows
    <3>7. stream'[k].wire = <<Event("user", x)>>
      <4>1. Told(k, role)[k].wire = Append(stream[k].wire, Event(role, lastId + 1))
        BY <1>2, <1>3, ToldIs
      <4> QED BY <2>1, <2>3, <3>1, <3>2, <4>1
    <3>8. PICK y \in Nat : y = 0
      OBVIOUS
    <3>9. InRows(x, y)'
      BY <2>2, <3>2, <3>3, <3>4, <3>5, <3>6, <3>8 DEF InRows
    <3>10. OnItsWay(k, x, y)'
      BY <2>1, <2>2, <3>7, <3>8 DEF OnItsWay, Event
    <3>11. Stage(k)'
      BY <1>4, <3>3, <3>8, <3>9, <3>10 DEF Stage
    <3> QED BY <1>1, <1>2, <1>5, <1>6, <3>11, StageTaken
  <2>4. CASE UNCHANGED <<rows, stream>> /\ stream[k].kind = "regenerate"
    <3>1. /\ Question.sid > 0 /\ Below(messages, Old, Question.sid)
          /\ Held(current) = OldPairs \union {<<Question.sid, "user">>}
      BY <2>1, <2>4 DEF BeforeAsk
    <3>2. Question.sid \in Nat
      <4>1. Question \in Messages
        BY <1>2, <1>3, <1>6 DEF ChatTypes, InExchange, Question
      <4> QED BY <4>1 DEF Messages
    <3>3. PICK x \in Nat \ {0} : x = Question.sid
      BY <3>1, <3>2
    <3>4. PICK y \in Nat : y = 0
      OBVIOUS
    <3>5. Held(current)' = Held(current)
      BY <1>1, <2>4, HeldSame
    <3>6. InRows(x, y)'
      BY <2>2, <3>1, <3>3, <3>4, <3>5 DEF InRows
    <3>7. OnItsWay(k, x, y)'
      BY <2>1, <2>2, <2>4, <3>3, <3>4 DEF OnItsWay
    <3>8. Stage(k)'
      BY <1>4, <3>4, <3>6, <3>7 DEF Stage
    <3> QED BY <1>1, <1>2, <1>5, <1>6, <3>8, StageTaken
  <2> QED BY <1>1, <2>1, <2>3, <2>4
<1>7. \A j \in Streams : Busy(j)' <=> Busy(j)
  <2>1. \A j \in Streams : stream'[j].phase = stream[j].phase
    BY <1>5
  <2> QED BY <2>1 DEF Busy
<1>8. \A j \in Streams \ {k} : Busy(j)' = Busy(j) /\ job'[j] = job[j]
  <2>1. \A j \in Streams \ {k} : stream'[j].phase = stream[j].phase
    BY <1>5
  <2> QED BY <1>4, <2>1 DEF Busy
<1> QED BY <1>1, <1>2, <1>5, <1>6, <1>7, <1>8, BusyStep

LEMMA Events ==
  ASSUME NEW u, NEW e
  PROVE  Append(<<>>, e) = <<e>> /\ Append(<<u>>, e) = <<u, e>>
<1>1. PICK S : S = {u, e}
  OBVIOUS
<1>2. u \in S /\ e \in S
  BY <1>1
<1>3. Append(<<>>, e) = <<e>>
  BY <1>2
<1>4. Append(<<u>>, e) = <<u, e>>
  <2>1. <<u>> \in Seq(S) /\ Len(<<u>>) = 1 /\ <<u>>[1] = u
    BY <1>2
  <2>2. <<u, e>> \in Seq(S) /\ Len(<<u, e>>) = 2 /\ <<u, e>>[1] = u /\ <<u, e>>[2] = e
    BY <1>2
  <2>3. /\ Append(<<u>>, e) \in Seq(S) /\ Len(Append(<<u>>, e)) = 2
        /\ Append(<<u>>, e)[1] = u /\ Append(<<u>>, e)[2] = e
    BY <1>2, <2>1, AppendProperties
  <2>4. PICK s, t : s = Append(<<u>>, e) /\ t = <<u, e>>
    OBVIOUS
  <2>5. /\ s \in Seq(S) /\ t \in Seq(S) /\ Len(s) = Len(t) /\ Len(s) = 2
        /\ s[1] = t[1] /\ s[2] = t[2]
    BY <2>2, <2>3, <2>4
  <2>6. \A i \in 1 .. Len(s) : s[i] = t[i]
    BY <2>5
  <2> QED BY <2>4, <2>5, <2>6, SeqEqual
<1> QED BY <1>3, <1>4

LEMMA AnswerAgrees ==
  ASSUME ShowsInv, AgreeInv, NEW k \in Streams, Answer(k)
  PROVE  AgreeInv'
<1> SUFFICES ASSUME ~ parted' PROVE AgreeInv'
  BY DEF AgreeInv, AnswersAlone, FirstPages, FetchFits, RestFits, OpenFits
<1>1. /\ UNCHANGED <<chats, current, messages, awaiting, load, total, controller, parted>>
      /\ ~ parted /\ job[k] = "answer" /\ job' = [job EXCEPT ![k] = "over"]
  BY DEF Answer, shown, paging
<1>2. PICK s \in [Streams -> Answers] :
        /\ stream' = Settled(s, job')
        /\ \/ /\ Insert(k, "assistant")
              /\ s = IF stream[k].kind = "workflow" THEN stream ELSE Told(k, "assistant")
           \/ UNCHANGED rows /\ s = stream
  <2>1. stream \in [Streams -> Answers] /\ ChatTypes
    BY DEF ShowsInv, ChatTypes
  <2>2. Told(k, "assistant") \in [Streams -> Answers]
    BY <2>1, ToldIs DEF Roles
  <2>3. CASE /\ Insert(k, "assistant")
             /\ stream' = Settled(IF stream[k].kind = "workflow" THEN stream
                                  ELSE Told(k, "assistant"), job')
    BY <2>1, <2>2, <2>3
  <2>4. CASE UNCHANGED <<rows, lastId>> /\ stream' = Settled(stream, job')
    BY <2>1, <2>4
  <2> QED BY <2>3, <2>4 DEF Answer
<1>3. Busy(k) /\ (current # NoChat => stream[k].chat = current /\ current \in chats
                                      /\ InExchange(k))
  BY <1>1, AtWork
<1>4. /\ stream \in [Streams -> Answers] /\ ChatTypes
      /\ job \in [Streams -> {"unused", "cut", "ask", "answer", "over"}]
  BY DEF ShowsInv, ChatTypes
<1>5. /\ \A j \in Streams \ {k} : job'[j] = job[j]
      /\ job'[k] = "over"
  BY <1>1, <1>4
<1>6. /\ \A j \in Streams \ {k} : s[j] = stream[j]
      /\ s[k].phase = stream[k].phase /\ s[k].kind = stream[k].kind
      /\ s[k].chat = stream[k].chat
  <2>1. PICK role \in Roles : role = "assistant"
    BY DEF Roles
  <2>2. /\ \A j \in Streams \ {k} : Told(k, role)[j] = stream[j]
        /\ Told(k, role)[k].phase = stream[k].phase /\ Told(k, role)[k].kind = stream[k].kind
        /\ Told(k, role)[k].chat = stream[k].chat
    BY <1>4, ToldIs
  <2> QED BY <1>2, <2>1, <2>2
<1>7. \A j \in Streams : /\ stream'[j].phase = s[j].phase
                         /\ s[j].phase # "over" => stream'[j] = s[j]
  BY <1>2, SettledIs
<1>8. \A j \in Streams : stream'[j].phase = stream[j].phase
  BY <1>6, <1>7
<1>9. stream'[k] = s[k]
  BY <1>3, <1>6, <1>7 DEF Busy
<1>10. ASSUME current # NoChat
       PROVE  InExchange(k)'
  <2>1. /\ stream[k].chat = current /\ stream[k].kind # "workflow" /\ InExchange(k)
    BY <1>3, <1>10 DEF InExchange
  <2>2. PICK x \in Nat \ {0} : \E z \in Nat : InRows(x, z) /\ OnItsWay(k, x, z) /\ z = 0
    BY <1>1, <2>1 DEF InExchange, Stage
  <2>3. PICK z \in Nat : InRows(x, z) /\ OnItsWay(k, x, z) /\ z = 0
    BY <2>2
  <2>4. /\ Below(messages, Old, x) /\ Held(current) = OldPairs \union {<<x, "user">>}
    BY <2>3 DEF InRows
  <2>5. \/ stream[k].wire = <<>> /\ Question.sid = x /\ Reply.sid = 0
        \/ stream[k].wire = <<Event("user", x)>> /\ Reply.sid = 0
    BY <2>3 DEF OnItsWay
  <2>6. Question' = Question /\ Reply' = Reply /\ OldPairs' = OldPairs
        /\ \A w : Below(messages', Old', w) = Below(messages, Old, w)
    BY <1>1, SamePage
  <2>7. CASE Insert(k, "assistant") /\ s = Told(k, "assistant")
    <3>1. PICK y : y = lastId + 1
      OBVIOUS
    <3>2. PICK role \in Roles : role = "assistant"
      BY DEF Roles
    <3>c. PICK c : c = current
      OBVIOUS
    <3>3. /\ Held(c)' = Held(c) \union {<<y, role>>} /\ y \in Nat \ {0}
          /\ \A h \in Held(c) : h[1] \in Nat /\ h[1] < y
      <4>1. ChatTypes /\ role \in Roles /\ Insert(k, role) /\ stream[k].chat = c /\ y = lastId + 1
        BY <1>4, <2>1, <2>7, <3>1, <3>2, <3>c
      <4> QED BY ONLY <4>1, RowMore
    <3>4. Held(current)' = Held(c)'
      BY <1>1, <3>c DEF Held, History
    <3>5. x < y
      <4>1. PICK h \in Held(c) : h = <<x, "user">>
        BY <2>4, <3>c
      <4>2. h[1] = x
        BY <4>1
      <4> QED BY <3>3, <4>2
    <3>6. stream'[k].wire = Append(stream[k].wire, Event("assistant", y))
      <4>1. Told(k, role)[k].wire = Append(stream[k].wire, Event(role, lastId + 1))
        BY <1>3, <1>4, ToldIs
      <4> QED BY <1>9, <2>7, <3>1, <3>2, <4>1
    <3>7. InRows(x, y)'
      BY <2>4, <2>6, <3>2, <3>3, <3>4, <3>5, <3>c DEF InRows
    <3>8. \/ stream'[k].wire = <<Event("assistant", y)>> /\ Question.sid = x /\ Reply.sid = 0
          \/ stream'[k].wire = <<Event("user", x), Event("assistant", y)>> /\ Reply.sid = 0
      <4>1. PICK e, u : e = Event("assistant", y) /\ u = Event("user", x)
        OBVIOUS
      <4>2. Append(<<>>, e) = <<e>> /\ Append(<<u>>, e) = <<u, e>>
        BY Events
      <4> QED BY <2>5, <3>6, <4>1, <4>2
    <3>9. OnItsWay(k, x, y)'
      BY <2>6, <3>3, <3>8 DEF OnItsWay, Event
    <3>10. Stage(k)'
      BY <1>5, <3>3, <3>7, <3>9 DEF Stage
    <3> QED BY <1>1, <1>6, <1>9, <2>1, <3>10, StageTaken
  <2>8. CASE UNCHANGED rows /\ s = stream
    <3>1. Held(current)' = Held(current)
      BY <1>1, <2>8, HeldSame
    <3>2. InRows(x, z)'
      BY <2>3, <2>6, <3>1 DEF InRows
    <3>3. OnItsWay(k, x, z)'
      BY <1>9, <2>3, <2>6, <2>8 DEF OnItsWay, Event
    <3>4. Stage(k)'
      BY <1>5, <3>2, <3>3 DEF Stage
    <3> QED BY <1>1, <1>6, <1>9, <2>1, <3>4, StageTaken
  <2> QED BY <1>2, <2>1, <2>7, <2>8
<1>11. Busy(k)'
  BY <1>3, <1>8 DEF Busy
<1>12. \A j \in Streams \ {k} : Busy(j)' = Busy(j) /\ job'[j] = job[j]
  BY <1>5, <1>8 DEF Busy
<1>13. stream'[k].chat = stream[k].chat
  BY <1>6, <1>9
<1> QED BY <1>1, <1>3, <1>10, <1>11, <1>12, <1>13, BusyStep

(* An id goes to the question or to its reply, the last two messages.        *)
LEMMA AdoptLast ==
  ASSUME NEW m \in Seq(Messages), messages = m, NEW n \in Nat, Len(m) = n + 2,
         m[n + 1].role = "user", m[n + 2].role = "assistant",
         NEW e \in [role : Roles, id : Nat \ {0}], Adopt(e)
  PROVE  /\ Len(messages') = n + 2 /\ \A i \in 1 .. n : messages'[i] = m[i]
         /\ e.role = "user" => /\ messages'[n + 1] = [m[n + 1] EXCEPT !.sid = e.id]
                               /\ messages'[n + 2] = m[n + 2]
         /\ e.role = "assistant" => /\ messages'[n + 1] = m[n + 1]
                                    /\ messages'[n + 2] = [m[n + 2] EXCEPT !.sid = e.id]
<1>1. e.role \in {"user", "assistant"} /\ e.id \in Nat
  BY DEF Roles
<1>2. /\ Len(messages') = n + 2
      /\ \A i \in 1 .. n + 2 : messages'[i] =
           IF /\ m[i].role = e.role
              /\ \A j \in i + 1 .. n + 2 : m[j].role # e.role
           THEN [m[i] EXCEPT !.sid = e.id] ELSE m[i]
  <2>1. PICK S : S = Messages
    OBVIOUS
  <2>2. /\ (S = Messages \/ \E c : S = MessagesOf(c)) /\ messages \in Seq(S)
        /\ e.id \in Nat /\ Adopt(e)
    BY <1>1, <2>1
  <2>3. /\ Len(messages') = Len(messages)
        /\ \A i \in 1 .. Len(messages) : messages'[i] =
              IF /\ messages[i].role = e.role
                 /\ \A j \in i + 1 .. Len(messages) : messages[j].role # e.role
              THEN [messages[i] EXCEPT !.sid = e.id] ELSE messages[i]
    BY ONLY <2>2, AdoptIs
  <2> QED BY <2>3
<1>3. \A i \in 1 .. n : \E j \in i + 1 .. n + 2 : m[j].role = e.role
  <2>1. \A i \in 1 .. n : n + 1 \in i + 1 .. n + 2 /\ n + 2 \in i + 1 .. n + 2
    OBVIOUS
  <2> QED BY <1>1, <2>1
<1>4. \A i \in 1 .. n : messages'[i] = m[i]
  BY <1>2, <1>3
<1>5. n + 1 \in 1 .. n + 2 /\ n + 2 \in 1 .. n + 2
      /\ (\A j \in (n + 1) + 1 .. n + 2 : j = n + 2) /\ \A j \in (n + 2) + 1 .. n + 2 : FALSE
  OBVIOUS
<1>6. CASE e.role = "user"
  BY <1>2, <1>4, <1>5, <1>6
<1>7. CASE e.role = "assistant"
  <2>1. \E j \in (n + 1) + 1 .. n + 2 : m[j].role = e.role
    BY <1>7
  <2> QED BY <1>2, <1>4, <1>5, <1>7, <2>1
<1> QED BY <1>1, <1>6, <1>7

LEMMA NewId ==
  ASSUME NEW m \in Messages, NEW x
  PROVE  /\ [m EXCEPT !.sid = x].sid = x /\ [m EXCEPT !.sid = x].role = m.role
         /\ [m EXCEPT !.sid = x].card = m.card
  BY DEF Messages

LEMMA ReceiveAgrees ==
  ASSUME ShowsInv, AgreeInv, NEW k \in Streams, ReceiveEvent(k)
  PROVE  AgreeInv'
<1> SUFFICES ASSUME ~ parted' PROVE AgreeInv'
  BY DEF AgreeInv, AnswersAlone, FirstPages, FetchFits, RestFits, OpenFits
<1>1. /\ UNCHANGED <<rows, current, awaiting, load, total, controller, parted, job>>
      /\ ~ parted /\ Busy(k) /\ stream[k].wire # <<>>
      /\ stream[k].kind # "workflow" => Adopt(Head(stream[k].wire))
      /\ stream' = [stream EXCEPT ![k].wire = Tail(@)]
  BY DEF ReceiveEvent, stored, paging, Busy
<1>2. /\ stream \in [Streams -> Answers] /\ ChatTypes /\ stream[k] \in Answers
  BY DEF ShowsInv, ChatTypes
<1>3. /\ \A j \in Streams \ {k} : stream'[j] = stream[j]
      /\ stream'[k].phase = stream[k].phase /\ stream'[k].kind = stream[k].kind
      /\ stream'[k].chat = stream[k].chat /\ stream'[k].wire = Tail(stream[k].wire)
  BY <1>1, <1>2 DEF Answers
<1>4. ASSUME current # NoChat
      PROVE  InExchange(k)'
  <2>1. /\ InExchange(k) /\ stream[k].kind # "workflow"
    BY <1>1, <1>4 DEF AgreeInv, OpenFits, InExchange
  <2>2. PICK x \in Nat \ {0} : \E y \in Nat : /\ InRows(x, y) /\ OnItsWay(k, x, y)
                                              /\ (job[k] = "answer" /\ y = 0) \/ job[k] = "over"
    BY <1>1, <2>1 DEF InExchange, Stage
  <2>3. PICK y \in Nat : /\ InRows(x, y) /\ OnItsWay(k, x, y)
                         /\ (job[k] = "answer" /\ y = 0) \/ job[k] = "over"
    BY <2>2
  <2>4. PICK m \in Seq(Messages) : m = messages
    BY <1>2 DEF ChatTypes
  <2>5. PICK n \in Nat : n = Old /\ Len(m) = n + 2
    <3>1. Len(m) \in Nat /\ Len(m) >= 2 /\ Old = Len(m) - 2
      BY <2>1, <2>4 DEF InExchange, Old
    <3>2. Len(m) - 2 \in Nat /\ Len(m) = (Len(m) - 2) + 2
      BY <3>1
    <3> QED BY <3>1, <3>2
  <2>6. Question = m[n + 1] /\ Reply = m[n + 2] /\ m[n + 1] \in Messages /\ m[n + 2] \in Messages
    BY <2>4, <2>5 DEF Question, Reply
  <2>7. /\ m[n + 1].role = "user" /\ ~ m[n + 1].card /\ m[n + 2].role = "assistant"
        /\ ~ m[n + 2].card /\ Tidy(m, n)
    BY <2>1, <2>4, <2>5, <2>6 DEF InExchange
  <2>8. PICK e : e = Head(stream[k].wire)
    OBVIOUS
  <2>9. e \in [role : Roles, id : Nat \ {0}]
    BY <1>1, <1>2, <2>8, WireTyped
  <2>10. /\ Len(messages') = n + 2 /\ \A i \in 1 .. n : messages'[i] = m[i]
         /\ e.role = "user" => /\ messages'[n + 1] = [m[n + 1] EXCEPT !.sid = e.id]
                               /\ messages'[n + 2] = m[n + 2]
         /\ e.role = "assistant" => /\ messages'[n + 1] = m[n + 1]
                                    /\ messages'[n + 2] = [m[n + 2] EXCEPT !.sid = e.id]
    <3>1. /\ m \in Seq(Messages) /\ messages = m /\ n \in Nat /\ Len(m) = n + 2
          /\ m[n + 1].role = "user" /\ m[n + 2].role = "assistant"
          /\ e \in [role : Roles, id : Nat \ {0}] /\ Adopt(e)
      BY <1>1, <2>1, <2>4, <2>5, <2>7, <2>8, <2>9
    <3> QED BY ONLY <3>1, AdoptLast
  <2>11. Old' = n /\ Question' = messages'[n + 1] /\ Reply' = messages'[n + 2]
    <3>1. Len(messages') = n + 2 /\ (n + 2) - 2 = n /\ (n + 2) - 1 = n + 1
      BY <2>10
    <3>2. Old' = n
      BY <3>1 DEF Old
    <3>3. Question' = messages'[n + 1]
      BY <3>1 DEF Question
    <3>4. Reply' = messages'[n + 2]
      BY <3>1 DEF Reply
    <3> QED BY <3>2, <3>3, <3>4
  <2>12. /\ Tidy(messages, Old)' /\ OldPairs' = OldPairs
         /\ \A w : Below(messages, Old, w) => Below(messages', Old', w)
    <3>1. PICK t : t = messages'
      OBVIOUS
    <3>2. \A i \in 1 .. n : t[i] = m[i]
      BY <2>10, <3>1
    <3>3. /\ Pairs(t, n) = Pairs(m, n) /\ (Tidy(m, n) => Tidy(t, n))
          /\ \A w : Below(m, n, w) => Below(t, n, w)
      BY <3>2, PrefixSame
    <3> QED BY <2>4, <2>5, <2>7, <2>11, <3>1, <3>3 DEF OldPairs
  <2>13. /\ Question'.role = "user" /\ ~ Question'.card
         /\ Reply'.role = "assistant" /\ ~ Reply'.card
         /\ e.role = "user" => Question'.sid = e.id /\ Reply'.sid = Reply.sid
         /\ e.role = "assistant" => Question'.sid = Question.sid /\ Reply'.sid = e.id
    <3>1. e.role \in {"user", "assistant"}
      BY <2>9 DEF Roles
    <3>2. CASE e.role = "user"
      <4>1. Question' = [m[n + 1] EXCEPT !.sid = e.id] /\ Reply' = m[n + 2]
        BY <2>10, <2>11, <3>2
      <4>2. /\ [m[n + 1] EXCEPT !.sid = e.id].sid = e.id
            /\ [m[n + 1] EXCEPT !.sid = e.id].role = m[n + 1].role
            /\ [m[n + 1] EXCEPT !.sid = e.id].card = m[n + 1].card
        BY <2>6, NewId
      <4> QED BY <2>6, <2>7, <3>2, <4>1, <4>2
    <3>3. CASE e.role = "assistant"
      <4>1. Question' = m[n + 1] /\ Reply' = [m[n + 2] EXCEPT !.sid = e.id]
        BY <2>10, <2>11, <3>3
      <4>2. /\ [m[n + 2] EXCEPT !.sid = e.id].sid = e.id
            /\ [m[n + 2] EXCEPT !.sid = e.id].role = m[n + 2].role
            /\ [m[n + 2] EXCEPT !.sid = e.id].card = m[n + 2].card
        BY <2>6, NewId
      <4> QED BY <2>6, <2>7, <3>3, <4>1, <4>2
    <3> QED BY <3>1, <3>2, <3>3
  <2>14. InRows(x, y)'
    <3>1. Held(current)' = Held(current)
      BY <1>1, HeldSame
    <3> QED BY <2>3, <2>12, <3>1 DEF InRows
  <2>15. OnItsWay(k, x, y)'
    <3>1. PICK u, a : u = Event("user", x) /\ a = Event("assistant", y)
      OBVIOUS
    <3>2. u.role = "user" /\ u.id = x /\ a.role = "assistant" /\ a.id = y
      BY <3>1 DEF Event
    <3>3. CASE stream[k].wire = <<u>> /\ Reply.sid = 0 /\ y = 0
      <4>1. e = u /\ stream'[k].wire = <<>>
        BY <1>3, <2>8, <3>3
      <4> QED BY <2>13, <3>2, <3>3, <4>1 DEF OnItsWay
    <3>4. CASE stream[k].wire = <<u, a>> /\ Reply.sid = 0 /\ y # 0
      <4>1. e = u /\ stream'[k].wire = <<a>>
        BY <1>3, <2>8, <3>4
      <4> QED BY <2>13, <3>1, <3>2, <3>4, <4>1 DEF OnItsWay, Event
    <3>5. CASE stream[k].wire = <<a>> /\ Question.sid = x /\ Reply.sid = 0 /\ y # 0
      <4>1. e = a /\ stream'[k].wire = <<>>
        BY <1>3, <2>8, <3>5
      <4> QED BY <2>13, <3>2, <3>5, <4>1 DEF OnItsWay
    <3> QED BY <1>1, <2>3, <3>1, <3>3, <3>4, <3>5 DEF OnItsWay
  <2>16. Stage(k)'
    BY <1>1, <2>3, <2>14, <2>15 DEF Stage
  <2>17. Len(messages') >= 2
    BY <2>10
  <2> QED BY <1>3, <2>1, <2>12, <2>13, <2>16, <2>17 DEF InExchange
<1>5. \A j \in Streams \ {k} : Busy(j)' = Busy(j) /\ job'[j] = job[j]
  BY <1>1, <1>3 DEF Busy
<1>6. Busy(k)' /\ stream'[k].chat = stream[k].chat
  BY <1>1, <1>3 DEF Busy
<1> QED BY <1>1, <1>4, <1>5, <1>6, BusyStep

(* Once all was read the last two messages are in their place.               *)
LEMMA AllRead ==
  ASSUME NEW m \in Seq(Messages), NEW n \in Nat, Len(m) = n + 2, Tidy(m, n),
         m[n + 1].role = "user", ~ m[n + 1].card, m[n + 2].role = "assistant", ~ m[n + 2].card,
         NEW x \in Nat \ {0}, NEW y \in Nat, m[n + 1].sid = x, m[n + 2].sid = y,
         Below(m, n, x), y # 0 => x < y
  PROVE  /\ Tidy(m, n + 2)
         /\ Pairs(m, n + 2) = Pairs(m, n) \union {<<x, "user">>}
                                  \union (IF y = 0 THEN {} ELSE {<<y, "assistant">>})
<1>1. /\ Tidy(m, n + 1) /\ Pairs(m, n + 1) = Pairs(m, n) \union {<<x, "user">>}
  BY OneMore
<1>2. y # 0 => Below(m, n + 1, y)
  <2>1. SUFFICES ASSUME y # 0, NEW i \in Named(m, n + 1) PROVE m[i].sid < y
    BY DEF Below
  <2>2. CASE i = n + 1
    BY <2>1, <2>2
  <2>3. CASE i # n + 1
    <3>1. i \in Named(m, n) /\ i \in 1 .. n
      BY <2>3 DEF Named
    <3>2. m[i] \in Messages
      BY <3>1
    <3>3. m[i].sid \in Nat /\ m[i].sid < x
      BY <3>1, <3>2 DEF Below, Messages
    <3> QED BY <2>1, <3>3
  <2> QED BY <2>2, <2>3
<1>3. PICK h \in Nat : h = n + 1
  OBVIOUS
<1>4. h + 1 = n + 2
  BY <1>3
<1>5. /\ Tidy(m, h) /\ m[h + 1].sid \in Nat /\ (m[h + 1].role = "user" => m[h + 1].sid # 0)
      /\ (m[h + 1].card => (m[h + 1].sid = 0 /\ m[h + 1].role = "assistant"))
      /\ (m[h + 1].sid # 0 => Below(m, h, m[h + 1].sid))
  BY <1>1, <1>2, <1>3, <1>4
<1>6. /\ Tidy(m, h + 1)
      /\ Pairs(m, h + 1) = Pairs(m, h) \union
             (IF m[h + 1].sid = 0 THEN {} ELSE {<<m[h + 1].sid, m[h + 1].role>>})
  BY <1>5, OneMore
<1> QED BY <1>1, <1>3, <1>4, <1>6

LEMMA EndsAgrees ==
  ASSUME ShowsInv, AgreeInv, NEW k \in Streams, Ends(k)
  PROVE  AgreeInv'
<1> SUFFICES ASSUME ~ parted' PROVE AgreeInv'
  BY DEF AgreeInv, AnswersAlone, FirstPages, FetchFits, RestFits, OpenFits
<1>1. /\ UNCHANGED <<rows, messages, current, awaiting, load, total, controller, parted, job>>
      /\ ~ parted /\ Busy(k) /\ stream[k].wire = <<>> /\ job[k] = "over"
      /\ stream' = [stream EXCEPT ![k].phase = "closing"]
  BY DEF Ends, stored, shown, paging, Busy
<1>2. /\ stream \in [Streams -> Answers] /\ ChatTypes /\ stream[k] \in Answers
  BY DEF ShowsInv, ChatTypes
<1>3. /\ \A j \in Streams \ {k} : stream'[j] = stream[j]
      /\ stream'[k].phase = "closing" /\ stream'[k].chat = stream[k].chat
  BY <1>1, <1>2 DEF Answers
<1>4. ASSUME current # NoChat
      PROVE  Agrees(messages, current)'
  <2>1. InExchange(k)
    BY <1>1, <1>4 DEF AgreeInv, OpenFits
  <2>2. PICK x \in Nat \ {0} : \E y \in Nat : InRows(x, y) /\ OnItsWay(k, x, y)
    BY <1>1, <2>1 DEF InExchange, Stage
  <2>3. PICK y \in Nat : InRows(x, y) /\ OnItsWay(k, x, y)
    BY <2>2
  <2>4. Question.sid = x /\ Reply.sid = y
    BY <1>1, <2>3 DEF OnItsWay
  <2>5. PICK m \in Seq(Messages) : m = messages
    BY <1>2 DEF ChatTypes
  <2>6. PICK n \in Nat : n = Old /\ Len(m) = n + 2
    <3>1. Len(m) \in Nat /\ Len(m) >= 2 /\ Old = Len(m) - 2
      BY <2>1, <2>5 DEF InExchange, Old
    <3>2. Len(m) - 2 \in Nat /\ Len(m) = (Len(m) - 2) + 2
      BY <3>1
    <3> QED BY <3>1, <3>2
  <2>7. Question = m[n + 1] /\ Reply = m[n + 2]
    BY <2>5, <2>6 DEF Question, Reply
  <2>8. /\ m \in Seq(Messages) /\ n \in Nat /\ Len(m) = n + 2 /\ Tidy(m, n)
        /\ m[n + 1].role = "user" /\ ~ m[n + 1].card /\ m[n + 2].role = "assistant"
        /\ ~ m[n + 2].card /\ x \in Nat \ {0} /\ y \in Nat
        /\ m[n + 1].sid = x /\ m[n + 2].sid = y /\ Below(m, n, x) /\ (y # 0 => x < y)
    BY <2>1, <2>3, <2>4, <2>5, <2>6, <2>7 DEF InExchange, InRows
  <2>9. /\ Tidy(m, n + 2)
        /\ Pairs(m, n + 2) = Pairs(m, n) \union {<<x, "user">>}
                                 \union (IF y = 0 THEN {} ELSE {<<y, "assistant">>})
    <3>1. Tidy(m, n + 2)
      BY ONLY <2>8, AllRead
    <3>2. Pairs(m, n + 2) = Pairs(m, n) \union {<<x, "user">>}
                                \union (IF y = 0 THEN {} ELSE {<<y, "assistant">>})
      BY ONLY <2>8, AllRead
    <3> QED BY ONLY <3>1, <3>2
  <2>10. Agrees(messages, current)
    BY <2>3, <2>5, <2>6, <2>9 DEF Agrees, InRows, OldPairs
  <2> QED BY <1>1, <2>10, HeldSame DEF Agrees
<1>5. \A j \in Streams \ {k} : Busy(j)' = Busy(j) /\ job'[j] = job[j]
  BY <1>1, <1>3 DEF Busy
<1>6. ~ Busy(k)' /\ job'[k] = "over" /\ stream'[k].chat = stream[k].chat
  BY <1>1, <1>3 DEF Busy
<1> QED BY <1>1, <1>4, <1>5, <1>6, BusyStep

-----------------------------------------------------------------------------
(* The page and the rows                                                     *)

LEMMA AgreeStarts == ChatInit => AgreeInv
<1> SUFFICES ASSUME ChatInit PROVE AgreeInv
  OBVIOUS
<1>1. /\ \A k \in Streams : ~ Busy(k) /\ job[k] = "unused"
      /\ \A l \in Loads : load[l].phase = "unused"
      /\ ~ awaiting /\ current = NoChat /\ total = 0
  BY DEF ChatInit, NoAnswer, NoLoad, Busy
<1>2. total <= PageSize
  BY <1>1, ChatConstants
<1> QED BY <1>1, <1>2
      DEF AgreeInv, AnswersAlone, FirstPages, FetchFits, RestFits, OpenFits, Pending

LEMMA AgreeStep == ShowsInv /\ AgreeInv /\ [ChatNext]_chatVars => AgreeInv'
<1> SUFFICES ASSUME ShowsInv, AgreeInv, [ChatNext]_chatVars PROVE AgreeInv'
  OBVIOUS
<1>1. CASE ServerStep
  BY <1>1, RefuseAgrees, CutAgrees, AskAgrees, AnswerAgrees DEF ServerStep
<1>2. CASE AnswerBegins
  BY <1>2, SendAgrees, CreatingAgrees, SendInNewAgrees, RegenerateAgrees, EditAgrees,
     PartedAgrees, StageAgrees, CancelAgrees DEF AnswerBegins
<1>3. CASE AnswerArrives
  BY <1>3, ReceiveAgrees, EndsAgrees, PartedAgrees, FinallyAgrees, StoppedAgrees
     DEF AnswerArrives
<1>4. CASE Browse
  <2>1. ASSUME NEW l \in Loads, TakeHistory(l) \/ TakeMore(l) \/ LoadFails(l)
        PROVE  AgreeInv'
    BY <2>1, DroppedAgrees, TakeHistoryAgrees, MoreAgrees
  <2> QED BY <1>4, <2>1, LeaveAgrees, SelectAgrees, MoreAgrees, ServeAgrees,
             AskToDeleteAgrees, DeleteAgrees DEF Browse
<1>5. CASE UNCHANGED chatVars
  <2>1. /\ UNCHANGED <<rows, current, messages, awaiting, seq, total, load, stream, job,
                       controller, parted>>
    BY <1>5 DEF chatVars, stored, shown, paging
  <2>2. \A j \in Streams : /\ (stream'[j].phase = "open") = Busy(j) /\ job'[j] = job[j]
                           /\ Busy(j) => stream'[j] = stream[j]
    BY <2>1 DEF Busy
  <2> QED BY <2>1, <2>2, QuietAgrees
<1> QED BY <1>1, <1>2, <1>3, <1>4, <1>5 DEF ChatNext

(* With nothing on its way, the page and the rows of its chat agree on the   *)
(* questions and on the answers, each under its own id and in order          *)
(* (PageAgrees), however many chats, answers and pages were asked for before *)
(* - unless something the page says of itself parted the two.                *)
THEOREM PageAgreesAlways == ChatSpec => []PageAgrees
<1>1. ASSUME ShowsInv, AgreeInv
      PROVE  PageAgrees
  <2>1. SUFFICES ASSUME AtRest, ~ parted
                 PROVE  /\ \A i \in DOMAIN messages : messages[i].role = "user" => i \in Numbered
                        /\ {<<messages[i].sid, messages[i].role>> : i \in Numbered}
                              = {<<r.id, r.role>> : r \in History(current)}
                        /\ \A i, j \in Numbered : i < j => messages[i].sid < messages[j].sid
    BY DEF PageAgrees
  <2>2. \A k \in Streams : ~ Busy(k)
    BY <2>1 DEF AtRest, Busy
  <2>3. Agrees(messages, current)
    BY <1>1, <2>1, <2>2 DEF AgreeInv, RestFits, AtRest
  <2>4. messages \in Seq(Messages)
    BY <1>1 DEF ShowsInv, ChatTypes
  <2>5. DOMAIN messages = 1 .. Len(messages)
    BY <2>4
  <2>6. Numbered = Named(messages, Len(messages))
    BY <2>5 DEF Numbered, Named
  <2> QED BY <2>3, <2>5, <2>6 DEF Agrees, Tidy, Pairs, Held, Named
<1> QED BY <1>1, ShowsHolds, ChatStarts, AgreeStarts, ChatStepShows, AgreeStep, PTL DEF ChatSpec
=============================================================================
