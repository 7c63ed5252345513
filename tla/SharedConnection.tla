-------------------------- MODULE SharedConnection --------------------------
(***************************************************************************)
(* Where two requests do meet: the one database connection of the server,  *)
(* and balance_apply_delta_m on it, statement by statement                 *)
(* (backend/src/common/{db.h,balance.c}, ledger_rebuild_account).          *)
(*                                                                         *)
(* Transactions belong to the connection.  db_tx_scope_begin is a BEGIN    *)
(* when the connection is in no transaction, whoever asks, and otherwise a *)
(* SAVEPOINT inside the transaction it is in, whoever began that.  A       *)
(* COMMIT takes everybody's statements along and ends everybody's          *)
(* savepoints; a ROLLBACK, or a ROLLBACK TO an older savepoint, undoes     *)
(* everybody's.  Module Ledger is about requests that stay apart, and may  *)
(* therefore take a posting for one step; this module is about what is     *)
(* left of the books when they do not.                                     *)
(*                                                                         *)
(* The scopes themselves are those of csilk (db.c only calls it).  Whether *)
(* it makes the names of savepoints unique is open here: a name that is    *)
(* not stands for the latest savepoint that has it.                        *)
(***************************************************************************)
EXTENDS Integers, Sequences, FiniteSets
LOCAL INSTANCE SequencesExt

CONSTANTS
    Tellers,     \* the server's workers
    Purses,      \* the accounts
    Initial,        \* their opening balance
    Deltas,      \* amounts posted
    MaxLegs,     \* bound: postings of one request
    MaxTasks      \* bound: requests

ASSUME ConnectionAssumption ==
    /\ Initial \in Int /\ Deltas \subseteq Int \ {0}
    /\ MaxLegs \in Nat \ {0} /\ MaxTasks \in Nat

VARIABLES
    tables,    \* assets.current_value and asset_balance_logs, as the connection
             \* has them
    stack,   \* its transaction and the savepoints in it, oldest first
    task,     \* what each worker is at
    taken,    \* requests begun (bound)
    met,     \* history: a worker has used the connection inside another's scope
    spoilt   \* history: a rollback has undone others' statements or not its
             \* own, or a rebuild has written after requests met

connVars == <<tables, stack, task, taken, met, spoilt>>

Leg == [purse : Purses, delta : Deltas]
Level == {"case", "leg"}    \* the scope of the use case, that of a posting

\* owned: what a worker takes its scopes for; due: what it has added to a
\* balance and not yet logged; got: the balance it read last.
NoTask == [pc |-> "idle", legs |-> <<>>, got |-> 0, due |-> 0,
           owned |-> [v \in Level |-> "none"]]

ConnInit ==
    /\ tables = [held |-> [a \in Purses |-> Initial], log |-> [a \in Purses |-> <<>>]]
    /\ stack = <<>>
    /\ task = [w \in Tellers |-> NoTask]
    /\ taken = 0
    /\ met = FALSE /\ spoilt = FALSE

-----------------------------------------------------------------------------
(* Scopes                                                                  *)

Within(w) == \E k \in DOMAIN stack : stack[k].by # w
Newest(S) == {k \in S : \A j \in S : j <= k}

BeginScope(w, v, j) ==
    LET kind == IF stack = <<>> THEN "top" ELSE "save"
    IN  /\ stack' = Append(stack, [by |-> w, level |-> v, kind |-> kind,
                                   before |-> tables, shared |-> FALSE])
        /\ task' = [task EXCEPT ![w] = [j EXCEPT !.owned[v] = kind]]
        /\ met' = (met \/ Within(w))
        /\ UNCHANGED <<tables, spoilt>>

\* Where the savepoint may be that worker w means; 0 when there is none.
Meant(w, v) ==
    LET named == {k \in DOMAIN stack : stack[k].level = v /\ stack[k].kind = "save"}
        its   == {k \in named : stack[k].by = w}
    IN  (IF its = {} THEN {0} ELSE Newest(its)) \cup Newest(named)

\* The transaction is at the bottom, and only who began it ends it.
Targets(w, v) == IF task[w].owned[v] = "top" THEN {1} ELSE Meant(w, v)

\* COMMIT or RELEASE.
Release(w, v, j) == \E k \in Targets(w, v) \ {0} :
    /\ stack' = SubSeq(stack, 1, k - 1)
    /\ task' = [task EXCEPT ![w] = [j EXCEPT !.owned[v] = "none"]]
    /\ met' = (met \/ Within(w))
    /\ UNCHANGED <<tables, taken, spoilt>>

\* ROLLBACK, or ROLLBACK TO and RELEASE; without the savepoint it undoes
\* nothing, and nobody looks.
Revert(w, v, j) == \E k \in Targets(w, v) :
    /\ task' = [task EXCEPT ![w] = [j EXCEPT !.owned[v] = "none"]]
    /\ met' = (met \/ Within(w))
    /\ IF k = 0 THEN spoilt' = TRUE /\ UNCHANGED <<tables, stack>>
       ELSE /\ tables' = stack[k].before
            /\ stack' = SubSeq(stack, 1, k - 1)
            /\ spoilt' = (spoilt \/ stack[k].by # w \/ stack[k].shared)
    /\ UNCHANGED taken

\* A statement that changes the tables, inside every scope there is.
Write(w, b, j) ==
    /\ tables' = b
    /\ stack' = [k \in DOMAIN stack |-> [stack[k] EXCEPT !.shared = @ \/ stack[k].by # w]]
    /\ task' = [task EXCEPT ![w] = j]
    /\ met' = (met \/ Within(w))
    /\ UNCHANGED taken

Query(w, j) == /\ task' = [task EXCEPT ![w] = j]
               /\ met' = (met \/ Within(w))
               /\ UNCHANGED <<tables, stack, taken, spoilt>>

-----------------------------------------------------------------------------
(* A use case, and the postings it makes                                   *)

Doing(w, p) == task[w].pc = p
Now(w)      == Head(task[w].legs)
Then(w, p)  == [task[w] EXCEPT !.pc = p]

OpenCase(w) == \E n \in 1..MaxLegs : \E legs \in [1..n -> Leg] :
    /\ Doing(w, "idle") /\ taken < MaxTasks
    /\ BeginScope(w, "case", [NoTask EXCEPT !.pc = "legs", !.legs = legs])
    /\ taken' = taken + 1

OpenPosting(w) ==
    /\ Doing(w, "legs") /\ task[w].legs # <<>>
    /\ BeginScope(w, "leg", Then(w, "look"))
    /\ UNCHANGED taken

Look(w) == /\ Doing(w, "look")
           /\ Query(w, [Then(w, "move") EXCEPT !.got = tables.held[Now(w).purse]])

\* A slip: the balance that was read, plus the amount, instead of the balance
\* that is there.
AddToRead(w) ==
    /\ Doing(w, "move")
    /\ Write(w, [tables EXCEPT !.held[Now(w).purse] = task[w].got + Now(w).delta],
             [Then(w, "read") EXCEPT !.due = Now(w).delta])
    /\ UNCHANGED spoilt

\* SET current_value = current_value + ?
AddDelta(w) ==
    /\ Doing(w, "move")
    /\ Write(w, [tables EXCEPT !.held[Now(w).purse] = @ + Now(w).delta],
             [Then(w, "read") EXCEPT !.due = Now(w).delta])
    /\ UNCHANGED spoilt

ReadBack(w) == /\ Doing(w, "read")
               /\ Query(w, [Then(w, "log") EXCEPT !.got = tables.held[Now(w).purse]])

LogRow(w) ==
    /\ Doing(w, "log")
    /\ Write(w, [tables EXCEPT !.log[Now(w).purse] =
                   Append(@, [delta |-> Now(w).delta, after |-> task[w].got])],
             [Then(w, "shut") EXCEPT !.due = 0])
    /\ UNCHANGED spoilt

ShutPosting(w) ==
    /\ Doing(w, "shut")
    /\ Release(w, "leg", [Then(w, "legs") EXCEPT !.legs = Tail(@)])

CloseCase(w) ==
    /\ Doing(w, "legs") /\ task[w].legs = <<>>
    /\ Release(w, "case", NoTask)

\* Any statement may fail, and a RELEASE does when its savepoint is gone.  The
\* posting rolls its scope back, then the use case its own.
Fails(w) ==
    \/ /\ task[w].pc \in {"look", "move", "read", "log", "shut"}
       /\ Query(w, Then(w, "unpost"))
    \/ /\ task[w].pc \in {"legs", "ask"}
       /\ Query(w, Then(w, "undo"))

UndoPosting(w) ==
    /\ Doing(w, "unpost")
    /\ Revert(w, "leg", [Then(w, "undo") EXCEPT !.due = 0])
UndoCase(w) ==
    /\ Doing(w, "undo")
    /\ Revert(w, "case", NoTask)

-----------------------------------------------------------------------------
(* ledger_rebuild_account                                                  *)

OpenRebuild(w) == \E a \in Purses :
    /\ Doing(w, "idle") /\ taken < MaxTasks
    /\ BeginScope(w, "case", [NoTask EXCEPT !.pc = "ask",
                           !.legs = <<[purse |-> a, delta |-> 0]>>])
    /\ taken' = taken + 1

ReadBalance(w) == /\ Doing(w, "ask")
          /\ Query(w, [Then(w, "sum") EXCEPT !.got = tables.held[Now(w).purse]])

Added(l) == FoldSeq(LAMBDA r, n : n + r.delta, 0, l)

\* Rows that cannot be read are taken for none.
Replay(w) ==
    /\ Doing(w, "sum")
    /\ LET l == tables.log[Now(w).purse]
       IN  \/ Query(w, Then(w, "store"))
           \/ /\ l # <<>>
              /\ Query(w, [Then(w, "store") EXCEPT
                             !.got = l[1].after - l[1].delta + Added(l)])

\* The UPDATE, which may fail unnoticed.
Store(w) ==
    /\ Doing(w, "store")
    /\ \/ /\ Write(w, [tables EXCEPT !.held[Now(w).purse] = task[w].got], Then(w, "end"))
          /\ spoilt' = (spoilt \/ met')
       \/ Query(w, Then(w, "end"))

\* What the COMMIT or RELEASE returns is not looked at; a transaction that could
\* not be committed stays open for whoever comes next.
EndRebuild(w) ==
    /\ Doing(w, "end")
    /\ \/ Release(w, "case", NoTask)
       \/ /\ task' = [task EXCEPT ![w] = NoTask]
          /\ met' = TRUE
          /\ UNCHANGED <<tables, stack, taken, spoilt>>

-----------------------------------------------------------------------------
ConnNext == \E w \in Tellers :
    \/ OpenCase(w) \/ OpenPosting(w) \/ Look(w) \/ AddDelta(w) \/ ReadBack(w)
    \/ LogRow(w) \/ ShutPosting(w) \/ CloseCase(w) \/ Fails(w)
    \/ UndoPosting(w) \/ UndoCase(w)
    \/ OpenRebuild(w) \/ ReadBalance(w) \/ Replay(w) \/ Store(w) \/ EndRebuild(w)

ConnSpec == ConnInit /\ [][ConnNext]_connVars

-----------------------------------------------------------------------------
Due(a) == {w \in Tellers : task[w].due # 0 /\ Now(w).purse = a}
Owed(a) == FoldSet(LAMBDA w, n : n + task[w].due, 0, Due(a))

(* No posting is lost.  However the statements of two requests interleave  *)
(* on the connection, and whoever's COMMIT takes whose statements along, a *)
(* balance is its opening value, the amounts logged for it and those that  *)
(* are added but not yet logged; it takes a rollback among others'         *)
(* statements, or a rebuild after requests have met, to make it anything   *)
(* else.  And as long as none have met, the rows chain up to the balance   *)
(* (balance_apply_delta_m adds to the value the table has).                *)
PostingsAddUp ==
    /\ ~spoilt => \A a \in Purses :
        tables.held[a] = Initial + Added(tables.log[a]) + Owed(a)
    /\ ~met => \A a \in Purses :
        LET l == tables.log[a]
        IN  \A i \in DOMAIN l :
               l[i].after = l[i].delta + (IF i = 1 THEN Initial ELSE l[i - 1].after)
=============================================================================
