---------------------------- MODULE OfflineSync ----------------------------
(***************************************************************************)
(* The mobile client's offline writes (frontend stores/sync.ts and         *)
(* utils/offline-http.ts): a write the server did not answer is kept in    *)
(* the local database and queued; a synchronisation pushes the queue, row  *)
(* by row, renaming placeholder ids to the ids the server gave, and then   *)
(* pulls every table.  Every request is awaited, those of the user too: he *)
(* goes on writing, a synchronisation goes on renaming, and the server may *)
(* have carried out a request whose answer is lost.  A request refused for *)
(* want of authentication logs the user out, which deletes the database.   *)
(* It is not opened again before the app is started anew, which is         *)
(* SyncInit.                                                               *)
(*                                                                         *)
(* Two tables: accounts, whose creation answers with the new id, and       *)
(* assets, whose creation does not and which refer to an account.  A row's *)
(* content is the number of the write it comes from.                       *)
(***************************************************************************)
EXTENDS Integers, Sequences, FiniteSets

CONSTANTS
    MaxWrites,    \* bound on the writes of the user
    MaxFailures   \* bound on requests that fail or lose their answer

ASSUME SyncAssumption == MaxWrites \in Nat /\ MaxFailures \in Nat

VARIABLES
    local,      \* rows of the local database
    queue,      \* sync_queue, in the order of its ids
    server,     \* rows of the server
    ids,        \* ids the server has given
    writes,     \* writes of the user so far
    awaited,    \* those whose request is awaited, with the ids of when it was sent
    failures,   \* requests that failed or lost their answer
    stage,      \* "idle", "push", then the table being pulled
    round,      \* the items of the queue this round still goes through
    flight,     \* the item whose request is awaited and that request, or NoRequest
    renamed,    \* placeholder ids whose server id is known
    late,       \* those a write brought back that was awaited meanwhile
    applied,    \* writes the server has carried out
    login       \* "in", "leaving" from the refusal to the reset, "out"

syncVars == <<local, queue, server, ids, writes, awaited, failures, stage, round, flight,
              renamed, late, applied, login>>

NoRequest == [item |-> 0]
NoRef == 0
\* Placeholders come from the clock, milliseconds since 1970: numbers the
\* server, which counts from one, never gives.
Placeholder(w) == -w

SyncInit ==
    /\ local = {}
    /\ queue = << >>
    /\ server = {}
    /\ ids = 0
    /\ writes = 0
    /\ awaited = {}
    /\ failures = 0
    /\ stage = "idle"
    /\ round = {}
    /\ flight = NoRequest
    /\ renamed = {}
    /\ late = {}
    /\ applied = {}
    /\ login = "in"

Rows(db, table) == {r \in db : r.table = table}
HasRow(db, table, id) == \E r \in Rows(db, table) : r.id = id
StoredRow(table, id, ref) == [table |-> table, id |-> id, ref |-> ref]

----------------------------------------------------------------------------
(* The server *)

\* It refuses a reference or an id it does not know.
Accepts(q) ==
    /\ q.op = "create" \/ HasRow(server, q.table, q.id)
    /\ q.op # "delete" /\ q.table = "assets" => HasRow(server, "accounts", q.ref)

Without(db, table, id) == {r \in db : ~(r.table = table /\ r.id = id)}

Serve(q) ==
    /\ applied' = applied \union {q.write}
    /\ CASE q.op = "create" -> /\ ids' = ids + 1
                               /\ server' = server \union {StoredRow(q.table, ids + 1, q.ref)}
         [] q.op = "update" -> /\ server' = Without(server, q.table, q.id)
                                             \union {StoredRow(q.table, q.id, q.ref)}
                               /\ UNCHANGED ids
         [] q.op = "delete" -> server' = Without(server, q.table, q.id) /\ UNCHANGED ids

NotServed == UNCHANGED <<server, ids, applied>>

\* What createApi answers: the envelope without an id, for assets.
AnswersId(q) == q.op = "create" /\ q.table = "accounts"

----------------------------------------------------------------------------
(* offlineRequest: the user writes *)

Visible(table) == {r.id : r \in {s \in Rows(local, table) : ~s.gone}}
LocalRow(table, id, ref, gone) == [table |-> table, id |-> id, ref |-> ref, gone |-> gone]

Wish(table, op, id, ref) ==
    [table |-> table, op |-> op, id |-> id, ref |-> ref, write |-> writes + 1,
     synced |-> FALSE, conflict |-> FALSE]

\* What the user may ask for, of rows that are shown.
Wishes ==
    LET new == Placeholder(writes + 1)
        shown == {r \in local : ~r.gone}
    IN  {Wish("accounts", "create", new, NoRef)}
        \union {Wish("assets", "create", new, a) : a \in Visible("accounts")}
        \union {Wish(r.table, "update", r.id, r.ref) : r \in shown}
        \union {Wish(r.table, "delete", r.id, NoRef) : r \in shown}

Write ==
    /\ login = "in" /\ writes < MaxWrites
    /\ writes' = writes + 1
    /\ \E q \in Wishes : awaited' = awaited \union {q}
    /\ UNCHANGED <<local, queue, server, ids, failures, stage, round, flight, renamed, late,
                   applied, login>>

\* The server has done it; the pages that show it ask the server again.
Granted(q) ==
    /\ Accepts(q)
    /\ Serve(q)
    /\ awaited' = awaited \ {q}
    /\ UNCHANGED <<local, queue, writes, failures, stage, round, flight, renamed, late, login>>

\* writeLocal, after any failure but an authentication error, a refusal included:
\* the write is kept and queued, with the ids of when it was sent.  A deleted row
\* is only marked.
Kept(q) ==
    /\ login # "out"
    /\ \/ ~Accepts(q) /\ NotServed /\ UNCHANGED failures
       \/ /\ failures < MaxFailures
          /\ failures' = failures + 1
          /\ NotServed \/ (Accepts(q) /\ Serve(q))
    /\ local' = IF q.op = "delete"
                THEN {[r EXCEPT !.gone = @ \/ (r.table = q.table /\ r.id = q.id)] : r \in local}
                ELSE Without(local, q.table, q.id)
                       \union {LocalRow(q.table, q.id, q.ref, FALSE)}
    /\ queue' = Append(queue, q)
    /\ late' = late \union ({q.id, q.ref} \cap renamed)
    /\ awaited' = awaited \ {q}
    /\ UNCHANGED <<writes, stage, round, flight, renamed, login>>

LoggedOff == login' = IF login = "in" THEN "leaving" ELSE login

\* An authentication error: the user is told and logged out.  After the reset any
\* failure ends so, since writeLocal finds no database.
TurnedAway(q) ==
    /\ NotServed
    /\ LoggedOff
    /\ awaited' = awaited \ {q}
    /\ UNCHANGED <<local, queue, writes, failures, stage, round, flight, renamed, late>>

----------------------------------------------------------------------------
(* logout *)

\* The user logs out, or some other request is refused.
LogOut ==
    /\ login = "in"
    /\ LoggedOff
    /\ UNCHANGED <<local, queue, server, ids, writes, awaited, failures, stage, round, flight,
                   renamed, late, applied>>

\* reset, once the modules are imported: the database is closed and deleted, the
\* queue with it.
Reset ==
    /\ login = "leaving"
    /\ login' = "out"
    /\ local' = {}
    /\ queue' = << >>
    /\ UNCHANGED <<server, ids, writes, awaited, failures, stage, round, flight, renamed, late,
                   applied>>

----------------------------------------------------------------------------
(* pushLocal *)

\* The loop goes over the items queued when it began.
StartSync ==
    /\ stage = "idle" /\ login # "out"
    /\ stage' = "push"
    /\ round' = {i \in DOMAIN queue : ~queue[i].synced}
    /\ UNCHANGED <<local, queue, server, ids, writes, awaited, failures, flight, renamed, late,
                   applied, login>>

\* In the order of their ids; each item is read again before it is sent.
PushItem ==
    /\ stage = "push" /\ flight = NoRequest /\ login # "out"
    /\ \E i \in round : /\ \A j \in round : i <= j
                        /\ flight' = [item |-> i, req |-> queue[i]]
    /\ UNCHANGED <<local, queue, server, ids, writes, awaited, failures, stage, round, renamed,
                   late, applied, login>>

\* Slip: the rows get the server's id, the later items keep the placeholder.
Rename_RowsOnly(i, new) ==
    /\ local' = {[r EXCEPT !.id = IF r.table = queue[i].table /\ r.id = queue[i].id THEN new ELSE @,
                           !.ref = IF r.ref = queue[i].id THEN new ELSE @] : r \in local}
    /\ queue' = [queue EXCEPT ![i].synced = TRUE]
    /\ renamed' = renamed \union {queue[i].id}

\* The row, the later items on it, the rows and the later items that refer to it.
Rename(i, new) ==
    LET old == queue[i] IN
    /\ local' = {[r EXCEPT !.id = IF r.table = old.table /\ r.id = old.id THEN new ELSE @,
                           !.ref = IF r.ref = old.id THEN new ELSE @] : r \in local}
    /\ queue' = [j \in DOMAIN queue |->
          IF j < i THEN queue[j]
          ELSE IF j = i THEN [queue[j] EXCEPT !.synced = TRUE]
          ELSE [queue[j] EXCEPT
                  !.id = IF queue[j].table = old.table /\ @ = old.id THEN new ELSE @,
                  !.ref = IF @ = old.id /\ ~queue[j].synced THEN new ELSE @]]
    /\ renamed' = renamed \union {old.id}

MarkSynced(i) == queue' = [queue EXCEPT ![i].synced = TRUE]

\* The loop goes on with the next item.
ItemDone == round' = round \ {flight.item} /\ flight' = NoRequest

InFlight == flight # NoRequest /\ login # "out"

Answered ==
    /\ InFlight
    /\ Accepts(flight.req)
    /\ Serve(flight.req)
    /\ IF AnswersId(flight.req)
       THEN Rename(flight.item, ids')
       ELSE MarkSynced(flight.item) /\ UNCHANGED <<local, renamed>>
    /\ ItemDone
    /\ UNCHANGED <<writes, awaited, failures, stage, late, login>>

\* The server says no: the item stays in the queue, marked.
Refused ==
    /\ InFlight
    /\ ~Accepts(flight.req)
    /\ queue' = [queue EXCEPT ![flight.item].conflict = TRUE]
    /\ ItemDone
    /\ NotServed
    /\ UNCHANGED <<local, writes, awaited, failures, stage, renamed, late, login>>

\* Unless it is for want of authentication: the push ends, the item stays as it
\* is until the reset.
Unauthenticated ==
    /\ InFlight
    /\ NotServed
    /\ LoggedOff
    /\ round' = {} /\ flight' = NoRequest
    /\ UNCHANGED <<local, queue, writes, awaited, failures, stage, renamed, late>>

\* Slip: the item is marked whatever came back.
Unanswered_Marks ==
    /\ InFlight
    /\ failures < MaxFailures
    /\ failures' = failures + 1
    /\ NotServed
    /\ MarkSynced(flight.item)
    /\ ItemDone
    /\ UNCHANGED <<local, writes, awaited, stage, renamed, late, login>>

\* No answer: the item stays as it is.
Unanswered ==
    /\ InFlight
    /\ failures < MaxFailures
    /\ failures' = failures + 1
    /\ NotServed \/ (Accepts(flight.req) /\ Serve(flight.req))
    /\ ItemDone
    /\ UNCHANGED <<local, queue, writes, awaited, stage, renamed, late, login>>

\* What is left of a synchronisation ends at its first use of the database.
OutOfBase ==
    /\ login = "out" /\ stage # "idle"
    /\ NotServed \/ (flight # NoRequest /\ Accepts(flight.req) /\ Serve(flight.req))
    /\ stage' = "idle" /\ round' = {} /\ flight' = NoRequest
    /\ UNCHANGED <<local, queue, writes, awaited, failures, renamed, late, login>>

----------------------------------------------------------------------------
(* pullRemote *)

NextStage(s) == CASE s = "push" -> "accounts" [] s = "accounts" -> "assets" [] s = "assets" -> "idle"

\* Every row of the server is written over the local one: no local write sets
\* updated_at, so that the server's is never older.  Rows the server no longer
\* has stay.  A table that cannot be fetched is left.
Overwrite(table) ==
    local' = {r \in local : ~(r.table = table /\ HasRow(server, table, r.id))}
               \union {LocalRow(table, r.id, r.ref, FALSE) : r \in Rows(server, table)}

Pull ==
    /\ stage # "idle" /\ login # "out"
    /\ stage = "push" => flight = NoRequest /\ round = {}
    /\ \/ stage = "push" /\ UNCHANGED <<local, failures, login>>
       \/ stage # "push" /\ Overwrite(stage) /\ UNCHANGED <<failures, login>>
       \/ /\ stage # "push" /\ failures < MaxFailures
          /\ failures' = failures + 1 /\ UNCHANGED <<local, login>>
       \/ stage # "push" /\ LoggedOff /\ UNCHANGED <<local, failures>>
    /\ stage' = NextStage(stage)
    /\ UNCHANGED <<queue, server, ids, writes, awaited, round, flight, renamed, late, applied>>

SyncNext ==
    \/ Write \/ (\E q \in awaited : Granted(q) \/ Kept(q) \/ TurnedAway(q))
    \/ LogOut \/ Reset
    \/ StartSync \/ PushItem \/ Answered \/ Refused \/ Unauthenticated \/ Unanswered
    \/ OutOfBase \/ Pull

SyncSpec == SyncInit /\ [][SyncNext]_syncVars

----------------------------------------------------------------------------
\* Until the user is logged out no write is lost: it has reached the server, its
\* request is awaited, or it is queued, whatever failed, also when it was queued
\* while a request of the queue was awaited.  (The logout deletes the queue.)
NothingLost ==
    login = "in" => \A w \in 1 .. writes :
        \/ w \in applied
        \/ \E q \in awaited : q.write = w
        \/ \E i \in DOMAIN queue : queue[i].write = w /\ ~queue[i].synced

\* Once the server has named an account, no request of the queue carries its
\* placeholder, neither as the row it is about nor as the account of an asset;
\* unless a write brought it back that was sent before the naming and failed
\* after it.
NamesKept ==
    flight # NoRequest =>
        /\ flight.req.ref \notin renamed \ late
        /\ flight.req.table = "accounts" => flight.req.id \notin renamed \ late

=============================================================================
