---------------------------- MODULE Confirmation ----------------------------
(***************************************************************************)
(* Confirmation tokens of the AI assistant (policy/confirmation.c).  A     *)
(* proposed write carries a signed token with a nonce and an expiry; to    *)
(* confirm it the server consumes the nonce once.  Consumed nonces are     *)
(* kept in a ring in memory and in the table ai_consumed_nonces, and the   *)
(* lock of the ring is released between looking a nonce up and recording   *)
(* it.  The table is written on the connection every thread shares, so a   *)
(* row may land in a scope that another thread rolls back later.           *)
(*                                                                         *)
(* The signature, user, tool and argument checks decide before any state   *)
(* changes and are left out: the tokens here are the genuine ones.         *)
(***************************************************************************)
EXTENDS Naturals, Sequences, FiniteSets

CONSTANTS
    Verifiers,     \* request threads that verify tokens
    Nonces,      \* the tokens, named by their nonces
    RingSize,    \* MAX_NONCES (2048)
    Ttl,         \* lifetime of a token (300 s)
    Grace,       \* how long an expired row stays in the table (300 s)
    GcEvery,     \* inserts between two clean-ups of the table (10)
    MaxTime,     \* bound of the clock
    MaxUndone    \* bound of the nonces whose rows are rolled back

ASSUME ConfAssumption ==
    {RingSize, GcEvery, MaxTime} \subseteq Nat \ {0} /\ {Ttl, Grace, MaxUndone} \subseteq Nat

VARIABLES
    clock,       \* seconds, starting at 1
    expiry,      \* nonce -> expiry of its token, 0 before it is issued
    ring,        \* s_consumed_nonces[0 .. s_nonce_count - 1]
    cursor,      \* s_nonce_ring
    rows,        \* ai_consumed_nonces as the shared connection sees it
    undo,        \* {the rows when the foreign scope opened}, {} when none is open
    inserts,     \* s_gc_counter % GcEvery
    req,         \* what each thread is doing
    accepted,    \* nonce -> 0, 1 or 2: never, once, more than once accepted
    undone,      \* nonces whose row a foreign rollback removed
    forgotten,   \* nonces the ring has lost: overwritten, or by a restart
    overlapped   \* nonces two requests were about at the same time

confVars == <<clock, expiry, ring, cursor, rows, undo, inserts, req,
          accepted, undone, forgotten, overlapped>>

NoUse == [pc |-> "idle"]

ConfInit ==
    /\ clock = 1
    /\ expiry = [n \in Nonces |-> 0]
    /\ ring = <<>> /\ cursor = 1
    /\ rows = {} /\ undo = {} /\ inserts = 0
    /\ req = [t \in Verifiers |-> NoUse]
    /\ accepted = [n \in Nonces |-> 0]
    /\ undone = {} /\ forgotten = {} /\ overlapped = {}

----------------------------------------------------------------------------
(* The ring *)

\* is_nonce_consumed_locked
InRing(n, now) ==
    \E i \in DOMAIN ring : ring[i].nonce = n /\ ring[i].exp >= now

\* The slot record_nonce_consumed_locked writes: the first expired one, else
\* a new one, else the one under the cursor.
Expired == {i \in DOMAIN ring : ring[i].exp < clock}
RingSlots ==
    IF Expired # {} THEN {i \in Expired : \A j \in Expired : i <= j}
    ELSE IF Len(ring) < RingSize THEN {Len(ring) + 1} ELSE {cursor}

Record(n) ==
    \E k \in RingSlots :
        LET entry == [nonce |-> n, exp |-> expiry[n]] IN
        /\ ring' = IF k > Len(ring) THEN Append(ring, entry) ELSE [ring EXCEPT ![k] = entry]
        /\ cursor' = IF Expired = {} /\ Len(ring) = RingSize
                     THEN (cursor % RingSize) + 1 ELSE cursor
        /\ forgotten' = forgotten \union
                        (IF k > Len(ring) THEN {} ELSE {ring[k].nonce})

----------------------------------------------------------------------------
(* Issuing and verifying *)

\* ai_confirmation_create_bound_token, ai_confirmation_create_batch_token
Issue(n) ==
    /\ expiry[n] = 0
    /\ expiry' = [expiry EXCEPT ![n] = clock + Ttl]
    /\ UNCHANGED <<clock, ring, cursor, rows, undo, inserts, req, accepted,
                   undone, forgotten, overlapped>>

Goes(t, pc) == req' = [req EXCEPT ![t].pc = pc]
EndUse(t) == req' = [req EXCEPT ![t] = NoUse]

\* The checks before the nonce is consumed.  An expired token is refused, which
\* changes nothing.
Verify(t, n) ==
    /\ req[t].pc = "idle"
    /\ expiry[n] > clock
    /\ req' = [req EXCEPT ![t] = [pc |-> "ring", nonce |-> n, now |-> clock]]
    /\ overlapped' = overlapped \union
          (IF \E u \in Verifiers : u # t /\ req[u].pc # "idle" /\ req[u].nonce = n
           THEN {n} ELSE {})
    /\ UNCHANGED <<clock, expiry, ring, cursor, rows, undo, inserts, accepted,
                   undone, forgotten>>

\* 8.1: the ring, under its lock.
LookInRing(t) ==
    /\ req[t].pc = "ring"
    /\ IF InRing(req[t].nonce, req[t].now) THEN EndUse(t) ELSE Goes(t, "select")
    /\ UNCHANGED <<clock, expiry, ring, cursor, rows, undo, inserts, accepted,
                   undone, forgotten, overlapped>>

\* 8.2: the table.  A SELECT that fails counts as no row.
LookInTable(t) ==
    /\ req[t].pc = "select"
    /\ \/ /\ req[t].nonce \in rows /\ expiry[req[t].nonce] >= req[t].now
          /\ Goes(t, "backfill")
       \/ Goes(t, "insert")
    /\ UNCHANGED <<clock, expiry, ring, cursor, rows, undo, inserts, accepted,
                   undone, forgotten, overlapped>>

Backfill(t) ==
    /\ req[t].pc = "backfill"
    /\ Record(req[t].nonce)
    /\ EndUse(t)
    /\ UNCHANGED <<clock, expiry, rows, undo, inserts, accepted, undone, overlapped>>

\* Slip: the table has no primary key.
KeyIsFree_NoKey(n) == TRUE
\* The primary key of ai_consumed_nonces.
KeyIsFree(n) == n \notin rows

\* 8.3: the row.  A failure of any kind, the primary key's or another, counts
\* as a replay.
InsertNonce(t) ==
    /\ req[t].pc = "insert"
    /\ \/ EndUse(t) /\ UNCHANGED <<rows, inserts>>
       \/ /\ KeyIsFree(req[t].nonce)
          /\ rows' = rows \union {req[t].nonce}
          /\ inserts' = (inserts + 1) % GcEvery
          /\ Goes(t, IF inserts' = 0 THEN "clean" ELSE "record")
    /\ UNCHANGED <<clock, expiry, ring, cursor, undo, accepted, undone, forgotten, overlapped>>

\* The rows the clean-up leaves: those not yet expired for Grace seconds, by
\* the clock the request read when it began.
KeptRows(now) == {n \in rows : expiry[n] + Grace >= now}

Clean(t) ==
    /\ req[t].pc = "clean"
    /\ rows' \in {rows, KeptRows(req[t].now)}
    /\ Goes(t, "record")
    /\ UNCHANGED <<clock, expiry, ring, cursor, undo, inserts, accepted,
                   undone, forgotten, overlapped>>

\* 8.4: the ring again; the caller now carries the operation out.
Accept(t) ==
    /\ req[t].pc = "record"
    /\ Record(req[t].nonce)
    /\ accepted' = [accepted EXCEPT ![req[t].nonce] = IF @ = 0 THEN 1 ELSE 2]
    /\ EndUse(t)
    /\ UNCHANGED <<clock, expiry, rows, undo, inserts, undone, overlapped>>

----------------------------------------------------------------------------
(* The surroundings: other use cases on the same connection, time, restarts *)

ScopeOpens ==
    /\ undo = {} /\ Cardinality(undone) < MaxUndone
    /\ undo' = {rows}
    /\ UNCHANGED <<clock, expiry, ring, cursor, rows, inserts, req, accepted,
                   undone, forgotten, overlapped>>

ScopeCommits ==
    /\ undo # {}
    /\ undo' = {}
    /\ UNCHANGED <<clock, expiry, ring, cursor, rows, inserts, req, accepted,
                   undone, forgotten, overlapped>>

ScopeRollsBack ==
    /\ undo # {}
    /\ rows' = UNION undo
    /\ undone' = undone \union (rows \ UNION undo)
    /\ undo' = {}
    /\ UNCHANGED <<clock, expiry, ring, cursor, inserts, req, accepted, forgotten, overlapped>>

\* The ring and the requests die with the process; the database undoes the
\* scope that was open.
Restart ==
    /\ ring' = <<>> /\ cursor' = 1 /\ inserts' = 0
    /\ forgotten' = forgotten \union {ring[i].nonce : i \in DOMAIN ring}
    /\ req' = [t \in Verifiers |-> NoUse]
    /\ rows' = IF undo = {} THEN rows ELSE UNION undo
    /\ undone' = undone \union (rows \ rows')
    /\ undo' = {}
    /\ UNCHANGED <<clock, expiry, accepted, overlapped>>

\* A verification takes less time than the clean-up's grace.
TimePasses ==
    /\ clock < MaxTime
    /\ \A t \in Verifiers : req[t].pc # "idle" => clock + 1 <= req[t].now + Grace
    /\ clock' = clock + 1
    /\ UNCHANGED <<expiry, ring, cursor, rows, undo, inserts, req, accepted,
                   undone, forgotten, overlapped>>

UseStep(t) ==
    \/ \E n \in Nonces : Verify(t, n)
    \/ LookInRing(t) \/ LookInTable(t) \/ Backfill(t)
    \/ InsertNonce(t) \/ Clean(t) \/ Accept(t)

ConfNext ==
    \/ \E n \in Nonces : Issue(n)
    \/ \E t \in Verifiers : UseStep(t)
    \/ ScopeOpens \/ ScopeCommits \/ ScopeRollsBack
    \/ Restart
    \/ TimePasses

ConfSpec == ConfInit /\ [][ConfNext]_confVars

----------------------------------------------------------------------------
(* What the component promises *)

ConfTypes ==
    /\ clock \in 1 .. MaxTime
    /\ expiry \in [Nonces -> Nat]
    /\ ring \in Seq([nonce : Nonces, exp : Nat]) /\ Len(ring) <= RingSize
    /\ cursor \in 1 .. RingSize
    /\ rows \subseteq Nonces
    /\ undo \subseteq SUBSET Nonces
    /\ req \in [Verifiers -> {NoUse} \union
               [pc : {"ring", "select", "backfill", "insert", "clean", "record"},
                nonce : Nonces, now : 1 .. MaxTime]]
    /\ accepted \in [Nonces -> 0 .. 2]
    /\ undone \subseteq Nonces /\ forgotten \subseteq Nonces /\ overlapped \subseteq Nonces

\* A confirmation is carried out once.  It takes two mishaps to run it a second
\* time: another thread rolled the nonce's row back with its own scope; and the
\* ring lost the nonce before the token expired, or two requests for it passed
\* the ring at the same time, which releases its lock between the look and the
\* record.
SingleUse ==
    \A n \in Nonces : accepted[n] > 1 => n \in undone /\ n \in forgotten \union overlapped

=============================================================================
