------------------------------ MODULE Sessions ------------------------------
(***************************************************************************)
(* Who is let in: accounts with a token version (application/auth), tokens *)
(* that carry the version their login read, and the middleware's cache of  *)
(* versions (middlewares/jwt_middleware.c), which request threads look up  *)
(* and fill with the database read in between and no lock held.            *)
(*                                                                         *)
(* A password change asks for every earlier token to be refused; the cache *)
(* may put that off by its TTL and not by more.                            *)
(***************************************************************************)
EXTENDS Naturals, FiniteSets

CONSTANTS
    Users,       \* accounts
    Requests,    \* request threads
    CacheTtl,    \* TOKEN_VERSION_CACHE_TTL_SEC
    CacheSlots,  \* TOKEN_VERSION_CACHE_MAX_USERS
    MaxVersion,  \* bound on the changes of password
    MaxNow       \* bound on the clock

ASSUME SessionsAssumption == CacheTtl \in Nat \ {0} /\ MaxVersion \in Nat /\ MaxNow \in Nat

VARIABLES
    now,         \* CLOCK_MONOTONIC
    version,     \* users.token_version, Absent before the account is registered
    ended,       \* [user, version] -> when it stopped being the current one
    issued,      \* tokens given out: [user, version]
    cache,       \* g_tv_cache[0 .. g_tv_cache_count - 1]
    request      \* what each thread is doing

sessVars == <<now, version, ended, issued, cache, request>>

Absent == MaxVersion + 1
NotEnded == MaxNow + 1
Versions == 0 .. MaxVersion
Resting == [at |-> "rest"]

SessInit ==
    /\ now = 0
    /\ version = [u \in Users |-> Absent]
    /\ ended = [u \in Users |-> [v \in Versions |-> NotEnded]]
    /\ issued = {}
    /\ cache = {}
    /\ request = [r \in Requests |-> Resting]

Token(u, v) == [user |-> u, version |-> v]

----------------------------------------------------------------------------
(* Accounts *)

\* The name is free and the row is inserted; the first token has version 0.
Register(u) ==
    /\ version[u] = Absent
    /\ version' = [version EXCEPT ![u] = 0]
    /\ issued' = issued \union {Token(u, 0)}
    /\ UNCHANGED <<now, ended, cache, request>>

\* The row is read, then the password is checked, which takes its time: the
\* token carries the version of the row, which may have been raised since.
Login(u) ==
    /\ version[u] # Absent
    /\ \E v \in 0 .. version[u] : issued' = issued \union {Token(u, v)}
    /\ UNCHANGED <<now, version, ended, cache, request>>

\* The password is replaced, then the version is raised; a failure of either
\* statement is not looked at.
ChangePassword(u) ==
    /\ version[u] < MaxVersion
    /\ version' = [version EXCEPT ![u] = @ + 1]
    /\ ended' = [ended EXCEPT ![u][version[u]] = now]
    /\ UNCHANGED <<now, issued, cache, request>>

----------------------------------------------------------------------------
(* jwt_validate_version_num *)

Hits(t) == {e \in cache : /\ e.user = t.user /\ e.expire > now
                          /\ e.found /\ e.version = t.version}

Start(r, t) ==
    /\ request[r] = Resting
    /\ request' = [request EXCEPT ![r] =
          [at    |-> IF Hits(t) # {} THEN "accepted" ELSE "query",
           token |-> t, since |-> now]]
    /\ UNCHANGED <<now, version, ended, issued, cache>>

\* One SELECT; when it fails the row counts as absent.
Query(r) ==
    /\ request[r].at = "query"
    /\ \E found \in BOOLEAN :
          request' = [request EXCEPT ![r] =
             [at    |-> "store",
              token |-> request[r].token, since |-> request[r].since, found |-> found,
              read  |-> IF found THEN version[request[r].token.user] ELSE 0]]
    /\ UNCHANGED <<now, version, ended, issued, cache>>

\* Slip: the entry's life begins when it is stored.
Expiry_FromStore(r) == now + CacheTtl

\* now_ms was taken before the lookup.
Expiry(r) == request[r].since + CacheTtl

\* The user's slot, a new one, or another user's when the table is full.
SlotsFor(u) == IF \E e \in cache : e.user = u THEN {e \in cache : e.user = u}
            ELSE IF Cardinality(cache) < CacheSlots THEN {}
            ELSE cache

Store(r) ==
    /\ request[r].at = "store"
    /\ LET q == request[r]
           entry == [user |-> q.token.user, version |-> q.read, found |-> q.found,
                     expire |-> Expiry(r)]
           accept == q.found /\ q.read = q.token.version IN
       /\ \/ SlotsFor(q.token.user) = {} /\ cache' = cache \union {entry}
          \/ \E e \in SlotsFor(q.token.user) : cache' = (cache \ {e}) \union {entry}
       /\ request' = [request EXCEPT ![r] =
             IF accept THEN [at |-> "accepted", token |-> q.token, since |-> q.since]
                       ELSE Resting]
    /\ UNCHANGED <<now, version, ended, issued>>

Handled(r) ==
    /\ request[r].at = "accepted"
    /\ request' = [request EXCEPT ![r] = Resting]
    /\ UNCHANGED <<now, version, ended, issued, cache>>

Tick ==
    /\ now < MaxNow
    /\ now' = now + 1
    /\ UNCHANGED <<version, ended, issued, cache, request>>

SessNext ==
    \/ \E u \in Users : Register(u) \/ Login(u) \/ ChangePassword(u)
    \/ \E r \in Requests :
          \/ \E t \in issued : Start(r, t)
          \/ Query(r) \/ Store(r) \/ Handled(r)
    \/ Tick

SessSpec == SessInit /\ [][SessNext]_sessVars

----------------------------------------------------------------------------
\* A token a password change has revoked is refused to every request that
\* begins CacheTtl or more after the change, whatever the threads that fill the
\* cache were doing meanwhile and whichever slot they overwrote ("a 5 s TTL
\* bounds staleness"; "never a wrong answer").
RevokedWithinTtl ==
    \A r \in Requests : request[r].at = "accepted" =>
        LET t == request[r].token IN
        ended[t.user][t.version] = NotEnded \/ request[r].since < ended[t.user][t.version] + CacheTtl

=============================================================================
