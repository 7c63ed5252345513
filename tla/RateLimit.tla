------------------------------ MODULE RateLimit ------------------------------
(***************************************************************************)
(* The two request limiters of middlewares/rate_limit.c: the one of the    *)
(* authentication paths, keyed by path and address, and the one of /mcp,   *)
(* keyed by user.  Both are the same sliding window over a ring buffer     *)
(* shared by every key, so both are this module with other constants       *)
(* (Limit 10, RateRing 1024 and Limit 120, RateRing 256; Window 60).       *)
(*                                                                         *)
(* A request reads the clock before it takes the lock, so entries enter    *)
(* the ring out of order and with a stamp that may be up to MaxDelay old.  *)
(***************************************************************************)
EXTENDS Naturals, Sequences, FiniteSetsExt

CONSTANTS Handlers,     \* request workers
          Sources,     \* path and address, or user
          Limit,       \* RATE_LIMIT_MAX_REQS, MCP_RATE_MAX_PER_MIN
          Window,      \* RATE_LIMIT_WINDOW_SEC
          RateRing,    \* RATE_LIMIT_RING, MCP_RATE_RING
          MaxDelay,    \* seconds a worker can wait for the lock
          LastSecond   \* bound: the seconds the model lives

ASSUME LimitAssumption ==
  {Limit, Window, RateRing, MaxDelay, LastSecond} \subseteq Nat /\ RateRing # 0

VARIABLES second,      \* the wall clock
          asked,       \* asked[r]: the key and the clock r read, or <<>>
          hits,        \* ring, from ring_head on: [key, ts]
          admitted,    \* history: the requests let through, [key, at], while
                       \* overwrote is FALSE; those that no longer count are dropped
          overwrote    \* history: a full ring gave up its oldest entry

limitVars == <<second, asked, hits, admitted, overwrote>>

LimitInit == /\ second = 1
             /\ asked = [r \in Handlers |-> <<>>]
             /\ hits = <<>>
             /\ admitted = <<>>
             /\ overwrote = FALSE

(* now = time(NULL), before the lock *)
Arrive(r, k) ==
  /\ asked[r] = <<>>
  /\ asked' = [asked EXCEPT ![r] = <<k, second>>]
  /\ UNCHANGED <<second, hits, admitted, overwrote>>

(* InWindow that takes the last second of the window for outside it. *)
InWindow_Short(e, now) == now < e.ts + Window

InWindow(e, now) == now <= e.ts + Window

FromFirst(s, live) == IF live = {} THEN <<>> ELSE SubSeq(s, Min(live), Len(s))

(* evict_old stops at the first entry that is still in the window, *)
(* though an older one may stand behind it.                        *)
EvictOld(s, now) == FromFirst(s, {i \in DOMAIN s : InWindow(s[i], now)})

Matches(s, k, now) == {i \in DOMAIN s : s[i].key = k /\ InWindow(s[i], now)}

(* A full ring gives up its oldest entry for the new one. *)
Enter(s, e) == Append(IF Len(s) >= RateRing THEN Tail(s) ELSE s, e)

(* The body under the lock. *)
Decide(r) ==
  /\ asked[r] # <<>>
  /\ LET k == asked[r][1]
         now == asked[r][2]
         kept == EvictOld(hits, now)
         over == Cardinality(Matches(kept, k, now)) >= Limit
     IN  /\ hits' = IF over THEN kept ELSE Enter(kept, [key |-> k, ts |-> now])
         /\ overwrote' = (overwrote \/ (~over /\ Len(kept) >= RateRing))
         /\ admitted' = IF overwrote' THEN <<>>
                        ELSE IF over THEN admitted
                        ELSE Append(admitted, [key |-> k, at |-> second])
  /\ asked' = [asked EXCEPT ![r] = <<>>]
  /\ UNCHANGED second

(* A request let through is in the window at s, less the time requests can   *)
(* wait for the lock.                                                        *)
StillCounts(a, s) == a.at + Window >= s + MaxDelay

(* No request waits for the lock longer than MaxDelay. *)
TickSecond ==
  /\ second < LastSecond
  /\ \A r \in Handlers : asked[r] # <<>> => second < asked[r][2] + MaxDelay
  /\ second' = second + 1
  /\ admitted' = FromFirst(admitted, {i \in DOMAIN admitted : StillCounts(admitted[i], second')})
  /\ UNCHANGED <<asked, hits, overwrote>>

LimitNext == TickSecond \/ \E r \in Handlers : Decide(r) \/ \E k \in Sources : Arrive(r, k)
LimitSpec == LimitInit /\ [][LimitNext]_limitVars

Counted(k) == {i \in DOMAIN admitted : admitted[i].key = k /\ StillCounts(admitted[i], second)}

(* Whichever order the workers get the lock in, no key is let through more   *)
(* than Limit times within the window, less the time a request can wait for  *)
(* the lock, unless the ring, which all keys share, gave up a live entry:    *)
(* eviction from the head only never drops an entry that still counts, and   *)
(* a stale entry left behind the head is not counted.                        *)
LimitHolds == overwrote \/ \A k \in Sources : Cardinality(Counted(k)) <= Limit
=============================================================================
