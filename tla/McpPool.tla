------------------------------- MODULE McpPool -------------------------------
(***************************************************************************)
(* The pool of MCP child processes (tools/mcp/mcp_stdio_pool.c).  A tool   *)
(* call acquires a client for its (user, server), uses it without the      *)
(* lock and releases it.  The table is compacted by moving its last entry  *)
(* into the hole, and a handshake runs outside the lock with nothing but   *)
(* the index of its placeholder: that index is stale as soon as another    *)
(* entry is removed.                                                       *)
(*                                                                         *)
(* last_used has a resolution of one second, so that any idle entry may be *)
(* the oldest and any idle entry may have outlived its TTL.                *)
(***************************************************************************)
EXTENDS Naturals, Sequences, FiniteSets

CONSTANTS
    Callers,     \* threads that dispatch MCP tools
    Keys,        \* (user_id, server_id) pairs
    Clients,     \* child processes: a start beyond them fails
    MaxProcs,    \* MINEFOLIO_MCP_STDIO_MAX_PROCS
    Reloads      \* bound: how often the AI settings are saved

Empty == 0

\* Empty is neither a key nor a process.
ASSUME PoolAssumption == /\ Empty \notin Keys /\ Empty \notin Clients
                         /\ MaxProcs \in Nat /\ Reloads \in Nat

VARIABLES
    slots,       \* s_pool[0 .. s_pool_count - 1]
    live,        \* client -> the key it was spawned for, Empty when freed
    caller,      \* what each caller is doing
    reloads,     \* settings saved so far
    moved,       \* an entry a caller still relies on was moved or dropped
    wrapped      \* s_pool_count was decremented from 0

poolVars == <<slots, live, caller, reloads, moved, wrapped>>

NoCall == [pc |-> "idle"]

PoolInit ==
    /\ slots = <<>>
    /\ live = [c \in Clients |-> Empty]
    /\ caller = [t \in Callers |-> NoCall]
    /\ reloads = 0
    /\ moved = FALSE
    /\ wrapped = FALSE

----------------------------------------------------------------------------
(* The table *)

\* Slip: a busy entry is handed out again.
Ready_Busy(k) == {i \in DOMAIN slots : slots[i].key = k /\ ~slots[i].pending}

\* find_idle_slot, find_in_progress_slot
Ready(k) == {i \in DOMAIN slots :
                slots[i].key = k /\ ~slots[i].inUse /\ ~slots[i].pending}
Pending(k) == {i \in DOMAIN slots : slots[i].key = k /\ slots[i].pending}
Evictable == {i \in DOMAIN slots : ~slots[i].inUse /\ ~slots[i].pending}

\* The table is searched from its beginning.
First(S) == CHOOSE i \in S : \A j \in S : i <= j

\* s_pool[i] = s_pool[--s_pool_count].  An index past the end writes into
\* memory nobody reads.
Compacted(s, i) ==
    LET n == Len(s) IN
    SubSeq([j \in DOMAIN s |-> IF j = i THEN s[n] ELSE s[j]], 1, n - 1)

Freed(c) == [live EXCEPT ![c] = Empty]

\* A process that is neither running nor known to anybody.
Unused == {c \in Clients :
              /\ live[c] = Empty
              /\ \A i \in DOMAIN slots : slots[i].client # c
              /\ \A t \in Callers : caller[t].pc = "using" => caller[t].client # c}
Fresh == CHOOSE c \in Unused : TRUE

Using(k, c) == [pc |-> "using", key |-> k, client |-> c]

\* Removing entry i moves the placeholder of a handshake that is under way.
MovesPlaceholder(i) ==
    \E u \in Callers : /\ caller[u].pc = "handshake"
                       /\ caller[u].slot = Len(slots)
                       /\ caller[u].slot # i

----------------------------------------------------------------------------
(* mf_mcp_stdio_pool_acquire *)

AcquireReady(t, k) ==
    /\ caller[t].pc = "idle"
    /\ Ready(k) # {}
    /\ LET i == First(Ready(k)) IN
       /\ slots' = [slots EXCEPT ![i].inUse = TRUE]
       /\ caller' = [caller EXCEPT ![t] = Using(k, slots[i].client)]
    /\ UNCHANGED <<live, reloads, moved, wrapped>>

\* Another thread shakes hands for the same key, or the pool is full of busy
\* entries: a client outside the pool.
AcquireShortLived(t, k) ==
    /\ caller[t].pc = "idle"
    /\ Ready(k) = {}
    /\ \/ Pending(k) # {}
       \/ Len(slots) >= MaxProcs /\ Evictable = {}
    /\ caller' = [caller EXCEPT ![t] = [pc |-> "short", key |-> k]]
    /\ UNCHANGED <<slots, live, reloads, moved, wrapped>>

\* What a search for an idle entry may come up with.  With the count at SIZE_MAX
\* it runs over entries long gone and whatever lies behind the table, until
\* something matches or the server goes down.
Offered(k) == IF wrapped THEN Clients ELSE {slots[i].client : i \in Ready(k)}

AcquireStray(t, k) ==
    /\ caller[t].pc = "idle"
    /\ wrapped
    /\ \E c \in Offered(k) : caller' = [caller EXCEPT ![t] = Using(k, c)]
    /\ UNCHANGED <<slots, live, reloads, moved, wrapped>>

Reserved(k) == [key |-> k, client |-> Empty, inUse |-> TRUE, pending |-> TRUE]

Reserve(t, k) ==
    /\ caller[t].pc = "idle"
    /\ ~wrapped
    /\ Ready(k) = {} /\ Pending(k) = {}
    /\ \/ /\ Len(slots) < MaxProcs
          /\ slots' = Append(slots, Reserved(k))
          /\ UNCHANGED <<live, moved>>
       \/ /\ Len(slots) >= MaxProcs
          /\ \E i \in Evictable :
                /\ slots' = Append(Compacted(slots, i), Reserved(k))
                /\ moved' = (moved \/ MovesPlaceholder(i))
                /\ live' = Freed(slots[i].client)
    /\ caller' = [caller EXCEPT ![t] =
                   [pc |-> "handshake", key |-> k, slot |-> Len(slots')]]
    /\ UNCHANGED <<reloads, wrapped>>

\* The process starts and answers; phase 3 fills the placeholder by its index.
HandshakeDone(t) ==
    /\ caller[t].pc = "handshake"
    /\ Unused # {}
    /\ LET i == caller[t].slot IN
       slots' = IF i \in DOMAIN slots
                THEN [slots EXCEPT ![i].client = Fresh, ![i].pending = FALSE]
                ELSE slots
    /\ live' = [live EXCEPT ![Fresh] = caller[t].key]
    /\ caller' = [caller EXCEPT ![t] = Using(caller[t].key, Fresh)]
    /\ UNCHANGED <<reloads, moved, wrapped>>

\* It does not: the placeholder is given back by its index.  When a shutdown
\* has emptied the table meanwhile, the unsigned count goes below zero.
HandshakeFails(t) ==
    /\ caller[t].pc = "handshake"
    /\ IF slots = <<>>
       THEN wrapped' = TRUE /\ UNCHANGED <<slots, moved>>
       ELSE /\ slots' = Compacted(slots, caller[t].slot)
            /\ moved' = (moved \/ MovesPlaceholder(caller[t].slot))
            /\ UNCHANGED wrapped
    /\ caller' = [caller EXCEPT ![t] = NoCall]
    /\ UNCHANGED <<live, reloads>>

ShortLivedStarts(t) ==
    /\ caller[t].pc = "short"
    /\ \/ /\ Unused # {}
          /\ live' = [live EXCEPT ![Fresh] = caller[t].key]
          /\ caller' = [caller EXCEPT ![t] = Using(caller[t].key, Fresh)]
       \/ /\ caller' = [caller EXCEPT ![t] = NoCall]
          /\ UNCHANGED live
    /\ UNCHANGED <<slots, reloads, moved, wrapped>>

----------------------------------------------------------------------------
(* ReleaseClient, eviction, shutdown *)

SlotsOf(c) == {i \in DOMAIN slots : slots[i].client = c}

\* A client that is not in the table is closed; a search past the table finds it.
ReleaseClient(t) ==
    /\ caller[t].pc = "using"
    /\ LET c == caller[t].client IN
       IF SlotsOf(c) # {}
       THEN LET i == First(SlotsOf(c)) IN
            /\ slots' = [slots EXCEPT ![i].inUse = FALSE]
            /\ UNCHANGED live
       ELSE live' = (IF wrapped THEN live ELSE Freed(c)) /\ UNCHANGED slots
    /\ caller' = [caller EXCEPT ![t] = NoCall]
    /\ UNCHANGED <<reloads, moved, wrapped>>

\* One entry of mf_mcp_stdio_pool_evict_idle, called by the scheduler.
EvictIdle ==
    /\ \E i \in Evictable :
          /\ slots' = Compacted(slots, i)
          /\ live' = Freed(slots[i].client)
          /\ moved' = (moved \/ MovesPlaceholder(i))
    /\ UNCHANGED <<caller, reloads, wrapped>>

\* Slip: the entries stay when their clients are freed.
Shutdown_KeepsTable ==
    /\ reloads < Reloads
    /\ reloads' = reloads + 1
    /\ live' = [c \in Clients |-> IF SlotsOf(c) # {} THEN Empty ELSE live[c]]
    /\ moved' = (moved \/ \E t \in Callers : caller[t].pc \in {"handshake", "using"})
    /\ UNCHANGED <<slots, caller, wrapped>>

\* mf_mcp_stdio_pool_shutdown, run by ai_shutdown when the AI settings are
\* saved: every entry goes, in use or not.  With the count below zero it frees
\* what lies around the table and does not come back.
Shutdown ==
    /\ reloads < Reloads /\ ~wrapped
    /\ reloads' = reloads + 1
    /\ slots' = <<>>
    /\ live' = [c \in Clients |-> IF SlotsOf(c) # {} THEN Empty ELSE live[c]]
    /\ moved' = (moved \/ \E t \in Callers : caller[t].pc \in {"handshake", "using"})
    /\ UNCHANGED <<caller, wrapped>>

Call(t) ==
    \/ \E k \in Keys : AcquireReady(t, k) \/ AcquireShortLived(t, k) \/ Reserve(t, k)
                       \/ AcquireStray(t, k)
    \/ HandshakeDone(t) \/ HandshakeFails(t) \/ ShortLivedStarts(t)
    \/ ReleaseClient(t)

PoolNext == (\E t \in Callers : Call(t)) \/ EvictIdle \/ Shutdown

PoolSpec == PoolInit /\ [][PoolNext]_poolVars

----------------------------------------------------------------------------
Entries == [key : Keys, client : Clients \union {Empty}, inUse : BOOLEAN, pending : BOOLEAN]

PoolTypeOK ==
    /\ slots \in Seq(Entries)
    /\ Len(slots) <= MaxProcs
    /\ live \in [Clients -> Keys \union {Empty}]
    /\ reloads \in 0 .. Reloads
    /\ moved \in BOOLEAN /\ wrapped \in BOOLEAN

\* Nobody talks to a process that was terminated.
NoUseAfterFree == \A t \in Callers : caller[t].pc = "using" => live[caller[t].client] # Empty

\* A client has one user at a time: its pipe carries one conversation.
OneHolder ==
    \A t, u \in Callers :
        t # u /\ caller[t].pc = "using" /\ caller[u].pc = "using"
            => caller[t].client # caller[u].client

\* A caller talks to the server it asked for, as the user it acts for: the
\* header of the pool says that acquire returns the client of (user, server).
RightServer ==
    \A t \in Callers : caller[t].pc = "using" => live[caller[t].client] \in {Empty, caller[t].key}

\* As long as no removal has moved an entry somebody relies on, the pool hands
\* out live processes, each to one caller at a time, of the server asked for;
\* and it loses none: what runs is in the table or in a caller's hands.
SoundUntilMoved ==
    ~moved =>
        /\ NoUseAfterFree /\ OneHolder /\ RightServer
        /\ \A c \in Clients : live[c] # Empty =>
               \/ \E i \in DOMAIN slots : slots[i].client = c
               \/ \E t \in Callers : caller[t].pc = "using" /\ caller[t].client = c

\* Whatever is moved, an entry another caller may take is a process that runs:
\* neither a release nor a compaction leaves a dead client up for reuse.  When a
\* failed handshake takes the count below zero, the pool promises nothing.
OfferedIsAlive == ~wrapped => \A k \in Keys : \A c \in Offered(k) : live[c] # Empty

=============================================================================
