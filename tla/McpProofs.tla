----------------------------- MODULE McpProofs -----------------------------
(***************************************************************************)
(* The pool of MCP processes, for any callers, keys, processes, size of    *)
(* the pool and number of reloads.  Two facts hold whatever happens: no    *)
(* process is in two entries, and the process of an entry runs.  The rest  *)
(* holds until an entry somebody relies on is moved, which the history     *)
(* variable moved records: a handshake finds its placeholder at its index, *)
(* and who uses a process is alone with it.  The count of the table goes   *)
(* below zero only after that.                                             *)
(*                                                                         *)
(* And one client of the pool, for any length of the lines, blocks and     *)
(* frames and any number of calls: that answers stay in step with calls.   *)
(***************************************************************************)
EXTENDS McpPool, McpClient, WellFoundedInduction, SequenceTheorems, TLAPS

-----------------------------------------------------------------------------
(* The invariant                                                             *)

\* What a caller holds.
Hands == {NoCall} \union [pc : {"short"}, key : Keys]
         \union [pc : {"handshake"}, key : Keys, slot : Nat \ {0}]
         \union [pc : {"using"}, key : Keys, client : Clients]
PoolTypes == PoolTypeOK /\ caller \in [Callers -> Hands]

(* Of a table s, the keys run that the processes run for, and what the callers *)
(* hold.  No process is in two entries, and those in the table run, whatever   *)
(* moved.                                                                      *)
InOneEntry(s) ==
    \A i, j \in DOMAIN s : s[i].client # Empty /\ s[i].client = s[j].client => i = j
EntriesRun(s, run) ==
    \A i \in DOMAIN s : IF s[i].pending THEN s[i].client = Empty
                                        ELSE s[i].client # Empty /\ run[s[i].client] # Empty

(* Until an entry somebody relies on is moved: a handshake has a placeholder   *)
(* of its own, ...                                                             *)
Handshakes(s, hold) ==
    \A t \in Callers : hold[t].pc = "handshake" =>
        /\ hold[t].slot \in DOMAIN s
        /\ s[hold[t].slot].pending /\ s[hold[t].slot].key = hold[t].key
        /\ \A u \in Callers : u # t /\ hold[u].pc = "handshake" => hold[u].slot # hold[t].slot

(* ... the other entries have the process of their key, ...                    *)
EntriesRight(s, run) ==
    \A i \in DOMAIN s : IF s[i].pending THEN s[i].inUse ELSE run[s[i].client] = s[i].key

(* ... and who uses a process is alone with it, in the table or out of it.     *)
UsersRight(s, run, hold) ==
    \A t \in Callers : hold[t].pc = "using" =>
        /\ run[hold[t].client] = hold[t].key
        /\ \A i \in DOMAIN s : s[i].client = hold[t].client => s[i].inUse
        /\ \A u \in Callers : u # t /\ hold[u].pc = "using" => hold[u].client # hold[t].client
NoneLeaked(s, run, hold) ==
    \A c \in Clients : run[c] # Empty => \/ \E i \in DOMAIN s : s[i].client = c
                                         \/ \E t \in Callers : hold[t].pc = "using" /\ hold[t].client = c

Sound(s, run)  == s \in Seq(Entries) /\ InOneEntry(s) /\ EntriesRun(s, run)
Steady(s, run, hold) == /\ Handshakes(s, hold) /\ EntriesRight(s, run)
                        /\ UsersRight(s, run, hold) /\ NoneLeaked(s, run, hold)
PoolInv == /\ PoolTypes /\ Sound(slots, live) /\ (~moved => Steady(slots, live, caller))
           /\ (wrapped => moved)

-----------------------------------------------------------------------------
(* What the helpers return                                                   *)

(* A set of positions has a first one.                                       *)
LEMMA FirstOf ==
  ASSUME NEW S \in SUBSET Nat, S # {}
  PROVE  First(S) \in S
  <1>1. \A x, y \in Nat : <<y, x>> \in OpToRel(<, Nat) <=> y < x
    BY DEF OpToRel
  <1>2. \E x \in S : \A y \in S : ~ (<<y, x>> \in OpToRel(<, Nat))
    BY NatLessThanWellFounded, WFMin
  <1>3. PICK x \in S : \A y \in S : ~ (y < x)
    BY <1>1, <1>2
  <1>4. \A y \in S : x <= y
    BY <1>3
  <1> QED BY <1>4 DEF First

LEMMA Table ==
  ASSUME PoolTypes
  PROVE  /\ slots \in Seq(Entries) /\ Len(slots) \in Nat /\ DOMAIN slots = 1 .. Len(slots)
         /\ \A i \in DOMAIN slots : slots[i] \in Entries
         /\ live \in [Clients -> Keys \union {Empty}]
  BY DEF PoolTypes, PoolTypeOK

(* Compaction takes one entry out; the last takes its place.                 *)
LEMMA CompactedTable ==
  ASSUME NEW s \in Seq(Entries), s # << >>, NEW i \in Nat \ {0}
  PROVE  /\ Compacted(s, i) \in Seq(Entries)
         /\ Len(s) \in Nat \ {0} /\ Len(Compacted(s, i)) = Len(s) - 1
         /\ \A j \in 1 .. Len(s) - 1 : Compacted(s, i)[j] = IF j = i THEN s[Len(s)] ELSE s[j]
  <1> DEFINE n == Len(s)
             f == [j \in DOMAIN s |-> IF j = i THEN s[n] ELSE s[j]]
  <1>1. n \in Nat \ {0} /\ DOMAIN s = 1 .. n /\ \A j \in 1 .. n : s[j] \in Entries
    BY EmptySeq, LenProperties
  <1>2. \A j \in 1 .. n : f[j] \in Entries
    BY <1>1
  <1>3. Compacted(s, i) = SubSeq(f, 1, n - 1)
    BY DEF Compacted
  <1>a. \A j \in 1 .. n - 1 : f[j] = IF j = i THEN s[n] ELSE s[j]
    BY <1>1
  <1> HIDE DEF f
  <1>0. n - 1 \in Nat
    BY <1>1
  <1>4. PICK m \in Nat : m = n - 1
    BY <1>0
  <1>b. 1 \in Int /\ m \in Int /\ \A j \in 1 .. m : f[j] \in Entries
    BY <1>1, <1>2, <1>4
  <1>5. /\ SubSeq(f, 1, m) \in Seq(Entries)
        /\ Len(SubSeq(f, 1, m)) = IF 1 <= m THEN m - 1 + 1 ELSE 0
        /\ \A j \in 1 .. m - 1 + 1 : SubSeq(f, 1, m)[j] = f[1 + j - 1]
    BY <1>b, SubSeqProperties
  <1>6. /\ Len(SubSeq(f, 1, m)) = m
        /\ \A j \in 1 .. m : SubSeq(f, 1, m)[j] = f[j]
    BY <1>5
  <1> QED BY <1>1, <1>3, <1>4, <1>5, <1>6, <1>a

(* Where the entries of the compacted table come from, and where those of    *)
(* the table went.                                                           *)
LEMMA CompactedFrom ==
  ASSUME NEW s \in Seq(Entries), s # << >>, NEW i \in Nat \ {0}
  PROVE  LET r == Compacted(s, i) IN
         /\ DOMAIN r = 1 .. Len(s) - 1 /\ DOMAIN s = 1 .. Len(s)
         /\ \A j \in DOMAIN r : \E k \in DOMAIN s :
               k # i /\ r[j] = s[k] /\ k = IF j = i THEN Len(s) ELSE j
         /\ \A k \in DOMAIN s : k # i /\ (k # Len(s) \/ i \in DOMAIN s) =>
               \E j \in DOMAIN r : r[j] = s[k]
         /\ \A k \in DOMAIN s : k # i /\ k # Len(s) => k \in DOMAIN r /\ r[k] = s[k]
  <1> DEFINE r == Compacted(s, i)
             n == Len(s)
  <1>1. /\ n \in Nat \ {0} /\ DOMAIN s = 1 .. n /\ DOMAIN r = 1 .. n - 1
        /\ \A j \in 1 .. n - 1 : r[j] = IF j = i THEN s[n] ELSE s[j]
    BY CompactedTable, LenProperties
  <1> HIDE DEF r, n
  <1>2. ASSUME NEW j \in DOMAIN r
        PROVE  \E k \in DOMAIN s : k # i /\ r[j] = s[k] /\ k = IF j = i THEN n ELSE j
    <2>1. CASE j = i
      <3>1. n \in DOMAIN s /\ n # i /\ r[j] = s[n]
        BY <1>1, <1>2, <2>1
      <3> QED BY <2>1, <3>1
    <2>2. CASE j # i
      <3>1. j \in DOMAIN s /\ r[j] = s[j]
        BY <1>1, <1>2, <2>2
      <3> QED BY <2>2, <3>1
    <2> QED BY <2>1, <2>2
  <1>3. ASSUME NEW k \in DOMAIN s, k # i, k # n
        PROVE  k \in DOMAIN r /\ r[k] = s[k]
    BY <1>1, <1>3
  <1>4. ASSUME NEW k \in DOMAIN s, k # i, k = n, i \in DOMAIN s
        PROVE  \E j \in DOMAIN r : r[j] = s[k]
    <2>1. i \in DOMAIN r /\ r[i] = s[n]
      BY <1>1, <1>4
    <2> QED BY <1>4, <2>1
  <1> QED BY <1>1, <1>2, <1>3, <1>4 DEF r, n

LEMMA AppendTable ==
  ASSUME NEW s \in Seq(Entries), NEW e \in Entries
  PROVE  /\ Append(s, e) \in Seq(Entries) /\ Len(Append(s, e)) = Len(s) + 1
         /\ DOMAIN s = 1 .. Len(s) /\ Len(s) \in Nat
         /\ DOMAIN Append(s, e) = 1 .. Len(s) + 1
         /\ \A j \in 1 .. Len(s) : Append(s, e)[j] = s[j]
         /\ Append(s, e)[Len(s) + 1] = e
  BY AppendProperties, LenProperties

LEMMA FreshIsUnused == Unused # {} => Fresh \in Unused
  BY DEF Fresh

(* A step of one caller.                                                     *)
LEMMA CallerSet ==
  ASSUME PoolTypes, NEW t \in Callers, NEW hand \in Hands,
         caller' = [caller EXCEPT ![t] = hand]
  PROVE  /\ caller' \in [Callers -> Hands] /\ caller'[t] = hand
         /\ \A u \in Callers : u # t => caller'[u] = caller[u]
  BY DEF PoolTypes

LEMMA HandsOf ==
  ASSUME PoolTypes, NEW t \in Callers
  PROVE  /\ caller[t].pc \in {"idle", "short", "handshake", "using"}
         /\ caller[t].pc \in {"short", "handshake", "using"} => caller[t].key \in Keys
         /\ caller[t].pc = "handshake" => caller[t].slot \in Nat \ {0}
         /\ caller[t].pc = "using" => caller[t].client \in Clients
  <1>1. caller[t] \in Hands
    BY DEF PoolTypes
  <1> QED BY <1>1 DEF Hands, NoCall

LEMMA HandTyped ==
  ASSUME NEW k \in Keys
  PROVE  /\ NoCall \in Hands /\ NoCall.pc = "idle"
         /\ [pc |-> "short", key |-> k] \in Hands
         /\ \A i \in Nat \ {0} : [pc |-> "handshake", key |-> k, slot |-> i] \in Hands
         /\ \A c \in Clients : Using(k, c) \in Hands
  BY DEF Hands, NoCall, Using

-----------------------------------------------------------------------------
(* Taking an entry out of the table, and a placeholder into it               *)

LEMMA CompactionSound ==
  ASSUME NEW s, NEW run, Sound(s, run), s # << >>, NEW i \in Nat \ {0}
  PROVE  Sound(Compacted(s, i), run)
  <1> DEFINE r == Compacted(s, i)
  <1>1. r \in Seq(Entries)
    BY CompactedTable DEF Sound
  <1>2. \A j \in DOMAIN r : \E k \in DOMAIN s :
           r[j] = s[k] /\ k = IF j = i THEN Len(s) ELSE j
    BY CompactedFrom DEF Sound
  <1>3. DOMAIN r = 1 .. Len(s) - 1
    BY CompactedFrom DEF Sound
  <1>4. Len(s) \in Nat
    BY DEF Sound
  <1> HIDE DEF r
  <1>5. EntriesRun(r, run)
    BY <1>2 DEF Sound, EntriesRun
  <1>6. ASSUME NEW j \in DOMAIN r, NEW l \in DOMAIN r, r[j].client # Empty,
               r[j].client = r[l].client
        PROVE  j = l
    <2>1. PICK k \in DOMAIN s : r[j] = s[k] /\ k = IF j = i THEN Len(s) ELSE j
      BY <1>2
    <2>2. PICK m \in DOMAIN s : r[l] = s[m] /\ m = IF l = i THEN Len(s) ELSE l
      BY <1>2
    <2>3. k = m
      BY <1>6, <2>1, <2>2 DEF Sound, InOneEntry
    <2> QED BY <1>3, <1>4, <2>1, <2>2, <2>3
  <1> QED BY <1>1, <1>5, <1>6 DEF Sound, InOneEntry, r

(* The process of an entry that goes is freed: no other entry has it.        *)
LEMMA EvictionSound ==
  ASSUME NEW s, NEW run \in [Clients -> Keys \union {Empty}], Sound(s, run),
         NEW i \in DOMAIN s, ~ s[i].pending
  PROVE  /\ s[i].client \in Clients
         /\ Sound(Compacted(s, i), [run EXCEPT ![s[i].client] = Empty])
         /\ \A j \in DOMAIN Compacted(s, i) : Compacted(s, i)[j].client # s[i].client
  <1> DEFINE r == Compacted(s, i)
             c == s[i].client
  <1>1. s \in Seq(Entries) /\ s # << >> /\ i \in Nat \ {0} /\ s[i] \in Entries
    BY EmptySeq DEF Sound
  <1>2. c \in Clients
    BY <1>1 DEF Sound, EntriesRun, Entries
  <1>3. Sound(r, run)
    BY <1>1, CompactionSound
  <1>4. \A j \in DOMAIN r : \E k \in DOMAIN s : k # i /\ r[j] = s[k]
    BY <1>1, CompactedFrom
  <1> HIDE DEF r
  <1>5. c # Empty
    BY <1>2, PoolAssumption
  <1>6. \A j \in DOMAIN r : r[j].client # c
    BY <1>4, <1>5 DEF Sound, InOneEntry
  <1>7. \A j \in DOMAIN r : r[j] \in Entries
    BY <1>3 DEF Sound
  <1>8. ASSUME NEW j \in DOMAIN r, ~ r[j].pending
        PROVE  [run EXCEPT ![c] = Empty][r[j].client] = run[r[j].client]
    <2>1. r[j].client \in Clients
      BY <1>3, <1>7, <1>8 DEF Sound, EntriesRun, Entries
    <2> QED BY <1>6, <2>1
  <1>9. EntriesRun(r, [run EXCEPT ![c] = Empty])
    BY <1>3, <1>8 DEF Sound, EntriesRun
  <1> QED BY <1>2, <1>3, <1>6, <1>9 DEF Sound, r

LEMMA PlaceholderSound ==
  ASSUME NEW s, NEW run, Sound(s, run), NEW k \in Keys
  PROVE  Sound(Append(s, Reserved(k)), run)
  <1> DEFINE r == Append(s, Reserved(k))
  <1>1. Reserved(k) \in Entries /\ Reserved(k).client = Empty /\ Reserved(k).pending
    BY DEF Reserved, Entries
  <1>2. /\ r \in Seq(Entries) /\ DOMAIN r = 1 .. Len(s) + 1 /\ DOMAIN s = 1 .. Len(s)
        /\ Len(s) \in Nat
        /\ \A j \in 1 .. Len(s) : r[j] = s[j]
        /\ r[Len(s) + 1] = Reserved(k)
    BY <1>1, AppendTable DEF Sound
  <1> HIDE DEF r
  <1>3. \A j \in DOMAIN r : r[j] = Reserved(k) \/ (j \in DOMAIN s /\ r[j] = s[j])
    BY <1>2
  <1>4. EntriesRun(r, run)
    BY <1>1, <1>3 DEF Sound, EntriesRun
  <1>5. InOneEntry(r)
    BY <1>1, <1>3 DEF Sound, InOneEntry
  <1> QED BY <1>2, <1>4, <1>5 DEF Sound, r

(* The same of what holds until something moves.                             *)
LEMMA EvictionSteady ==
  ASSUME NEW s, NEW run \in [Clients -> Keys \union {Empty}], NEW hold \in [Callers -> Hands],
         Sound(s, run), Steady(s, run, hold),
         NEW i \in DOMAIN s, ~ s[i].pending, ~ s[i].inUse,
         \A t \in Callers : hold[t].pc = "handshake" => hold[t].slot # Len(s)
  PROVE  Steady(Compacted(s, i), [run EXCEPT ![s[i].client] = Empty], hold)
  <1> DEFINE r == Compacted(s, i)
             c == s[i].client
             after == [run EXCEPT ![c] = Empty]
  <1>1. /\ s \in Seq(Entries) /\ s # << >> /\ i \in Nat \ {0}
        /\ \A j \in DOMAIN s : s[j] \in Entries
    BY EmptySeq DEF Sound
  <1>2. c \in Clients /\ Sound(r, after) /\ \A j \in DOMAIN r : r[j].client # c
    BY EvictionSound
  <1>3. /\ \A j \in DOMAIN r : \E k \in DOMAIN s : k # i /\ r[j] = s[k]
        /\ \A k \in DOMAIN s : k # i => \E j \in DOMAIN r : r[j] = s[k]
        /\ \A k \in DOMAIN s : k # i /\ k # Len(s) => k \in DOMAIN r /\ r[k] = s[k]
    BY <1>1, CompactedFrom
  <1> HIDE DEF r
  <1>4. \A d \in Clients : after[d] = IF d = c THEN Empty ELSE run[d]
    OBVIOUS
  <1> HIDE DEF after
  <1>5. Handshakes(r, hold)
    <2> SUFFICES ASSUME NEW t \in Callers, hold[t].pc = "handshake"
                 PROVE  /\ hold[t].slot \in DOMAIN r
                        /\ r[hold[t].slot].pending /\ r[hold[t].slot].key = hold[t].key
                        /\ \A u \in Callers : u # t /\ hold[u].pc = "handshake" =>
                              hold[u].slot # hold[t].slot
      BY DEF Handshakes
    <2>1. hold[t].slot \in DOMAIN s /\ hold[t].slot # i /\ hold[t].slot # Len(s)
      BY DEF Steady, Handshakes
    <2>2. hold[t].slot \in DOMAIN r /\ r[hold[t].slot] = s[hold[t].slot]
      BY <1>3, <2>1
    <2> QED BY <2>2 DEF Steady, Handshakes
  <1>6. EntriesRight(r, after)
    <2> SUFFICES ASSUME NEW j \in DOMAIN r
                 PROVE  IF r[j].pending THEN r[j].inUse ELSE after[r[j].client] = r[j].key
      BY DEF EntriesRight
    <2>1. PICK k \in DOMAIN s : k # i /\ r[j] = s[k]
      BY <1>3
    <2>2. CASE r[j].pending
      BY <2>1, <2>2 DEF Steady, EntriesRight
    <2>3. CASE ~ r[j].pending
      <3>1. r[j].client # Empty /\ s[k] \in Entries
        BY <1>1, <2>1, <2>3 DEF Sound, EntriesRun
      <3>2. r[j].client \in Clients /\ r[j].client # c
        BY <1>2, <2>1, <3>1 DEF Entries
      <3> QED BY <1>4, <2>1, <2>3, <3>2 DEF Steady, EntriesRight
    <2> QED BY <2>2, <2>3
  <1>7. \A t \in Callers : hold[t].pc = "using" =>
           hold[t].client # c /\ after[hold[t].client] = run[hold[t].client]
    <2> SUFFICES ASSUME NEW t \in Callers, hold[t].pc = "using"
                 PROVE  hold[t].client # c /\ after[hold[t].client] = run[hold[t].client]
      OBVIOUS
    <2>1. hold[t].client # c
      BY DEF Steady, UsersRight
    <2>2. hold[t] \in Hands
      OBVIOUS
    <2>3. hold[t].client \in Clients
      BY <2>2 DEF Hands, NoCall
    <2> QED BY <1>4, <2>1, <2>3
  <1>8. UsersRight(r, after, hold)
    BY <1>3, <1>7 DEF Steady, UsersRight
  <1>9. NoneLeaked(r, after, hold)
    <2> SUFFICES ASSUME NEW d \in Clients, after[d] # Empty
                 PROVE  \/ \E j \in DOMAIN r : r[j].client = d
                        \/ \E t \in Callers : hold[t].pc = "using" /\ hold[t].client = d
      BY DEF NoneLeaked
    <2>1. d # c /\ run[d] # Empty
      BY <1>4
    <2>2. CASE \E k \in DOMAIN s : s[k].client = d
      BY <1>3, <2>1, <2>2
    <2> QED BY <2>1, <2>2 DEF Steady, NoneLeaked
  <1> QED BY <1>5, <1>6, <1>8, <1>9 DEF Steady, r, after

LEMMA PlaceholderSteady ==
  ASSUME NEW s, NEW run, NEW hold \in [Callers -> Hands], Sound(s, run), Steady(s, run, hold),
         NEW k \in Keys, NEW t \in Callers, hold[t].pc = "idle"
  PROVE  Steady(Append(s, Reserved(k)), run,
                [hold EXCEPT ![t] = [pc |-> "handshake", key |-> k, slot |-> Len(s) + 1]])
  <1> DEFINE r == Append(s, Reserved(k))
             mine == [pc |-> "handshake", key |-> k, slot |-> Len(s) + 1]
             now == [hold EXCEPT ![t] = mine]
  <1>1. /\ Reserved(k) \in Entries /\ Reserved(k).client = Empty /\ Reserved(k).pending
        /\ Reserved(k).inUse /\ Reserved(k).key = k
    BY DEF Reserved, Entries
  <1>2. /\ DOMAIN r = 1 .. Len(s) + 1 /\ DOMAIN s = 1 .. Len(s)
        /\ Len(s) \in Nat
        /\ \A j \in 1 .. Len(s) : r[j] = s[j]
        /\ r[Len(s) + 1] = Reserved(k)
    BY <1>1, AppendTable DEF Sound
  <1>3. now[t] = mine /\ \A u \in Callers : u # t => now[u] = hold[u]
    OBVIOUS
  <1>4. mine.pc = "handshake" /\ mine.key = k /\ mine.slot = Len(s) + 1
    OBVIOUS
  <1> HIDE DEF r, now, mine
  <1>5. \A j \in DOMAIN r : r[j] = Reserved(k) \/ (j \in DOMAIN s /\ r[j] = s[j])
    BY <1>2
  <1>6. \A j \in DOMAIN s : j \in DOMAIN r /\ r[j] = s[j] /\ j # Len(s) + 1
    BY <1>2
  <1>7. Handshakes(r, now)
    <2> SUFFICES ASSUME NEW u \in Callers, now[u].pc = "handshake"
                 PROVE  /\ now[u].slot \in DOMAIN r
                        /\ r[now[u].slot].pending /\ r[now[u].slot].key = now[u].key
                        /\ \A v \in Callers : v # u /\ now[v].pc = "handshake" =>
                              now[v].slot # now[u].slot
      BY DEF Handshakes
    <2>1. \A v \in Callers : v # t /\ now[v].pc = "handshake" =>
             /\ now[v] = hold[v] /\ hold[v].slot \in DOMAIN s /\ hold[v].slot # Len(s) + 1
      BY <1>3, <1>6 DEF Steady, Handshakes
    <2>2. CASE u = t
      BY <1>1, <1>2, <1>3, <1>4, <2>1, <2>2
    <2>3. CASE u # t
      <3>1. now[u] = hold[u] /\ hold[u].slot \in DOMAIN s
        BY <2>1, <2>3
      <3>2. /\ hold[u].slot \in DOMAIN r /\ r[hold[u].slot] = s[hold[u].slot]
        BY <1>6, <3>1
      <3>3. /\ s[hold[u].slot].pending /\ s[hold[u].slot].key = hold[u].key
            /\ \A v \in Callers : v # u /\ hold[v].pc = "handshake" =>
                  hold[v].slot # hold[u].slot
        BY <3>1 DEF Steady, Handshakes
      <3> QED BY <1>3, <1>4, <2>1, <2>3, <3>1, <3>2, <3>3
    <2> QED BY <2>2, <2>3
  <1>8. EntriesRight(r, run)
    BY <1>1, <1>5 DEF Steady, EntriesRight
  <1>9. \A u \in Callers : now[u].pc = "using" => u # t /\ now[u] = hold[u]
    BY <1>3, <1>4
  <1>10. UsersRight(r, run, now)
    <2> SUFFICES ASSUME NEW u \in Callers, now[u].pc = "using"
                 PROVE  /\ run[now[u].client] = now[u].key
                        /\ \A j \in DOMAIN r : r[j].client = now[u].client => r[j].inUse
                        /\ \A v \in Callers : v # u /\ now[v].pc = "using" =>
                              now[v].client # now[u].client
      BY DEF UsersRight
    <2> QED BY <1>1, <1>5, <1>9 DEF Steady, UsersRight
  <1>11. NoneLeaked(r, run, now)
    <2>1. \A u \in Callers : hold[u].pc = "using" => now[u] = hold[u]
      BY <1>3
    <2> QED BY <1>6, <2>1 DEF Steady, NoneLeaked
  <1> QED BY <1>7, <1>8, <1>10, <1>11 DEF Steady, r, now, mine

-----------------------------------------------------------------------------
(* The steps                                                                 *)

LEMMA PoolStart == PoolInit => PoolInv
  <1> SUFFICES ASSUME PoolInit PROVE PoolInv
    OBVIOUS
  <1>1. slots \in Seq(Entries) /\ Len(slots) = 0 /\ DOMAIN slots = {}
    BY EmptySeq DEF PoolInit
  <1>2. \A t \in Callers : caller[t].pc = "idle"
    BY DEF PoolInit, NoCall
  <1>3. PoolTypes
    <2>1. NoCall \in Hands
      BY DEF Hands
    <2>2. caller \in [Callers -> Hands]
      BY <2>1 DEF PoolInit
    <2>3. reloads = 0 /\ moved = FALSE /\ wrapped = FALSE
      BY DEF PoolInit
    <2>5. Len(slots) <= MaxProcs
      BY <1>1, PoolAssumption
    <2>6. reloads \in 0 .. Reloads
      BY <2>3, PoolAssumption
    <2>7. moved \in BOOLEAN /\ wrapped \in BOOLEAN
      BY <2>3
    <2>4. live \in [Clients -> Keys \union {Empty}]
      BY DEF PoolInit
    <2> QED BY <1>1, <2>2, <2>4, <2>5, <2>6, <2>7 DEF PoolTypes, PoolTypeOK
  <1>4. Sound(slots, live)
    BY <1>1 DEF Sound, InOneEntry, EntriesRun
  <1>5. Steady(slots, live, caller)
    BY <1>1, <1>2 DEF Steady, Handshakes, EntriesRight, UsersRight, NoneLeaked, PoolInit
  <1>6. ~ wrapped
    BY DEF PoolInit
  <1> QED BY <1>3, <1>4, <1>5, <1>6 DEF PoolInv

(* An entry whose flag of use changes is otherwise the same.                 *)
LEMMA FlagSet ==
  ASSUME PoolInv, NEW i \in DOMAIN slots, NEW b \in BOOLEAN,
         slots' = [slots EXCEPT ![i].inUse = b]
  PROVE  /\ slots' \in Seq(Entries) /\ Len(slots') = Len(slots) /\ DOMAIN slots' = DOMAIN slots
         /\ \A j \in DOMAIN slots : /\ slots'[j].client = slots[j].client
                                    /\ slots'[j].key = slots[j].key
                                    /\ slots'[j].pending = slots[j].pending
                                    /\ j # i => slots'[j].inUse = slots[j].inUse
         /\ slots'[i].inUse = b
         /\ Sound(slots', live)
  <1>1. /\ slots \in Seq(Entries) /\ DOMAIN slots = 1 .. Len(slots)
        /\ \A j \in DOMAIN slots : slots[j] \in Entries
    BY Table DEF PoolInv
  <1>2. [slots[i] EXCEPT !.inUse = b] \in Entries
    BY <1>1 DEF Entries
  <1>3. slots' = [slots EXCEPT ![i] = [slots[i] EXCEPT !.inUse = b]]
    OBVIOUS
  <1>4. slots' \in Seq(Entries) /\ Len(slots') = Len(slots) /\ DOMAIN slots' = DOMAIN slots
    BY <1>1, <1>2, <1>3
  <1>5. /\ \A j \in DOMAIN slots : /\ slots'[j].client = slots[j].client
                                   /\ slots'[j].key = slots[j].key
                                   /\ slots'[j].pending = slots[j].pending
                                   /\ j # i => slots'[j].inUse = slots[j].inUse
        /\ slots'[i].inUse = b
    BY <1>1, <1>3 DEF Entries
  <1>6. Sound(slots', live)
    BY <1>4, <1>5 DEF PoolInv, Sound, InOneEntry, EntriesRun
  <1> QED BY <1>4, <1>5, <1>6

LEMMA AcquireReadyKeeps ==
  ASSUME PoolInv, NEW t \in Callers, NEW k \in Keys, AcquireReady(t, k)
  PROVE  PoolInv'
  <1> DEFINE i == First(Ready(k))
             c == slots[i].client
  <1>0. PoolTypes /\ Sound(slots, live)
    BY DEF PoolInv
  <1>1. i \in DOMAIN slots /\ slots[i].key = k /\ ~ slots[i].inUse /\ ~ slots[i].pending
    <2>1. Ready(k) \in SUBSET Nat /\ Ready(k) # {}
      BY <1>0, Table DEF AcquireReady, Ready
    <2> QED BY <2>1, FirstOf DEF Ready
  <1>2. /\ slots' = [slots EXCEPT ![i].inUse = TRUE]
        /\ caller' = [caller EXCEPT ![t] = Using(k, c)]
        /\ UNCHANGED <<live, reloads, moved, wrapped>> /\ caller[t].pc = "idle"
    BY DEF AcquireReady
  <1> HIDE DEF i
  <1>3. /\ slots' \in Seq(Entries) /\ Len(slots') = Len(slots) /\ DOMAIN slots' = DOMAIN slots
        /\ \A j \in DOMAIN slots : /\ slots'[j].client = slots[j].client
                                   /\ slots'[j].key = slots[j].key
                                   /\ slots'[j].pending = slots[j].pending
                                   /\ j # i => slots'[j].inUse = slots[j].inUse
        /\ slots'[i].inUse /\ Sound(slots', live)
    BY <1>1, <1>2, FlagSet
  <1>4. c \in Clients /\ c # Empty
    <2>1. slots[i] \in Entries
      BY <1>0, <1>1, Table
    <2> QED BY <1>0, <1>1, <2>1 DEF Sound, EntriesRun, Entries
  <1> HIDE DEF c
  <1>5. Using(k, c).pc = "using" /\ Using(k, c).key = k /\ Using(k, c).client = c
    BY DEF Using
  <1>6. /\ caller' \in [Callers -> Hands] /\ caller'[t] = Using(k, c)
        /\ \A u \in Callers : u # t => caller'[u] = caller[u]
    BY <1>0, <1>2, <1>4, CallerSet, HandTyped
  <1>7. PoolTypes'
    BY <1>0, <1>2, <1>3, <1>6 DEF PoolTypes, PoolTypeOK
  <1>8. ASSUME ~ moved PROVE Steady(slots, live, caller)'
    <2>1. Steady(slots, live, caller)
      BY <1>8 DEF PoolInv
    <2>2. Handshakes(slots, caller)'
      BY <1>2, <1>3, <1>5, <1>6, <2>1 DEF Steady, Handshakes
    <2>3. EntriesRight(slots, live)'
      BY <1>2, <1>3, <2>1 DEF Steady, EntriesRight
    <2>4. live[c] = k
      BY <1>1, <2>1 DEF Steady, EntriesRight, c
    <2>5. \A u \in Callers : caller[u].pc = "using" => caller[u].client # c
      BY <1>1, <2>1 DEF Steady, UsersRight, c
    <2>6. \A j \in DOMAIN slots : slots[j].client = c => j = i
      BY <1>0, <1>1, <1>4 DEF Sound, InOneEntry, c
    <2>7. UsersRight(slots, live, caller)'
      BY <1>2, <1>3, <1>5, <1>6, <2>1, <2>4, <2>5, <2>6 DEF Steady, UsersRight
    <2>8. NoneLeaked(slots, live, caller)'
      BY <1>2, <1>3, <1>5, <1>6, <2>1 DEF Steady, NoneLeaked
    <2> QED BY <2>2, <2>3, <2>7, <2>8 DEF Steady
  <1> QED BY <1>2, <1>3, <1>7, <1>8 DEF PoolInv

LEMMA AcquireShortLivedKeeps ==
  ASSUME PoolInv, NEW t \in Callers, NEW k \in Keys, AcquireShortLived(t, k)
  PROVE  PoolInv'
  <1> DEFINE short == [pc |-> "short", key |-> k]
  <1>1. /\ UNCHANGED <<slots, live, reloads, moved, wrapped>> /\ caller[t].pc = "idle"
        /\ caller' = [caller EXCEPT ![t] = short]
    BY DEF AcquireShortLived
  <1>2. /\ caller' \in [Callers -> Hands] /\ caller'[t] = short
        /\ \A u \in Callers : u # t => caller'[u] = caller[u]
    BY <1>1, CallerSet, HandTyped DEF PoolInv
  <1>3. PoolTypes' /\ Sound(slots, live)'
    BY <1>1, <1>2 DEF PoolInv, PoolTypes, PoolTypeOK
  <1>4. short.pc = "short"
    OBVIOUS
  <1> HIDE DEF short
  <1>5. ASSUME ~ moved PROVE Steady(slots, live, caller)'
    BY <1>1, <1>2, <1>4, <1>5
    DEF PoolInv, Steady, Handshakes, EntriesRight, UsersRight, NoneLeaked
  <1> QED BY <1>1, <1>3, <1>5 DEF PoolInv

LEMMA AcquireStrayKeeps ==
  ASSUME PoolInv, NEW t \in Callers, NEW k \in Keys, AcquireStray(t, k)
  PROVE  PoolInv'
  <1>1. wrapped /\ moved /\ UNCHANGED <<slots, live, reloads, moved, wrapped>>
    BY DEF AcquireStray, PoolInv
  <1>2. PICK c \in Clients : caller' = [caller EXCEPT ![t] = Using(k, c)]
    BY <1>1 DEF AcquireStray, Offered
  <1>3. caller' \in [Callers -> Hands]
    BY <1>2, CallerSet, HandTyped DEF PoolInv
  <1> QED BY <1>1, <1>3 DEF PoolInv, PoolTypes, PoolTypeOK

(* The process that starts is nobody's.                                      *)
LEMMA FreshFacts ==
  ASSUME PoolInv, Unused # {}
  PROVE  /\ Fresh \in Clients /\ Fresh # Empty /\ live[Fresh] = Empty
         /\ \A i \in DOMAIN slots : slots[i].client # Fresh
         /\ \A u \in Callers : caller[u].pc = "using" => caller[u].client # Fresh
  <1>1. Fresh \in Unused
    BY FreshIsUnused
  <1> QED BY <1>1, PoolAssumption DEF Unused

(* It is taken into the hands of one who used none.                          *)
LEMMA StartSteady ==
  ASSUME PoolInv, Unused # {}, NEW t \in Callers, NEW k \in Keys, caller[t].pc # "using",
         live' = [live EXCEPT ![Fresh] = k], caller' = [caller EXCEPT ![t] = Using(k, Fresh)],
         Steady(slots, live, caller)
  PROVE  /\ EntriesRight(slots, live') /\ UsersRight(slots, live', caller')
         /\ NoneLeaked(slots, live', caller')
         /\ caller'[t] = Using(k, Fresh) /\ \A u \in Callers : u # t => caller'[u] = caller[u]
  <1>1. /\ Fresh \in Clients /\ Fresh # Empty /\ live[Fresh] = Empty
        /\ \A i \in DOMAIN slots : slots[i].client # Fresh
        /\ \A u \in Callers : caller[u].pc = "using" => caller[u].client # Fresh
    BY FreshFacts
  <1>2. /\ live \in [Clients -> Keys \union {Empty}] /\ caller \in [Callers -> Hands]
        /\ \A i \in DOMAIN slots : slots[i] \in Entries
    BY Table DEF PoolInv, PoolTypes
  <1>3. live'[Fresh] = k /\ \A d \in Clients : d # Fresh => live'[d] = live[d]
    BY <1>1, <1>2
  <1>4. caller'[t] = Using(k, Fresh) /\ \A u \in Callers : u # t => caller'[u] = caller[u]
    BY <1>2
  <1>5. Using(k, Fresh).pc = "using" /\ Using(k, Fresh).key = k /\ Using(k, Fresh).client = Fresh
    BY DEF Using
  <1>6. ASSUME NEW i \in DOMAIN slots, ~ slots[i].pending
        PROVE  live'[slots[i].client] = live[slots[i].client]
    <2>1. slots[i].client \in Clients
      BY <1>2, <1>6 DEF PoolInv, Sound, EntriesRun, Entries
    <2> QED BY <1>1, <1>3, <2>1
  <1>7. EntriesRight(slots, live')
    BY <1>6 DEF Steady, EntriesRight
  <1>8. ASSUME NEW u \in Callers, u # t, caller'[u].pc = "using"
        PROVE  /\ caller'[u] = caller[u] /\ caller[u].client \in Clients
               /\ caller[u].client # Fresh /\ live'[caller[u].client] = live[caller[u].client]
    <2>1. caller'[u] = caller[u]
      BY <1>4, <1>8
    <2>2. caller[u].client \in Clients
      BY <1>8, <2>1, HandsOf DEF PoolInv
    <2> QED BY <1>1, <1>3, <1>8, <2>1, <2>2
  <1>9. UsersRight(slots, live', caller')
    <2> SUFFICES ASSUME NEW u \in Callers, caller'[u].pc = "using"
                 PROVE  /\ live'[caller'[u].client] = caller'[u].key
                        /\ \A i \in DOMAIN slots : slots[i].client = caller'[u].client => slots[i].inUse
                        /\ \A v \in Callers : v # u /\ caller'[v].pc = "using" =>
                              caller'[v].client # caller'[u].client
      BY DEF UsersRight
    <2>1. CASE u = t
      BY <1>1, <1>3, <1>4, <1>5, <1>8, <2>1
    <2>2. CASE u # t
      <3>1. /\ caller'[u] = caller[u] /\ caller[u].client # Fresh
            /\ live'[caller[u].client] = live[caller[u].client]
        BY <1>8, <2>2
      <3>2. \A v \in Callers : v # u /\ caller'[v].pc = "using" => caller'[v].client # caller'[u].client
        <4> SUFFICES ASSUME NEW v \in Callers, v # u, caller'[v].pc = "using"
                     PROVE  caller'[v].client # caller'[u].client
          OBVIOUS
        <4>1. CASE v = t
          BY <1>4, <1>5, <3>1, <4>1
        <4>2. CASE v # t
          BY <1>4, <3>1, <4>2 DEF Steady, UsersRight
        <4> QED BY <4>1, <4>2
      <3> QED BY <3>1, <3>2 DEF Steady, UsersRight
    <2> QED BY <2>1, <2>2
  <1>10. NoneLeaked(slots, live', caller')
    <2> SUFFICES ASSUME NEW d \in Clients, live'[d] # Empty
                 PROVE  \/ \E i \in DOMAIN slots : slots[i].client = d
                        \/ \E u \in Callers : caller'[u].pc = "using" /\ caller'[u].client = d
      BY DEF NoneLeaked
    <2>1. CASE d = Fresh
      BY <1>4, <1>5, <2>1
    <2>2. CASE d # Fresh
      <3>1. \/ \E i \in DOMAIN slots : slots[i].client = d
            \/ \E u \in Callers : caller[u].pc = "using" /\ caller[u].client = d
        BY <1>3, <2>2 DEF Steady, NoneLeaked
      <3> QED BY <1>4, <3>1
    <2> QED BY <2>1, <2>2
  <1> QED BY <1>4, <1>7, <1>9, <1>10

LEMMA StartSound ==
  ASSUME PoolInv, Unused # {}, NEW k \in Keys, NEW run, run = [live EXCEPT ![Fresh] = k]
  PROVE  Sound(slots, run) /\ run \in [Clients -> Keys \union {Empty}]
  <1>1. /\ Fresh \in Clients /\ \A i \in DOMAIN slots : slots[i].client # Fresh
    BY FreshFacts
  <1>2. /\ live \in [Clients -> Keys \union {Empty}]
        /\ \A i \in DOMAIN slots : slots[i] \in Entries
    BY Table DEF PoolInv
  <1>3. ASSUME NEW i \in DOMAIN slots, ~ slots[i].pending
        PROVE  run[slots[i].client] = live[slots[i].client]
    <2>1. slots[i].client \in Clients
      BY <1>2, <1>3 DEF PoolInv, Sound, EntriesRun, Entries
    <2> QED BY <1>1, <1>2, <2>1
  <1>4. run \in [Clients -> Keys \union {Empty}]
    BY <1>2
  <1> QED BY <1>3, <1>4 DEF PoolInv, Sound, EntriesRun

LEMMA ShortLivedStartsKeeps ==
  ASSUME PoolInv, NEW t \in Callers, ShortLivedStarts(t)
  PROVE  PoolInv'
  <1> DEFINE k == caller[t].key
  <1>1. UNCHANGED <<slots, reloads, moved, wrapped>> /\ caller[t].pc = "short" /\ k \in Keys
    BY HandsOf DEF ShortLivedStarts, PoolInv
  <1>2. CASE Unused # {} /\ live' = [live EXCEPT ![Fresh] = k]
             /\ caller' = [caller EXCEPT ![t] = Using(k, Fresh)]
    <2> HIDE DEF k
    <2>1. /\ Sound(slots, live') /\ live' \in [Clients -> Keys \union {Empty}]
      BY <1>1, <1>2, StartSound
    <2>2. caller' \in [Callers -> Hands]
      BY <1>1, <1>2, FreshFacts, CallerSet, HandTyped DEF PoolInv
    <2>3. ASSUME ~ moved PROVE Steady(slots, live, caller)'
      <3>1. Steady(slots, live, caller)
        BY <2>3 DEF PoolInv
      <3>2. /\ EntriesRight(slots, live') /\ UsersRight(slots, live', caller')
            /\ NoneLeaked(slots, live', caller')
            /\ caller'[t] = Using(k, Fresh) /\ \A u \in Callers : u # t => caller'[u] = caller[u]
        <4>1. Unused # {} /\ caller[t].pc # "using" /\ k \in Keys
          BY <1>1, <1>2
        <4>2. live' = [live EXCEPT ![Fresh] = k] /\ caller' = [caller EXCEPT ![t] = Using(k, Fresh)]
          BY <1>2
        <4> QED BY ONLY PoolInv, t \in Callers, <3>1, <4>1, <4>2, StartSteady
      <3>3. Using(k, Fresh).pc = "using"
        BY DEF Using
      <3>4. Handshakes(slots, caller')
        BY <3>1, <3>2, <3>3 DEF Steady, Handshakes
      <3> QED BY <1>1, <3>2, <3>4 DEF Steady
    <2>4. PoolTypes' /\ Sound(slots, live)'
      BY <1>1, <2>1, <2>2 DEF PoolInv, PoolTypes, PoolTypeOK
    <2> QED BY <1>1, <2>3, <2>4 DEF PoolInv
  <1>3. CASE live' = live /\ caller' = [caller EXCEPT ![t] = NoCall]
    <2>1. /\ caller' \in [Callers -> Hands] /\ caller'[t] = NoCall /\ NoCall.pc = "idle"
          /\ \A u \in Callers : u # t => caller'[u] = caller[u]
      BY <1>1, <1>3, CallerSet, HandTyped DEF PoolInv
    <2>2. PoolTypes' /\ Sound(slots, live)'
      BY <1>1, <1>3, <2>1 DEF PoolInv, PoolTypes, PoolTypeOK
    <2>3. ASSUME ~ moved PROVE Steady(slots, live, caller)'
      BY <1>1, <1>3, <2>1, <2>3
      DEF PoolInv, Steady, Handshakes, EntriesRight, UsersRight, NoneLeaked
    <2> QED BY <1>1, <2>2, <2>3 DEF PoolInv
  <1> QED BY <1>2, <1>3 DEF ShortLivedStarts

LEMMA HandshakeDoneKeeps ==
  ASSUME PoolInv, NEW t \in Callers, HandshakeDone(t)
  PROVE  PoolInv'
  <1> DEFINE k == caller[t].key
             i == caller[t].slot
             full == [slots[i] EXCEPT !.client = Fresh, !.pending = FALSE]
  <1>1. /\ caller[t].pc = "handshake" /\ k \in Keys /\ i \in Nat \ {0} /\ Unused # {}
        /\ UNCHANGED <<reloads, moved, wrapped>>
        /\ slots' = IF i \in DOMAIN slots THEN [slots EXCEPT ![i] = full] ELSE slots
        /\ live' = [live EXCEPT ![Fresh] = k]
        /\ caller' = [caller EXCEPT ![t] = Using(k, Fresh)]
    BY HandsOf DEF HandshakeDone, PoolInv
  <1> HIDE DEF k, i
  <1>2. /\ Fresh \in Clients /\ Fresh # Empty /\ live[Fresh] = Empty
        /\ \A j \in DOMAIN slots : slots[j].client # Fresh
    BY <1>1, FreshFacts
  <1>3. Sound(slots, live') /\ live' \in [Clients -> Keys \union {Empty}]
    BY <1>1, StartSound
  <1>4. /\ slots \in Seq(Entries) /\ DOMAIN slots = 1 .. Len(slots)
        /\ \A j \in DOMAIN slots : slots[j] \in Entries
    BY Table DEF PoolInv
  <1>5. live'[Fresh] = k /\ k # Empty
    <2>1. live \in [Clients -> Keys \union {Empty}]
      BY Table DEF PoolInv
    <2> QED BY <1>1, <1>2, <2>1, PoolAssumption
  <1>6. i \in DOMAIN slots =>
           /\ full \in Entries /\ full.client = Fresh /\ ~ full.pending
           /\ full.key = slots[i].key /\ full.inUse = slots[i].inUse
    BY <1>2, <1>4 DEF Entries
  <1> HIDE DEF full
  <1>7. /\ slots' \in Seq(Entries) /\ Len(slots') = Len(slots) /\ DOMAIN slots' = DOMAIN slots
        /\ \A j \in DOMAIN slots : slots'[j] = IF j = i THEN full ELSE slots[j]
    BY <1>1, <1>4, <1>6
  <1>8. Sound(slots', live')
    <2>1. EntriesRun(slots', live')
      BY <1>2, <1>3, <1>5, <1>6, <1>7 DEF Sound, EntriesRun
    <2>2. InOneEntry(slots')
      BY <1>2, <1>3, <1>6, <1>7 DEF Sound, InOneEntry
    <2> QED BY <1>7, <2>1, <2>2 DEF Sound
  <1>9. caller' \in [Callers -> Hands]
    BY <1>1, <1>2, CallerSet, HandTyped DEF PoolInv
  <1>10. PoolTypes' /\ Sound(slots, live)'
    BY <1>1, <1>3, <1>7, <1>8, <1>9 DEF PoolInv, PoolTypes, PoolTypeOK
  <1>11. ASSUME ~ moved PROVE Steady(slots, live, caller)'
    <2>1. Steady(slots, live, caller)
      BY <1>11 DEF PoolInv
    <2>2. i \in DOMAIN slots /\ slots[i].pending /\ slots[i].key = k /\ slots[i].inUse
      BY <1>1, <2>1 DEF Steady, Handshakes, EntriesRight, i, k
    <2>3. /\ EntriesRight(slots, live') /\ UsersRight(slots, live', caller')
          /\ NoneLeaked(slots, live', caller')
          /\ caller'[t] = Using(k, Fresh) /\ \A u \in Callers : u # t => caller'[u] = caller[u]
      <3>1. Unused # {} /\ caller[t].pc # "using" /\ k \in Keys
        BY <1>1
      <3>2. live' = [live EXCEPT ![Fresh] = k] /\ caller' = [caller EXCEPT ![t] = Using(k, Fresh)]
        BY <1>1
      <3> QED BY ONLY PoolInv, t \in Callers, <2>1, <3>1, <3>2, StartSteady
    <2>4. Using(k, Fresh).pc = "using" /\ Using(k, Fresh).client = Fresh
      BY DEF Using
    <2>5. \A u \in Callers : u # t /\ caller[u].pc = "handshake" => caller[u].slot # i
      BY <1>1, <2>1 DEF Steady, Handshakes, i
    <2>6. Handshakes(slots', caller')
      BY <1>7, <2>1, <2>3, <2>4, <2>5 DEF Steady, Handshakes
    <2>7. EntriesRight(slots', live')
      BY <1>5, <1>6, <1>7, <2>2, <2>3 DEF EntriesRight
    <2>8. UsersRight(slots', live', caller')
      <3>1. ASSUME NEW u \in Callers, NEW j \in DOMAIN slots', caller'[u].pc = "using",
                   slots'[j].client = caller'[u].client
            PROVE  slots'[j].inUse
        <4>1. CASE j = i
          BY <1>6, <1>7, <2>2, <4>1
        <4>2. CASE j # i
          BY <1>7, <2>3, <3>1, <4>2 DEF UsersRight
        <4> QED BY <4>1, <4>2
      <3> QED BY <2>3, <3>1 DEF UsersRight
    <2>9. NoneLeaked(slots', live', caller')
      <3> SUFFICES ASSUME NEW d \in Clients, live'[d] # Empty
                   PROVE  \/ \E j \in DOMAIN slots' : slots'[j].client = d
                          \/ \E u \in Callers : caller'[u].pc = "using" /\ caller'[u].client = d
        BY DEF NoneLeaked
      <3>1. CASE \E j \in DOMAIN slots : slots[j].client = d
        <4>1. PICK j \in DOMAIN slots : slots[j].client = d
          BY <3>1
        <4>2. j # i
          BY <2>2, <4>1, PoolAssumption DEF PoolInv, Sound, EntriesRun
        <4> QED BY <1>7, <4>1, <4>2
      <3> QED BY <2>3, <3>1 DEF NoneLeaked
    <2> QED BY <2>6, <2>7, <2>8, <2>9 DEF Steady
  <1> QED BY <1>1, <1>10, <1>11 DEF PoolInv

(* On an empty table, which a handshake finds only after an entry somebody    *)
(* relied on was dropped, no entry changes.                                   *)
LEMMA CountWraps ==
  ASSUME PoolInv, NEW t \in Callers, HandshakeFails(t), slots = << >>
  PROVE  PoolInv'
  <1>1. /\ caller[t].pc = "handshake" /\ UNCHANGED <<slots, live, reloads, moved>>
        /\ wrapped' = TRUE /\ caller' = [caller EXCEPT ![t] = NoCall]
    BY DEF HandshakeFails
  <1>2. caller' \in [Callers -> Hands]
    BY <1>1 DEF PoolInv, PoolTypes, Hands
  <1>3. moved
    BY <1>1 DEF PoolInv, Steady, Handshakes
  <1> QED BY <1>1, <1>2, <1>3 DEF PoolInv, PoolTypes, PoolTypeOK

(* The placeholder that is given back had no process.                        *)
LEMMA HandshakeFailsKeeps ==
  ASSUME PoolInv, NEW t \in Callers, HandshakeFails(t), slots # << >>
  PROVE  PoolInv'
  <1> DEFINE i == caller[t].slot
             r == Compacted(slots, i)
  <1>1. /\ caller[t].pc = "handshake" /\ i \in Nat \ {0} /\ slots # << >>
        /\ UNCHANGED <<live, reloads, wrapped>> /\ slots' = r
        /\ moved' = (moved \/ MovesPlaceholder(i))
        /\ caller' = [caller EXCEPT ![t] = NoCall]
    BY HandsOf DEF HandshakeFails, PoolInv
  <1> HIDE DEF i
  <1>2. slots \in Seq(Entries) /\ Len(slots) \in Nat /\ DOMAIN slots = 1 .. Len(slots)
    BY Table DEF PoolInv
  <1>3. Sound(r, live)
    BY <1>1, CompactionSound DEF PoolInv
  <1>4. Len(r) = Len(slots) - 1
    BY <1>1, <1>2, CompactedTable
  <1>5. /\ \A j \in DOMAIN r : \E l \in DOMAIN slots : l # i /\ r[j] = slots[l]
        /\ i \in DOMAIN slots =>
              \A l \in DOMAIN slots : l # i => \E j \in DOMAIN r : r[j] = slots[l]
        /\ \A l \in DOMAIN slots : l # i /\ l # Len(slots) => l \in DOMAIN r /\ r[l] = slots[l]
    <2>1. slots \in Seq(Entries) /\ slots # << >> /\ i \in Nat \ {0}
      BY <1>1, <1>2
    <2>2. LET q == Compacted(slots, i) IN
          /\ DOMAIN q = 1 .. Len(slots) - 1 /\ DOMAIN slots = 1 .. Len(slots)
          /\ \A j \in DOMAIN q : \E k \in DOMAIN slots :
                k # i /\ q[j] = slots[k] /\ k = IF j = i THEN Len(slots) ELSE j
          /\ \A k \in DOMAIN slots : k # i /\ (k # Len(slots) \/ i \in DOMAIN slots) =>
                \E j \in DOMAIN q : q[j] = slots[k]
          /\ \A k \in DOMAIN slots : k # i /\ k # Len(slots) => k \in DOMAIN q /\ q[k] = slots[k]
      BY ONLY <2>1, CompactedFrom
    <2> QED BY <2>2
  <1> HIDE DEF r
  <1>6. /\ caller' \in [Callers -> Hands] /\ caller'[t] = NoCall /\ NoCall.pc = "idle"
        /\ \A u \in Callers : u # t => caller'[u] = caller[u]
    <2>1. NoCall \in Hands /\ NoCall.pc = "idle"
      BY DEF Hands, NoCall
    <2> QED BY <1>1, <2>1, CallerSet DEF PoolInv
  <1>7. PoolTypes' /\ Sound(slots, live)'
    <2>1. Len(r) <= MaxProcs
      <3>1. Len(slots) <= MaxProcs /\ MaxProcs \in Nat
        BY PoolAssumption DEF PoolInv, PoolTypes, PoolTypeOK
      <3> QED BY <1>2, <1>4, <3>1
    <2>2. moved' \in BOOLEAN
      BY <1>1 DEF PoolInv, PoolTypes, PoolTypeOK, MovesPlaceholder
    <2> QED BY <1>1, <1>3, <1>6, <2>1, <2>2 DEF PoolInv, PoolTypes, PoolTypeOK, Sound
  <1>8. ASSUME ~ moved' PROVE Steady(slots, live, caller)'
    <2>1. Steady(slots, live, caller)
      BY <1>1, <1>8 DEF PoolInv
    <2>2. i \in DOMAIN slots /\ slots[i].pending
      BY <1>1, <2>1 DEF Steady, Handshakes, i
    <2>3. \A u \in Callers : u # t /\ caller[u].pc = "handshake" =>
             caller[u].slot # i /\ caller[u].slot # Len(slots)
      <3>1. \A u \in Callers : u # t /\ caller[u].pc = "handshake" => caller[u].slot # i
        BY <1>1, <2>1 DEF Steady, Handshakes, i
      <3> QED BY <1>1, <1>8, <3>1 DEF MovesPlaceholder
    <2>4. Handshakes(r, caller')
      <3> SUFFICES ASSUME NEW u \in Callers, caller'[u].pc = "handshake"
                   PROVE  /\ caller'[u].slot \in DOMAIN r
                          /\ r[caller'[u].slot].pending /\ r[caller'[u].slot].key = caller'[u].key
                          /\ \A v \in Callers : v # u /\ caller'[v].pc = "handshake" =>
                                caller'[v].slot # caller'[u].slot
        BY DEF Handshakes
      <3>1. u # t /\ caller'[u] = caller[u]
        BY <1>6
      <3>2. caller[u].slot \in DOMAIN slots
        BY <2>1, <3>1 DEF Steady, Handshakes
      <3>3. caller[u].slot \in DOMAIN r /\ r[caller[u].slot] = slots[caller[u].slot]
        BY <1>5, <2>3, <3>1, <3>2
      <3> QED BY <1>6, <2>1, <3>1, <3>3 DEF Steady, Handshakes
    <2>5. EntriesRight(r, live)
      BY <1>5, <2>1 DEF Steady, EntriesRight
    <2>6. UsersRight(r, live, caller')
      BY <1>5, <1>6, <2>1 DEF Steady, UsersRight
    <2>7. NoneLeaked(r, live, caller')
      <3> SUFFICES ASSUME NEW d \in Clients, live[d] # Empty
                   PROVE  \/ \E j \in DOMAIN r : r[j].client = d
                          \/ \E u \in Callers : caller'[u].pc = "using" /\ caller'[u].client = d
        BY DEF NoneLeaked
      <3>1. CASE \E l \in DOMAIN slots : slots[l].client = d
        <4>1. PICK l \in DOMAIN slots : slots[l].client = d
          BY <3>1
        <4>2. l # i
          BY <2>2, <4>1, PoolAssumption DEF PoolInv, Sound, EntriesRun
        <4> QED BY <1>5, <2>2, <4>1, <4>2
      <3>2. \A u \in Callers : caller[u].pc = "using" => caller'[u] = caller[u]
        BY <1>1, <1>6
      <3> QED BY <2>1, <3>1, <3>2 DEF Steady, NoneLeaked
    <2> QED BY <1>1, <2>4, <2>5, <2>6, <2>7 DEF Steady
  <1> QED BY <1>1, <1>7, <1>8 DEF PoolInv

(* A placeholder at the end of a table with room.                            *)
LEMMA PlaceholderKeeps ==
  ASSUME PoolTypes, NEW s, NEW run \in [Clients -> Keys \union {Empty}], Sound(s, run),
         Len(s) < MaxProcs, moved' \in BOOLEAN, ~ moved' => Steady(s, run, caller),
         NEW t \in Callers, NEW k \in Keys, caller[t].pc = "idle",
         slots' = Append(s, Reserved(k)), live' = run, UNCHANGED <<reloads, wrapped>>,
         wrapped' => moved',
         caller' = [caller EXCEPT ![t] = [pc |-> "handshake", key |-> k, slot |-> Len(slots')]]
  PROVE  PoolInv'
  <1>1. Reserved(k) \in Entries /\ s \in Seq(Entries)
    BY DEF Reserved, Entries, Sound
  <1>2. slots' \in Seq(Entries) /\ Len(slots') = Len(s) + 1 /\ Len(s) \in Nat
    BY <1>1, AppendTable
  <1>3. Len(slots') <= MaxProcs
    BY <1>2, PoolAssumption
  <1>4. Sound(slots', live')
    BY PlaceholderSound
  <1> DEFINE mine == [pc |-> "handshake", key |-> k, slot |-> Len(s) + 1]
  <1>5. mine \in Hands
    <2>1. PICK n \in Nat \ {0} : n = Len(s) + 1
      BY <1>2
    <2> QED BY <2>1, HandTyped
  <1>6. caller' = [caller EXCEPT ![t] = mine]
    BY <1>2
  <1>7. caller' \in [Callers -> Hands]
    BY <1>5, <1>6 DEF PoolTypes
  <1>8. PoolTypes'
    BY <1>2, <1>3, <1>7 DEF PoolTypes, PoolTypeOK
  <1>9. ASSUME ~ moved' PROVE Steady(slots', live', caller')
    <2>1. caller \in [Callers -> Hands] /\ Steady(s, run, caller)
      BY <1>9 DEF PoolTypes
    <2>2. Steady(Append(s, Reserved(k)), run, [caller EXCEPT ![t] = mine])
      BY ONLY Sound(s, run), <2>1, k \in Keys, t \in Callers, caller[t].pc = "idle", PlaceholderSteady
    <2> QED BY <1>6, <2>2
  <1> QED BY <1>4, <1>8, <1>9 DEF PoolInv

(* An idle entry goes.  As long as nothing moved, no handshake held the last *)
(* entry: the entry that goes is not pending.                                *)
LEMMA EvictionKeeps ==
  ASSUME PoolInv, NEW i \in Evictable, moved' = (moved \/ MovesPlaceholder(i))
  PROVE  LET r == Compacted(slots, i)
             run == Freed(slots[i].client)
         IN  /\ Sound(r, run) /\ run \in [Clients -> Keys \union {Empty}]
             /\ ~ moved' => Steady(r, run, caller)
             /\ Len(r) = Len(slots) - 1 /\ Len(slots) \in Nat /\ moved' \in BOOLEAN
  <1>1. i \in DOMAIN slots /\ ~ slots[i].inUse /\ ~ slots[i].pending
    BY DEF Evictable
  <1>2. /\ slots \in Seq(Entries) /\ DOMAIN slots = 1 .. Len(slots) /\ Len(slots) \in Nat
        /\ live \in [Clients -> Keys \union {Empty}] /\ caller \in [Callers -> Hands]
        /\ Sound(slots, live)
    BY Table DEF PoolInv, PoolTypes
  <1>3. slots # << >> /\ i \in Nat \ {0}
    BY <1>1, <1>2, EmptySeq
  <1> DEFINE r == Compacted(slots, i)
             run == [live EXCEPT ![slots[i].client] = Empty]
  <1>4. Sound(r, run)
    BY <1>1, <1>2, EvictionSound
  <1>5. run \in [Clients -> Keys \union {Empty}]
    BY <1>2
  <1>6. Len(r) = Len(slots) - 1
    BY <1>2, <1>3, CompactedTable
  <1>7. moved' \in BOOLEAN
    BY DEF PoolInv, PoolTypes, PoolTypeOK, MovesPlaceholder
  <1> HIDE DEF r, run
  <1>8. ASSUME ~ moved' PROVE Steady(r, run, caller)
    <2>1. Steady(slots, live, caller) /\ ~ MovesPlaceholder(i)
      BY <1>8 DEF PoolInv
    <2>2. \A t \in Callers : caller[t].pc = "handshake" => caller[t].slot # Len(slots)
      <3> SUFFICES ASSUME NEW t \in Callers, caller[t].pc = "handshake" PROVE caller[t].slot # Len(slots)
        OBVIOUS
      <3>1. caller[t].slot # i
        BY <1>1, <2>1 DEF Steady, Handshakes
      <3> QED BY <2>1, <3>1 DEF MovesPlaceholder
    <2> QED BY <1>1, <1>2, <2>1, <2>2, EvictionSteady DEF r, run
  <1> QED BY <1>2, <1>4, <1>5, <1>6, <1>7, <1>8 DEF r, run, Freed

LEMMA ReserveKeeps ==
  ASSUME PoolInv, NEW t \in Callers, NEW k \in Keys, Reserve(t, k)
  PROVE  PoolInv'
  <1>1. /\ caller[t].pc = "idle" /\ UNCHANGED <<reloads, wrapped>>
        /\ caller' = [caller EXCEPT ![t] = [pc |-> "handshake", key |-> k, slot |-> Len(slots')]]
    BY DEF Reserve
  <1>2. PoolTypes /\ Len(slots) \in Nat /\ MaxProcs \in Nat
    BY Table, PoolAssumption DEF PoolInv
  <1>3. CASE Len(slots) < MaxProcs /\ slots' = Append(slots, Reserved(k))
             /\ UNCHANGED <<live, moved>>
    <2>1. /\ Sound(slots, live) /\ (~ moved' => Steady(slots, live, caller)) /\ moved' \in BOOLEAN
          /\ wrapped' => moved'
          /\ live \in [Clients -> Keys \union {Empty}] /\ live' = live
      BY <1>1, <1>3 DEF PoolInv, PoolTypes, PoolTypeOK
    <2> QED BY <1>1, <1>2, <1>3, <2>1, PlaceholderKeeps
  <1>4. ASSUME NEW i \in Evictable,
               slots' = Append(Compacted(slots, i), Reserved(k)),
               moved' = (moved \/ MovesPlaceholder(i)), live' = Freed(slots[i].client)
        PROVE  PoolInv'
    <2> DEFINE r == Compacted(slots, i)
               run == Freed(slots[i].client)
    <2>1. /\ Sound(r, run) /\ run \in [Clients -> Keys \union {Empty}]
          /\ ~ moved' => Steady(r, run, caller)
          /\ Len(r) = Len(slots) - 1 /\ moved' \in BOOLEAN
      BY <1>4, EvictionKeeps
    <2>2. Len(r) < MaxProcs
      <3>1. Len(slots) <= MaxProcs
        BY <1>2 DEF PoolTypes, PoolTypeOK
      <3> HIDE DEF r
      <3> QED BY <1>2, <2>1, <3>1
    <2>3. slots' = Append(r, Reserved(k)) /\ live' = run /\ (wrapped' => moved')
      BY <1>1, <1>4 DEF PoolInv
    <2> HIDE DEF r, run
    <2> QED BY <1>1, <1>2, <2>1, <2>2, <2>3, PlaceholderKeeps
  <1> QED BY <1>3, <1>4 DEF Reserve

LEMMA EvictIdleKeeps ==
  ASSUME PoolInv, EvictIdle
  PROVE  PoolInv'
  <1>1. PICK i \in Evictable : /\ slots' = Compacted(slots, i) /\ live' = Freed(slots[i].client)
                               /\ moved' = (moved \/ MovesPlaceholder(i))
    BY DEF EvictIdle
  <1>2. UNCHANGED <<caller, reloads, wrapped>>
    BY DEF EvictIdle
  <1>3. /\ Sound(slots', live') /\ live' \in [Clients -> Keys \union {Empty}]
        /\ ~ moved' => Steady(slots', live', caller)
        /\ Len(slots') = Len(slots) - 1 /\ Len(slots) \in Nat /\ moved' \in BOOLEAN
    BY <1>1, EvictionKeeps
  <1>4. Len(slots') <= MaxProcs
    <2>1. Len(slots) <= MaxProcs
      BY DEF PoolInv, PoolTypes, PoolTypeOK
    <2> QED BY <1>3, <2>1, PoolAssumption
  <1> QED BY <1>1, <1>2, <1>3, <1>4 DEF PoolInv, PoolTypes, PoolTypeOK, Sound

(* The process goes back to its entry; one that has none is freed.           *)
LEMMA ReleaseClientKeeps ==
  ASSUME PoolInv, NEW t \in Callers, ReleaseClient(t)
  PROVE  PoolInv'
  <1> DEFINE c == caller[t].client
             i == First(SlotsOf(c))
  <1>1. /\ caller[t].pc = "using" /\ c \in Clients /\ c # Empty
        /\ caller' = [caller EXCEPT ![t] = NoCall]
        /\ UNCHANGED <<reloads, moved, wrapped>>
    BY HandsOf, PoolAssumption DEF ReleaseClient, PoolInv
  <1>2. /\ caller' \in [Callers -> Hands] /\ caller'[t] = NoCall /\ NoCall.pc = "idle"
        /\ \A u \in Callers : u # t => caller'[u] = caller[u]
    <2>1. NoCall \in Hands /\ NoCall.pc = "idle"
      BY DEF Hands, NoCall
    <2> QED BY <1>1, <2>1, CallerSet DEF PoolInv
  <1>3. \A u \in Callers : caller'[u].pc = "using" \/ caller'[u].pc = "handshake" =>
           u # t /\ caller'[u] = caller[u]
    BY <1>2
  <1>4. /\ slots \in Seq(Entries) /\ DOMAIN slots = 1 .. Len(slots)
        /\ live \in [Clients -> Keys \union {Empty}] /\ Sound(slots, live)
    BY Table DEF PoolInv
  <1>5. CASE SlotsOf(c) # {}
    <2>1. i \in DOMAIN slots /\ slots[i].client = c
      <3>1. SlotsOf(c) \in SUBSET Nat
        BY <1>4 DEF SlotsOf
      <3> QED BY <1>5, <3>1, FirstOf DEF SlotsOf
    <2>2. slots' = [slots EXCEPT ![i].inUse = FALSE] /\ live' = live
      BY <1>5 DEF ReleaseClient
    <2> HIDE DEF i
    <2>3. /\ slots' \in Seq(Entries) /\ Len(slots') = Len(slots) /\ DOMAIN slots' = DOMAIN slots
          /\ \A j \in DOMAIN slots : /\ slots'[j].client = slots[j].client
                                     /\ slots'[j].key = slots[j].key
                                     /\ slots'[j].pending = slots[j].pending
                                     /\ j # i => slots'[j].inUse = slots[j].inUse
          /\ Sound(slots', live)
      BY <2>1, <2>2, FlagSet
    <2>4. PoolTypes' /\ Sound(slots, live)'
      BY <1>1, <1>2, <2>2, <2>3 DEF PoolInv, PoolTypes, PoolTypeOK
    <2>5. ASSUME ~ moved PROVE Steady(slots, live, caller)'
      <3>1. Steady(slots, live, caller)
        BY <2>5 DEF PoolInv
      <3>2. ~ slots[i].pending
        BY <1>1, <1>4, <2>1 DEF Sound, EntriesRun
      <3>3. Handshakes(slots', caller')
        BY <1>3, <2>3, <3>1 DEF Steady, Handshakes
      <3>4. EntriesRight(slots', live')
        BY <2>2, <2>3, <3>1, <3>2 DEF Steady, EntriesRight
      <3>5. \A u \in Callers : u # t /\ caller[u].pc = "using" => caller[u].client # c
        BY <1>1, <3>1 DEF Steady, UsersRight
      <3>6. ASSUME NEW u \in Callers, NEW j \in DOMAIN slots', caller'[u].pc = "using",
                   slots'[j].client = caller'[u].client
            PROVE  slots'[j].inUse
        <4>1. u # t /\ caller'[u] = caller[u] /\ slots[j].client = caller[u].client
          BY <1>3, <2>3, <3>6
        <4>2. j # i
          BY <2>1, <3>5, <3>6, <4>1
        <4> QED BY <2>3, <3>1, <3>6, <4>1, <4>2 DEF Steady, UsersRight
      <3>7. UsersRight(slots', live', caller')
        BY <1>3, <2>2, <3>1, <3>6 DEF Steady, UsersRight
      <3>8. NoneLeaked(slots', live', caller')
        <4> SUFFICES ASSUME NEW d \in Clients, live'[d] # Empty
                     PROVE  \/ \E j \in DOMAIN slots' : slots'[j].client = d
                            \/ \E u \in Callers : caller'[u].pc = "using" /\ caller'[u].client = d
          BY DEF NoneLeaked
        <4>1. CASE d = c
          BY <2>1, <2>3, <4>1
        <4>2. CASE d # c
          <5>1. \/ \E j \in DOMAIN slots : slots[j].client = d
                \/ \E u \in Callers : caller[u].pc = "using" /\ caller[u].client = d
            BY <2>2, <3>1 DEF Steady, NoneLeaked
          <5> QED BY <1>2, <2>3, <4>2, <5>1
        <4> QED BY <4>1, <4>2
      <3> QED BY <3>3, <3>4, <3>7, <3>8 DEF Steady
    <2> QED BY <1>1, <2>4, <2>5 DEF PoolInv
  <1>7. CASE SlotsOf(c) = {} /\ wrapped
    <2>1. UNCHANGED <<slots, live>> /\ moved
      BY <1>7 DEF ReleaseClient, PoolInv
    <2> QED BY <1>1, <1>2, <2>1 DEF PoolInv, PoolTypes, PoolTypeOK
  <1>6. CASE SlotsOf(c) = {} /\ ~ wrapped
    <2>1. slots' = slots /\ live' = [live EXCEPT ![c] = Empty]
      BY <1>6 DEF ReleaseClient, Freed
    <2>2. \A j \in DOMAIN slots : slots[j].client # c
      BY <1>6 DEF SlotsOf
    <2>3. /\ live' \in [Clients -> Keys \union {Empty}]
          /\ \A d \in Clients : live'[d] = IF d = c THEN Empty ELSE live[d]
      BY <1>4, <2>1
    <2> HIDE DEF c
    <2>4. ASSUME NEW j \in DOMAIN slots, ~ slots[j].pending
          PROVE  live'[slots[j].client] = live[slots[j].client]
      <3>1. slots[j] \in Entries
        BY <1>4
      <3>2. slots[j].client \in Clients
        BY <1>4, <2>4, <3>1 DEF Sound, EntriesRun, Entries
      <3> QED BY <2>2, <2>3, <3>2
    <2>5. Sound(slots', live')
      BY <1>4, <2>1, <2>4 DEF Sound, EntriesRun
    <2>6. PoolTypes'
      BY <1>1, <1>2, <2>1, <2>3 DEF PoolInv, PoolTypes, PoolTypeOK
    <2>7. ASSUME ~ moved PROVE Steady(slots, live, caller)'
      <3>1. Steady(slots, live, caller)
        BY <2>7 DEF PoolInv
      <3>2. Handshakes(slots', caller')
        BY <1>3, <2>1, <3>1 DEF Steady, Handshakes
      <3>3. EntriesRight(slots', live')
        BY <2>1, <2>4, <3>1 DEF Steady, EntriesRight
      <3>4. \A u \in Callers : u # t /\ caller[u].pc = "using" =>
               caller[u].client # c /\ live'[caller[u].client] = live[caller[u].client]
        <4> SUFFICES ASSUME NEW u \in Callers, u # t, caller[u].pc = "using"
                     PROVE  caller[u].client # c /\ live'[caller[u].client] = live[caller[u].client]
          OBVIOUS
        <4>1. caller[u].client # c
          BY <1>1, <3>1 DEF Steady, UsersRight, c
        <4>2. caller[u].client \in Clients
          BY HandsOf DEF PoolInv
        <4> QED BY <2>3, <4>1, <4>2
      <3>5. UsersRight(slots', live', caller')
        BY <1>3, <2>1, <3>1, <3>4 DEF Steady, UsersRight
      <3>6. NoneLeaked(slots', live', caller')
        <4> SUFFICES ASSUME NEW d \in Clients, live'[d] # Empty
                     PROVE  \/ \E j \in DOMAIN slots' : slots'[j].client = d
                            \/ \E u \in Callers : caller'[u].pc = "using" /\ caller'[u].client = d
          BY DEF NoneLeaked
        <4>1. d # c /\ live[d] # Empty
          BY <2>3
        <4>2. CASE \E j \in DOMAIN slots : slots[j].client = d
          BY <2>1, <4>2
        <4>3. CASE \E u \in Callers : caller[u].pc = "using" /\ caller[u].client = d
          <5>1. PICK u \in Callers : caller[u].pc = "using" /\ caller[u].client = d
            BY <4>3
          <5>2. u # t
            BY <4>1, <5>1 DEF c
          <5> QED BY <1>2, <5>1, <5>2
        <4> QED BY <3>1, <4>1, <4>2, <4>3 DEF Steady, NoneLeaked
      <3> QED BY <3>2, <3>3, <3>5, <3>6 DEF Steady
    <2> QED BY <1>1, <2>5, <2>6, <2>7 DEF PoolInv
  <1> QED BY <1>5, <1>6, <1>7

(* The table is emptied, whoever uses it; with nobody at it nothing moved,   *)
(* and every process was in the table.                                       *)
LEMMA ShutdownKeeps ==
  ASSUME PoolInv, Shutdown
  PROVE  PoolInv'
  <1>1. /\ reloads < Reloads /\ reloads' = reloads + 1 /\ slots' = << >>
        /\ UNCHANGED <<caller, wrapped>>
        /\ live' = [c \in Clients |-> IF SlotsOf(c) # {} THEN Empty ELSE live[c]]
        /\ moved' = (moved \/ \E t \in Callers : caller[t].pc \in {"handshake", "using"})
    BY DEF Shutdown
  <1>2. slots' \in Seq(Entries) /\ Len(slots') = 0 /\ DOMAIN slots' = {}
    BY <1>1, EmptySeq
  <1>3. /\ live \in [Clients -> Keys \union {Empty}] /\ caller \in [Callers -> Hands]
        /\ reloads \in 0 .. Reloads /\ moved \in BOOLEAN /\ wrapped \in BOOLEAN
    BY DEF PoolInv, PoolTypes, PoolTypeOK
  <1>4. live' \in [Clients -> Keys \union {Empty}]
    BY <1>1, <1>3
  <1>5. reloads' \in 0 .. Reloads
    BY <1>1, <1>3, PoolAssumption
  <1>6. moved' \in BOOLEAN
    BY <1>1, <1>3
  <1>7. Len(slots') <= MaxProcs
    BY <1>2, PoolAssumption
  <1>8. PoolTypes'
    BY <1>1, <1>2, <1>3, <1>4, <1>5, <1>6, <1>7 DEF PoolTypes, PoolTypeOK
  <1>9. Sound(slots', live')
    BY <1>2 DEF Sound, InOneEntry, EntriesRun
  <1>10. ASSUME ~ moved' PROVE Steady(slots, live, caller)'
    <2>1. /\ Steady(slots, live, caller)
          /\ \A t \in Callers : caller'[t].pc # "handshake" /\ caller'[t].pc # "using"
      BY <1>1, <1>10 DEF PoolInv
    <2>2. \A d \in Clients : live'[d] = Empty
      <3> SUFFICES ASSUME NEW d \in Clients, live'[d] # Empty PROVE FALSE
        OBVIOUS
      <3>1. SlotsOf(d) = {} /\ live[d] # Empty
        BY <1>1
      <3> QED BY <1>1, <2>1, <3>1 DEF Steady, NoneLeaked, SlotsOf
    <2> QED BY <1>2, <2>1, <2>2 DEF Steady, Handshakes, EntriesRight, UsersRight, NoneLeaked
  <1> QED BY <1>1, <1>8, <1>9, <1>10 DEF PoolInv

-----------------------------------------------------------------------------
LEMMA PoolStep == PoolInv /\ [PoolNext]_poolVars => PoolInv'
  <1> SUFFICES ASSUME PoolInv, [PoolNext]_poolVars PROVE PoolInv'
    OBVIOUS
  <1>1. CASE UNCHANGED poolVars
    BY <1>1 DEF poolVars, PoolInv, PoolTypes, PoolTypeOK
  <1>2. ASSUME NEW t \in Callers, Call(t) PROVE PoolInv'
    BY <1>2, AcquireReadyKeeps, AcquireShortLivedKeeps, ReserveKeeps, HandshakeDoneKeeps,
       CountWraps, HandshakeFailsKeeps, ShortLivedStartsKeeps, ReleaseClientKeeps,
       AcquireStrayKeeps DEF Call
  <1> QED BY <1>1, <1>2, EvictIdleKeeps, ShutdownKeeps DEF PoolNext

(* The invariant holds of every behaviour of the pool.                       *)
THEOREM PoolAlways == PoolSpec => []PoolInv
  <1> QED BY PoolStart, PoolStep, PTL DEF PoolSpec

(* As long as no removal or reload has moved an entry somebody relies on,    *)
(* the pool hands out live processes of the server asked for, each to one    *)
(* caller at a time, and loses none.                                         *)
THEOREM SoundUntilMovedAlways == PoolSpec => []SoundUntilMoved
  <1>1. PoolInv => SoundUntilMoved
    <2> SUFFICES ASSUME PoolInv, ~ moved
                 PROVE  /\ NoUseAfterFree /\ OneHolder /\ RightServer
                        /\ \A c \in Clients : live[c] # Empty =>
                              \/ \E i \in DOMAIN slots : slots[i].client = c
                              \/ \E t \in Callers : caller[t].pc = "using" /\ caller[t].client = c
      BY DEF SoundUntilMoved
    <2>1. Steady(slots, live, caller)
      BY DEF PoolInv
    <2>2. \A t \in Callers : caller[t].pc = "using" =>
             live[caller[t].client] = caller[t].key /\ caller[t].key # Empty
      BY <2>1, HandsOf, PoolAssumption DEF PoolInv, Steady, UsersRight
    <2>3. NoUseAfterFree /\ RightServer
      BY <2>2 DEF NoUseAfterFree, RightServer
    <2>4. OneHolder
      BY <2>1 DEF Steady, UsersRight, OneHolder
    <2> QED BY <2>1, <2>3, <2>4 DEF Steady, NoneLeaked
  <1> QED BY <1>1, PoolAlways, PTL

(* Whatever moves, an entry up for reuse is a process that runs.             *)
THEOREM OfferedIsAliveAlways == PoolSpec => []OfferedIsAlive
  <1>1. PoolInv => OfferedIsAlive
    <2> SUFFICES ASSUME PoolInv, ~ wrapped, NEW k \in Keys, NEW i \in Ready(k)
                 PROVE  live[slots[i].client] # Empty
      BY DEF OfferedIsAlive, Offered
    <2> QED BY DEF PoolInv, Sound, EntriesRun, Ready
  <1> QED BY <1>1, PoolAlways, PTL

-----------------------------------------------------------------------------
(* What the client has not taken yet, from the oldest piece on.              *)
Piece  == [of : Int, part : Nat, last : BOOLEAN]
Stream == resp \o (framer \o (stdout \o writing))

ClientTypes ==
    /\ phase \in {"new", "shaking", "ready", "failed"}
    /\ child \in {"none", "running", "exited"}
    /\ stdin \in Seq(Nat)
    /\ resp \in Seq(Piece) /\ framer \in Seq(Piece)
    /\ stdout \in Seq(Piece) /\ writing \in Seq(Piece)
    /\ call \in [reading : BOOLEAN, asked : Nat, got : Int]
    /\ unasked \in Nat /\ behind \in BOOLEAN /\ given \in 0 .. call.asked

(* What comes answers later requests than those answered, and a line that    *)
(* ends is followed by answers to later ones; so do the requests q that wait. *)
Ahead(s, q, g, a) ==
    /\ \A i \in DOMAIN s : s[i].of > 0 => g < s[i].of /\ s[i].of <= a
    /\ \A i, j \in DOMAIN s : i < j /\ s[i].last /\ s[i].of > 0 /\ s[j].of > 0
                                  => s[i].of < s[j].of
    /\ \A i \in DOMAIN q : /\ g < q[i] /\ q[i] <= a
                           /\ \A j \in DOMAIN s : s[j].of < q[i]
    /\ \A i, j \in DOMAIN q : i < j => q[i] < q[j]

(* In step, all that is under way is about the last request.                 *)
Alone(s, q, a) == (\A i \in DOMAIN s : s[i].of = a) /\ (\A i \in DOMAIN q : q[i] = a)

ClientInv ==
    /\ ClientTypes
    /\ IF call.reading THEN call.asked > 0 ELSE resp = << >>
    /\ child # "running" => writing = << >>
    /\ phase = "new" => child = "none"
    /\ child = "none" => /\ stdin = << >> /\ framer = << >> /\ stdout = << >>
                         /\ ~ call.reading /\ ~ behind
    /\ Ahead(Stream, stdin, given, call.asked)
    /\ ~ behind => IF call.reading THEN Alone(Stream, stdin, call.asked)
                   ELSE Stream = << >> /\ (child = "running" => stdin = << >>)

-----------------------------------------------------------------------------
(* Sequences                                                                 *)

LEMMA Joined ==
  ASSUME NEW S, NEW s \in Seq(S), NEW t \in Seq(S)
  PROVE  /\ s \o t \in Seq(S) /\ Len(s) \in Nat /\ Len(t) \in Nat
         /\ DOMAIN s = 1 .. Len(s) /\ DOMAIN t = 1 .. Len(t)
         /\ Len(s \o t) = Len(s) + Len(t) /\ DOMAIN (s \o t) = 1 .. Len(s) + Len(t)
         /\ \A i \in DOMAIN s : i \in DOMAIN (s \o t) /\ (s \o t)[i] = s[i]
         /\ \A i \in DOMAIN t : i + Len(s) \in DOMAIN (s \o t) /\ (s \o t)[i + Len(s)] = t[i]
         /\ \A i \in DOMAIN (s \o t) :
              i \in DOMAIN s \/ (i - Len(s) \in DOMAIN t /\ (s \o t)[i] = t[i - Len(s)])
  <1>1. /\ s \o t \in Seq(S) /\ Len(s \o t) = Len(s) + Len(t)
        /\ \A i \in 1 .. Len(s) + Len(t) : (s \o t)[i] = IF i <= Len(s) THEN s[i] ELSE t[i - Len(s)]
    BY ConcatProperties
  <1>2. /\ Len(s) \in Nat /\ Len(t) \in Nat /\ Len(s \o t) \in Nat
        /\ DOMAIN s = 1 .. Len(s) /\ DOMAIN t = 1 .. Len(t) /\ DOMAIN (s \o t) = 1 .. Len(s \o t)
    BY <1>1, LenProperties
  <1> QED BY <1>1, <1>2

Regroups(r, s, t) == (r \o s) \o t = r \o (s \o t)
LEMMA Regrouped ==
  ASSUME NEW S, NEW r \in Seq(S), NEW s \in Seq(S), NEW t \in Seq(S) PROVE Regroups(r, s, t)
  BY ConcatAssociative DEF Regroups

EndsAs(s, a) == Len(s) \in DOMAIN s /\ s[Len(s)] = a[Len(a)]
LEMMA JoinedEnd ==
  ASSUME NEW S, NEW r \in Seq(S), NEW a \in Seq(S), a # << >> PROVE EndsAs(r \o a, a)
  <1>1. Len(a) \in Nat /\ DOMAIN a = 1 .. Len(a) /\ Len(a) # 0
    BY LenProperties, EmptySeq
  <1>2. Len(a) \in DOMAIN a
    BY <1>1
  <1>3. Len(r \o a) = Len(r) + Len(a) /\ Len(r) \in Nat
        /\ \A i \in DOMAIN a : i + Len(r) \in DOMAIN (r \o a) /\ (r \o a)[i + Len(r)] = a[i]
    BY Joined
  <1>4. Len(r) + Len(a) = Len(a) + Len(r)
    BY <1>1, <1>3
  <1> QED BY ONLY <1>2, <1>3, <1>4 DEF EndsAs

Appends(s, e) ==
    /\ Append(s, e) \in Seq(Nat) /\ Len(s) \in Nat
    /\ DOMAIN s = 1 .. Len(s) /\ DOMAIN Append(s, e) = 1 .. Len(s) + 1
    /\ Append(s, e)[Len(s) + 1] = e
    /\ \A i \in DOMAIN s : Append(s, e)[i] = s[i] /\ s[i] \in Nat
LEMMA Appended == ASSUME NEW s \in Seq(Nat), NEW e \in Nat PROVE Appends(s, e)
  <1>1. /\ Append(s, e) \in Seq(Nat) /\ Len(Append(s, e)) = Len(s) + 1 /\ Len(s) \in Nat
        /\ DOMAIN s = 1 .. Len(s) /\ DOMAIN Append(s, e) = 1 .. Len(s) + 1
        /\ Append(s, e)[Len(s) + 1] = e
        /\ \A i \in DOMAIN s : Append(s, e)[i] = s[i]
    BY AppendProperties, LenProperties
  <1>2. \A i \in DOMAIN s : s[i] \in Nat
    BY ElementOfSeq, LenProperties
  <1> QED BY ONLY <1>1, <1>2 DEF Appends

LEMMA Split ==
  ASSUME NEW S, NEW s \in Seq(S), NEW n \in 1 .. Len(s)
  PROVE  /\ SubSeq(s, 1, n) \in Seq(S) /\ SubSeq(s, n + 1, Len(s)) \in Seq(S)
         /\ Len(SubSeq(s, 1, n)) = n /\ SubSeq(s, 1, n)[n] = s[n]
         /\ SubSeq(s, 1, n) \o SubSeq(s, n + 1, Len(s)) = s
  <1>1. Len(s) \in Nat /\ n \in Nat /\ n <= Len(s) /\ n >= 1 /\ \A i \in 1 .. Len(s) : s[i] \in S
    BY LenProperties, ElementOfSeq
  <1>2. /\ SubSeq(s, 1, n) \in Seq(S) /\ Len(SubSeq(s, 1, n)) = n
        /\ SubSeq(s, 1, n)[n] = s[n]
    BY <1>1, SubSeqProperties
  <1>3. SubSeq(s, n + 1, Len(s)) \in Seq(S)
    BY <1>1, SubSeqProperties
  <1>4. SubSeq(s, 1, n) \o SubSeq(s, n + 1, Len(s)) = SubSeq(s, 1, Len(s))
    BY <1>1, ConcatAdjacentSubSeq
  <1>5. SubSeq(s, 1, Len(s)) = s
    BY SubSeqFull
  <1> QED BY <1>2, <1>3, <1>4, <1>5

LEMMA HeadThenTail ==
  ASSUME NEW S, NEW s \in Seq(S), NEW t \in Seq(S), t # << >>
  PROVE  /\ Append(s, Head(t)) \in Seq(S) /\ Tail(t) \in Seq(S)
         /\ Append(s, Head(t)) \o Tail(t) = s \o t
  <1>1. Len(t) \in Nat \ {0} /\ t[1] \in S /\ Head(t) = t[1]
    BY EmptySeq, ElementOfSeq, LenProperties
  <1>2. /\ Tail(t) \in Seq(S) /\ Tail(t) = SubSeq(t, 2, Len(t))
    BY HeadTailProperties, TailIsSubSeq
  <1>3. SubSeq(t, 1, Len(t)) = <<t[1]>> \o SubSeq(t, 2, Len(t)) /\ SubSeq(t, 1, Len(t)) = t
    BY <1>1, SubSeqRecursiveFirst, SubSeqFull
  <1>4. Append(s, Head(t)) = s \o <<t[1]>> /\ Append(s, Head(t)) \in Seq(S)
    BY <1>1, AppendIsConcat, AppendProperties
  <1>5. <<t[1]>> \in Seq(S)
    BY <1>1
  <1>6. Regroups(s, <<t[1]>>, Tail(t))
    BY <1>2, <1>5, Regrouped
  <1> QED BY <1>2, <1>3, <1>4, <1>6 DEF Regroups

\* What is left of s when t is taken from it.
LEMMA RestOf ==
  ASSUME NEW S, NEW s, NEW t \in Seq(S), NEW u \in Seq(S), s = t \o u
  PROVE  /\ Len(t) \in Nat
         /\ \A j \in DOMAIN u : j + Len(t) \in DOMAIN s /\ u[j] = s[j + Len(t)]
  BY Joined

LEMMA NoneIn == ASSUME NEW S, NEW s \in Seq(S), DOMAIN s = {} PROVE s = << >>
  <1>1. Len(s) \in Nat /\ DOMAIN s = 1 .. Len(s)
    BY LenProperties
  <1>2. Len(s) = 0
    BY <1>1
  <1> QED BY <1>2, EmptySeq

LEMMA FirstEnd ==
  ASSUME NEW S \in SUBSET Nat, S # {}
  PROVE  (CHOOSE i \in S : \A j \in S : i <= j) \in S
  <1>1. \A x, y \in Nat : <<y, x>> \in OpToRel(<, Nat) <=> y < x
    BY DEF OpToRel
  <1>2. \E x \in S : \A y \in S : ~ (<<y, x>> \in OpToRel(<, Nat))
    BY NatLessThanWellFounded, WFMin
  <1>3. PICK x \in S : \A y \in S : ~ (y < x)
    BY <1>1, <1>2
  <1>4. \A y \in S : x <= y
    BY <1>3
  <1> QED BY <1>4

-----------------------------------------------------------------------------
(* What is under way                                                         *)

\* A part of it is as well ordered; d pieces are gone.
LEMMA PartAhead ==
  ASSUME NEW s \in Seq(Piece), NEW t \in Seq(Piece), NEW q \in Seq(Nat),
         NEW g \in Nat, NEW a \in Nat, NEW d \in Nat, Ahead(s, q, g, a),
         \A j \in DOMAIN t : j + d \in DOMAIN s /\ t[j] = s[j + d]
  PROVE  Ahead(t, q, g, a)
  <1>1. DOMAIN t \subseteq Nat
    BY LenProperties
  <1>2. \A i, j \in DOMAIN t : i < j => i + d < j + d
    BY <1>1
  <1> QED BY <1>2 DEF Ahead

\* A request more may be asked.
LEMMA LaterAhead ==
  ASSUME NEW s \in Seq(Piece), NEW q \in Seq(Nat), NEW g \in Nat, NEW a \in Nat, Ahead(s, q, g, a)
  PROVE  Ahead(s, q, g, a + 1)
  <1>1. \A i \in DOMAIN s : s[i].of \in Int
    <2>1. \A i \in DOMAIN s : s[i] \in Piece
      BY LenProperties, ElementOfSeq
    <2> QED BY <2>1 DEF Piece
  <1>2. \A i \in DOMAIN q : q[i] \in Nat
    BY ElementOfSeq
  <1> QED BY <1>1, <1>2 DEF Ahead

\* After an answer the next ones are to later requests.
LEMMA AnsweredAhead ==
  ASSUME NEW s \in Seq(Piece), NEW t \in Seq(Piece), NEW q \in Seq(Nat),
         NEW g \in Nat, NEW a \in Nat, NEW e \in DOMAIN s, Ahead(s, q, g, a),
         s[e].last, s[e].of > 0,
         \A j \in DOMAIN t : j + e \in DOMAIN s /\ t[j] = s[j + e]
  PROVE  Ahead(t, q, s[e].of, a)
  <1>1. DOMAIN t \subseteq Nat \ {0} /\ e \in Nat
    BY LenProperties
  <1>2. Ahead(t, q, g, a)
    BY <1>1, PartAhead
  <1>3. \A j \in DOMAIN t : t[j].of > 0 => s[e].of < t[j].of
    <2> SUFFICES ASSUME NEW j \in DOMAIN t, t[j].of > 0 PROVE s[e].of < t[j].of
      OBVIOUS
    <2>1. j + e \in DOMAIN s /\ t[j] = s[j + e] /\ e < j + e
      BY <1>1
    <2> QED BY <2>1 DEF Ahead
  <1>4. \A i \in DOMAIN q : s[e].of < q[i]
    BY DEF Ahead
  <1> QED BY <1>2, <1>3, <1>4 DEF Ahead

\* What a line that means something is.
LEMMA AnswerIs ==
  ASSUME NEW line, Meaning(line) # Error
  PROVE  /\ Meaning(line) = line[1].of /\ line[1].of > 0 /\ Len(line) \in Nat \ {0}
         /\ line[Len(line)].last /\ line[Len(line)].of = line[1].of
  <1>1. PICK k \in Lengths : line[1].of > 0 /\ line = Line(line[1].of, k)
    BY DEF Meaning
  <1>2. k \in Nat \ {0}
    BY ClientAssumption
  <1>3. PICK n : n = line[1].of
    OBVIOUS
  <1>4. Len(line) = k /\ line[k] = [of |-> n, part |-> k, last |-> TRUE]
    <2>1. line = [i \in 1 .. k |-> [of |-> n, part |-> i, last |-> i = k]]
      BY <1>1, <1>3 DEF Line
    <2>2. k \in 1 .. k
      BY <1>2
    <2>3. line[k] = [of |-> n, part |-> k, last |-> k = k]
      BY <2>1, <2>2
    <2>4. Len(line) = k
      BY <1>2, <2>1
    <2> QED BY <2>3, <2>4
  <1> QED BY <1>1, <1>2, <1>3, <1>4 DEF Meaning

\* What a call returns.
LEMMA Returned ==
  ASSUME ClientInv, call.reading, NEW n \in Int, Return(n)
  PROVE  /\ ~ call'.reading /\ call'.asked = call.asked /\ call'.got = n
         /\ call' \in [reading : BOOLEAN, asked : Nat, got : Int]
         /\ given' = (IF n = Error THEN given ELSE n)
         /\ phase' \in {"new", "shaking", "ready", "failed"} /\ (phase' = "new" => phase = "new")
  <1>1. call \in [reading : BOOLEAN, asked : Nat, got : Int]
    BY DEF ClientInv, ClientTypes
  <1>2. call' = [call EXCEPT !.reading = FALSE, !.got = n]
    BY DEF Return
  <1>3. phase' \in {"new", "shaking", "ready", "failed"} /\ (phase' = "new" => phase = "new")
    BY DEF Return, ClientInv, ClientTypes
  <1> QED BY <1>1, <1>2, <1>3 DEF Return

LEMMA Joined4 ==
  ASSUME NEW r \in Seq(Piece), NEW f \in Seq(Piece), NEW o \in Seq(Piece), NEW w \in Seq(Piece)
  PROVE  /\ o \o w \in Seq(Piece) /\ f \o (o \o w) \in Seq(Piece)
         /\ r \o (f \o (o \o w)) \in Seq(Piece)
  <1>1. o \o w \in Seq(Piece)
    BY Joined
  <1>2. f \o (o \o w) \in Seq(Piece)
    BY <1>1, Joined
  <1> QED BY <1>1, <1>2, Joined

LEMMA PiecesAre ==
  ASSUME ClientTypes
  PROVE  /\ resp \in Seq(Piece) /\ framer \in Seq(Piece) /\ stdout \in Seq(Piece)
         /\ writing \in Seq(Piece) /\ stdout \o writing \in Seq(Piece)
         /\ framer \o (stdout \o writing) \in Seq(Piece) /\ Stream \in Seq(Piece)
  BY Joined4 DEF ClientTypes, Stream

LEMMA ClientTypesOf ==
  ASSUME ClientInv
  PROVE  Stream \in Seq(Piece) /\ stdin \in Seq(Nat) /\ given \in Nat /\ call.asked \in Nat
  BY PiecesAre DEF ClientInv, ClientTypes

\* A call that returns without an answer leaves the rest of the stream behind,
\* or nothing of it.
LEMMA CallFails ==
  ASSUME ClientInv, call.reading, Return(Error), resp' = << >>,
         UNCHANGED <<child, stdin, writing, stdout, unasked>>, framer' \in Seq(Piece),
         NEW d \in Nat, \A j \in DOMAIN Stream' : j + d \in DOMAIN Stream /\ Stream'[j] = Stream[j + d],
         \/ behind' = TRUE
         \/ behind' = behind /\ Stream' = << >> /\ (child = "running" => stdin = << >>)
  PROVE  ClientInv' /\ InStep
  <1>1. ClientTypes /\ Error \in Int /\ child # "none"
    BY DEF ClientInv, Error
  <1>2. /\ ~ call'.reading /\ call'.asked = call.asked /\ call'.got = Error
        /\ call' \in [reading : BOOLEAN, asked : Nat, got : Int]
        /\ given' = given
        /\ phase' \in {"new", "shaking", "ready", "failed"} /\ (phase' = "new" => phase = "new")
    BY <1>1, Returned
  <1>3. ClientTypes'
    BY <1>1, <1>2, EmptySeq DEF ClientTypes
  <1>4. Stream \in Seq(Piece) /\ Stream' \in Seq(Piece)
    BY <1>1, <1>3, Joined4 DEF ClientTypes, Stream
  <1>5. Ahead(Stream', stdin, given, call.asked)
    <2>1. stdin \in Seq(Nat) /\ given \in Nat /\ call.asked \in Nat
      BY <1>1 DEF ClientTypes
    <2> QED BY <1>4, <2>1, PartAhead DEF ClientInv
  <1>6. ClientInv'
    BY <1>1, <1>2, <1>3, <1>5 DEF ClientInv
  <1> QED BY <1>2, <1>6 DEF InStep

\* One that returns an answer has taken a whole line from the stream.
LEMMA CallAnswered ==
  ASSUME ClientInv, call.reading, NEW line \in Seq(Piece), Return(Meaning(line)),
         Meaning(line) # Error, resp' = << >>,
         UNCHANGED <<child, stdin, writing, stdout, unasked, behind>>, framer' \in Seq(Piece),
         Stream = line \o Stream'
  PROVE  ClientInv' /\ InStep
  <1> DEFINE n == Meaning(line)
             e == Len(line)
  <1>1. ClientTypes /\ child # "none" /\ call.asked > 0
    BY DEF ClientInv
  <1>2. /\ n = line[1].of /\ n > 0 /\ e \in Nat \ {0} /\ line[e].last /\ line[e].of = n
    BY AnswerIs
  <1>3. n \in Int
    <2>1. line[1] \in Piece
      BY <1>2, ElementOfSeq
    <2> QED BY <1>2, <2>1 DEF Piece
  <1>4. /\ ~ call'.reading /\ call'.asked = call.asked /\ call'.got = n
        /\ call' \in [reading : BOOLEAN, asked : Nat, got : Int] /\ given' = n
        /\ phase' \in {"new", "shaking", "ready", "failed"} /\ (phase' = "new" => phase = "new")
    BY <1>3, Returned
  <1>5. Stream \in Seq(Piece) /\ Stream' \in Seq(Piece)
    <2>1. stdout' \in Seq(Piece) /\ writing' \in Seq(Piece) /\ resp' \in Seq(Piece)
      BY <1>1, EmptySeq DEF ClientTypes
    <2> QED BY <1>1, <2>1, Joined4 DEF ClientTypes, Stream
  <1>6. /\ e \in DOMAIN Stream /\ Stream[e] = line[e]
        /\ \A j \in DOMAIN Stream' : j + e \in DOMAIN Stream /\ Stream'[j] = Stream[j + e]
    BY <1>2, <1>5, Joined
  <1>7. stdin \in Seq(Nat) /\ given \in Nat /\ call.asked \in Nat
    BY <1>1 DEF ClientTypes
  <1>8. given < n /\ n <= call.asked
    BY <1>2, <1>6 DEF ClientInv, Ahead
  <1>9. Ahead(Stream', stdin, n, call.asked)
    <2>1. Ahead(Stream', stdin, Stream[e].of, call.asked)
      <3>1. Stream[e].last /\ Stream[e].of > 0 /\ Ahead(Stream, stdin, given, call.asked)
        BY <1>2, <1>6 DEF ClientInv
      <3> HIDE DEF e
      <3> QED BY ONLY <1>5, <1>6, <1>7, <3>1, AnsweredAhead
    <2> QED BY <1>2, <1>6, <2>1
  <1>10. ClientTypes'
    BY <1>1, <1>3, <1>4, <1>7, <1>8, EmptySeq DEF ClientTypes
  <1>11. ASSUME ~ behind PROVE n = call.asked /\ Stream' = << >> /\ stdin = << >>
    <2>1. Alone(Stream, stdin, call.asked)
      BY <1>11 DEF ClientInv
    <2>2. n = call.asked
      BY <1>2, <1>6, <2>1 DEF Alone
    <2>3. \A j \in DOMAIN Stream' : Stream'[j].of = n
      BY <1>6, <2>1, <2>2 DEF Alone
    <2>4. DOMAIN Stream' = {}
      <3> SUFFICES ASSUME NEW j \in DOMAIN Stream' PROVE FALSE
        OBVIOUS
      <3>1. Stream'[j].of > n
        BY <1>2, <2>3, <1>9 DEF Ahead
      <3> QED BY <1>3, <2>3, <3>1
    <2>5. DOMAIN stdin = {}
      <3> SUFFICES ASSUME NEW i \in DOMAIN stdin PROVE FALSE
        OBVIOUS
      <3>1. stdin[i] > n /\ stdin[i] = n
        BY <1>9, <2>1, <2>2 DEF Ahead, Alone
      <3> QED BY <1>3, <3>1
    <2> QED BY <1>5, <1>7, <2>2, <2>4, <2>5, NoneIn
  <1> HIDE DEF n, e
  <1>12. ClientInv'
    BY <1>1, <1>4, <1>9, <1>10, <1>11 DEF ClientInv
  <1> QED BY <1>4, <1>8, <1>11, <1>12 DEF InStep

LEMMA TakeLineKeeps == ASSUME ClientInv, TakeLine PROVE ClientInv' /\ InStep
  <1>0. /\ ClientTypes /\ call.reading /\ resp' = << >>
        /\ resp \in Seq(Piece) /\ framer \in Seq(Piece) /\ stdout \in Seq(Piece) /\ writing \in Seq(Piece)
        /\ UNCHANGED <<child, stdin, writing, stdout, unasked, behind>>
    BY DEF ClientInv, ClientTypes, TakeLine
  <1>1. Ends(framer) # {} /\ Ends(framer) \in SUBSET Nat /\ Ends(framer) \subseteq 1 .. Len(framer)
    <2>1. DOMAIN framer = 1 .. Len(framer) /\ Len(framer) \in Nat
      BY <1>0, LenProperties
    <2> QED BY <2>1 DEF TakeLine, Ends
  <1>2. PICK e \in Nat :
          /\ e \in 1 .. Len(framer) /\ e \in Ends(framer)
          /\ Return(Meaning(resp \o SubSeq(framer, 1, e)))
          /\ framer' = SubSeq(framer, e + 1, Len(framer))
    BY <1>1, FirstEnd DEF TakeLine
  <1>3. stdout \o writing \in Seq(Piece) /\ Stream \in Seq(Piece)
    BY <1>0, PiecesAre
  <1>4. PICK line, rest \in Seq(Piece) :
          /\ line = resp \o SubSeq(framer, 1, e)
          /\ rest = SubSeq(framer, e + 1, Len(framer)) \o (stdout \o writing)
          /\ SubSeq(framer, e + 1, Len(framer)) \in Seq(Piece)
          /\ resp \o (framer \o (stdout \o writing)) = line \o rest
          /\ Len(line) \in DOMAIN line /\ line[Len(line)] = framer[e]
    <2>1. PICK a, left \in Seq(Piece) :
            /\ a = SubSeq(framer, 1, e) /\ left = SubSeq(framer, e + 1, Len(framer))
            /\ framer = a \o left /\ Len(a) = e /\ a[e] = framer[e]
      BY <1>0, <1>2, Split
    <2>2. a # << >>
      <3>1. Len(a) # 0 /\ Len(<< >>) = 0
        BY <1>2, <2>1
      <3> QED BY ONLY <3>1
    <2>3. PICK o \in Seq(Piece) : o = stdout \o writing
      BY <1>3
    <2>4. PICK r \in Seq(Piece) : r = resp
      BY <1>0
    <2>5. r \o a \in Seq(Piece) /\ left \o o \in Seq(Piece)
      BY Joined
    <2>6. r \o ((a \o left) \o o) = (r \o a) \o (left \o o)
      <3>1. Regroups(a, left, o)
        BY Regrouped
      <3>2. PICK b \in Seq(Piece) : b = left \o o
        BY <2>5
      <3>3. Regroups(r, a, b)
        BY Regrouped
      <3> QED BY ONLY <3>1, <3>2, <3>3 DEF Regroups
    <2>7. Len(r \o a) \in DOMAIN (r \o a) /\ (r \o a)[Len(r \o a)] = a[Len(a)]
      <3>1. EndsAs(r \o a, a)
        BY <2>2, JoinedEnd
      <3> QED BY ONLY <3>1 DEF EndsAs
    <2> QED BY ONLY <2>1, <2>3, <2>4, <2>5, <2>6, <2>7
  <1>5. Stream = line \o rest /\ Stream' = rest /\ framer' \in Seq(Piece) /\ Return(Meaning(line))
    <2>1. Stream' = << >> \o rest
      BY <1>0, <1>2, <1>4 DEF Stream
    <2>2. << >> \o rest = rest
      BY <1>4, ConcatEmptySeq
    <2> QED BY <1>2, <1>4, <2>1, <2>2 DEF Stream
  <1>6. CASE Meaning(line) # Error
    BY <1>0, <1>5, <1>6, CallAnswered
  <1>7. CASE Meaning(line) = Error
    <2>1. PICK l \in Nat :
            /\ l \in DOMAIN Stream /\ Stream[l].last
            /\ \A j \in DOMAIN Stream' : j + l \in DOMAIN Stream /\ Stream'[j] = Stream[j + l]
      <3>1. /\ Len(line) \in Nat
            /\ \A j \in DOMAIN rest : j + Len(line) \in DOMAIN Stream /\ rest[j] = Stream[j + Len(line)]
        BY <1>5, RestOf
      <3>2. Len(line) \in DOMAIN Stream /\ Stream[Len(line)] = line[Len(line)]
        <4>1. /\ Len(line) \in DOMAIN (line \o rest)
              /\ (line \o rest)[Len(line)] = line[Len(line)]
          <5>1. /\ \A i \in DOMAIN line : i \in DOMAIN (line \o rest)
                                          /\ (line \o rest)[i] = line[i]
            BY Joined
          <5> QED BY ONLY <1>4, <5>1
        <4> QED BY <1>5, <4>1
      <3>3. framer[e].last
        BY <1>2 DEF Ends
      <3> WITNESS Len(line) \in Nat
      <3> QED BY <1>4, <1>5, <3>1, <3>2, <3>3
    <2>2. ASSUME ~ behind PROVE Stream' = << >> /\ stdin = << >>
      <3>1. Alone(Stream, stdin, call.asked) /\ call.asked > 0 /\ call.asked \in Nat
            /\ Ahead(Stream, stdin, given, call.asked) /\ stdin \in Seq(Nat)
        BY <1>0, <2>2 DEF ClientInv, ClientTypes
      <3>2. DOMAIN Stream' = {}
        <4> SUFFICES ASSUME NEW j \in DOMAIN Stream' PROVE FALSE
          OBVIOUS
        <4>1. j \in Nat \ {0}
          BY <1>5, LenProperties
        <4>2. j + l \in DOMAIN Stream /\ l < j + l
          BY <2>1, <4>1
        <4>3. Stream[l].of = call.asked /\ Stream[j + l].of = call.asked
          BY <2>1, <3>1, <4>2 DEF Alone
        <4>4. Stream[l].of < Stream[j + l].of
          BY <2>1, <3>1, <4>2, <4>3 DEF Ahead
        <4> QED BY <3>1, <4>3, <4>4
      <3>3. DOMAIN stdin = {}
        <4> SUFFICES ASSUME NEW i \in DOMAIN stdin PROVE FALSE
          OBVIOUS
        <4>1. Stream[l].of = call.asked /\ stdin[i] = call.asked /\ Stream[l].of < stdin[i]
          BY <2>1, <3>1 DEF Ahead, Alone
        <4> QED BY <3>1, <4>1
      <3> QED BY <1>5, <3>1, <3>2, <3>3, NoneIn
    <2>3. /\ Return(Error) /\ behind \in BOOLEAN /\ behind' = behind
      BY <1>0, <1>5, <1>7 DEF ClientTypes
    <2>4. behind' = TRUE \/ (behind' = behind /\ Stream' = << >> /\ (child = "running" => stdin = << >>))
      BY <2>2, <2>3
    <2> QED BY <1>0, <1>5, <2>1, <2>3, <2>4, CallFails
  <1> QED BY <1>6, <1>7

LEMMA MoveOnKeeps == ASSUME ClientInv, MoveOn PROVE ClientInv' /\ InStep
  <1>0. /\ ClientTypes /\ call.reading /\ framer' = << >>
        /\ resp \in Seq(Piece) /\ framer \in Seq(Piece) /\ stdout \in Seq(Piece) /\ writing \in Seq(Piece)
        /\ UNCHANGED <<child, stdin, writing, stdout, unasked>>
    BY DEF ClientInv, ClientTypes, MoveOn
  <1>1. PICK rest, held \in Seq(Piece) : rest = stdout \o writing /\ held = resp \o framer
    BY <1>0, Joined
  <1>2. Stream = held \o rest /\ << >> \in Seq(Piece)
    <2>1. Regroups(resp, framer, rest)
      <3>1. resp \in Seq(Piece) /\ framer \in Seq(Piece)
        BY <1>0
      <3> QED BY <3>1, Regrouped
    <2> QED BY <1>1, <2>1, EmptySeq DEF Stream, Regroups
  <1>3. << >> \o rest = rest
    BY <1>1, ConcatEmptySeq
  <1>4. CASE resp' = resp \o framer /\ UNCHANGED <<phase, call, behind, given>>
    <2>1. Stream' = held \o (<< >> \o rest)
      BY <1>0, <1>1, <1>4 DEF Stream
    <2>3. Stream' = Stream
      BY <1>2, <1>3, <2>1
    <2>2. ClientTypes'
      BY <1>0, <1>1, <1>4 DEF ClientTypes
    <2> QED BY <1>0, <1>4, <2>2, <2>3 DEF ClientInv, InStep
  <1>5. CASE resp' = << >> /\ behind' = TRUE /\ Return(Error)
    <2>1. Stream' = rest
      <3>1. Stream' = << >> \o (<< >> \o rest)
        BY <1>0, <1>1, <1>5 DEF Stream
      <3> QED BY <1>3, <3>1
    <2>2. /\ Len(held) \in Nat
          /\ \A j \in DOMAIN rest : j + Len(held) \in DOMAIN Stream /\ rest[j] = Stream[j + Len(held)]
      BY <1>2, RestOf
    <2>3. framer' \in Seq(Piece)
      BY <1>0, <1>2
    <2> QED BY <1>0, <1>5, <2>1, <2>2, <2>3, CallFails
  <1> QED BY <1>4, <1>5 DEF MoveOn

LEMMA ReadKeeps == ASSUME ClientInv, Read PROVE ClientInv' /\ InStep
  <1>0. /\ ClientTypes /\ call.reading /\ framer = << >>
        /\ resp \in Seq(Piece) /\ stdout \in Seq(Piece) /\ writing \in Seq(Piece)
        /\ UNCHANGED <<phase, child, stdin, writing, resp, call, unasked, behind, given>>
    BY DEF ClientInv, ClientTypes, Read
  <1>1. PICK n \in 1 .. Len(stdout) :
          framer' = SubSeq(stdout, 1, n) /\ stdout' = SubSeq(stdout, n + 1, Len(stdout))
    BY <1>0, ClientAssumption, LenProperties DEF Read
  <1>2. framer' \in Seq(Piece) /\ stdout' \in Seq(Piece) /\ framer' \o stdout' = stdout
    BY <1>0, <1>1, Split
  <1>3. framer' \o (stdout' \o writing) = stdout \o writing
    <2>1. Regroups(framer', stdout', writing)
      <3>1. framer' \in Seq(Piece) /\ stdout' \in Seq(Piece) /\ writing \in Seq(Piece)
        BY <1>0, <1>2
      <3> QED BY <3>1, Regrouped
    <2> QED BY <1>2, <2>1 DEF Regroups
  <1>4. Stream' = Stream
    <2>1. << >> \o (stdout \o writing) = stdout \o writing
      BY <1>0, Joined, ConcatEmptySeq
    <2> QED BY <1>0, <1>3, <2>1 DEF Stream
  <1>5. ClientTypes'
    BY <1>0, <1>2 DEF ClientTypes
  <1> QED BY <1>0, <1>4, <1>5 DEF ClientInv, InStep

LEMMA TimeOutKeeps == ASSUME ClientInv, TimeOut PROVE ClientInv' /\ InStep
  <1>0. /\ ClientTypes /\ call.reading /\ framer = << >> /\ stdout = << >> /\ resp' = << >>
        /\ behind' = TRUE /\ Return(Error) /\ framer' = framer
        /\ resp \in Seq(Piece) /\ writing \in Seq(Piece)
        /\ UNCHANGED <<child, stdin, writing, stdout, unasked>>
    BY DEF ClientInv, ClientTypes, TimeOut
  <1>1. << >> \in Seq(Piece) /\ << >> \o writing = writing
    BY <1>0, EmptySeq, ConcatEmptySeq
  <1>2. Stream = resp \o writing /\ Stream' = writing
    BY <1>0, <1>1 DEF Stream
  <1>3. PICK d \in Nat : d = Len(resp)
    BY <1>0, LenProperties
  <1>4. \A j \in DOMAIN Stream' : j + d \in DOMAIN Stream /\ Stream'[j] = Stream[j + d]
    BY <1>0, <1>2, <1>3, Joined
  <1> QED BY <1>0, <1>1, <1>4, CallFails

LEMMA EndOfFileKeeps == ASSUME ClientInv, EndOfFile PROVE ClientInv' /\ InStep
  <1>0. /\ ClientTypes /\ call.reading /\ framer = << >> /\ stdout = << >> /\ resp' = << >>
        /\ child = "exited" /\ writing = << >>
        /\ Return(IF resp = << >> THEN Error ELSE Meaning(resp))
        /\ resp \in Seq(Piece)
        /\ UNCHANGED <<child, stdin, writing, stdout, framer, unasked, behind>>
    BY DEF ClientInv, ClientTypes, EndOfFile
  <1>1. << >> \in Seq(Piece) /\ << >> \o << >> = << >> /\ resp \o << >> = resp
    BY <1>0, EmptySeq, ConcatEmptySeq
  <1>2. Stream = resp /\ Stream' = << >>
    BY <1>0, <1>1 DEF Stream
  <1>3. CASE resp # << >> /\ Meaning(resp) # Error
    BY <1>0, <1>1, <1>2, <1>3, CallAnswered
  <1>4. CASE Return(Error)
    <2>1. DOMAIN Stream' = {}
      BY <1>2
    <2>2. 0 \in Nat /\ \A j \in DOMAIN Stream' : j + 0 \in DOMAIN Stream /\ Stream'[j] = Stream[j + 0]
      BY <2>1
    <2> QED BY <1>0, <1>1, <1>2, <1>4, <2>2, CallFails
  <1> QED BY <1>0, <1>3, <1>4
LEMMA ClientStart == ClientInit => ClientInv
  <1> SUFFICES ASSUME ClientInit PROVE ClientInv
    OBVIOUS
  <1>1. << >> \in Seq(Piece) /\ << >> \in Seq(Nat) /\ << >> \o << >> = << >>
    BY EmptySeq, ConcatEmptySeq
  <1>2. Stream = << >>
    BY <1>1 DEF Stream, ClientInit
  <1>3. ClientTypes
    <2>1. call \in [reading : BOOLEAN, asked : Nat, got : Int] /\ given \in 0 .. call.asked
      BY DEF ClientInit, Error
    <2> QED BY <1>1, <2>1 DEF ClientInit, ClientTypes
  <1> QED BY <1>2, <1>3 DEF ClientInit, ClientInv, Ahead

LEMMA SpawnFailsKeeps == ASSUME ClientInv, SpawnFails PROVE ClientInv' /\ InStep
  <1>1. UNCHANGED <<child, stdin, writing, stdout, framer, resp, call, unasked, behind, given>>
        /\ phase' = "failed"
    BY DEF SpawnFails, pipes
  <1>2. Stream' = Stream
    BY <1>1 DEF Stream
  <1>3. ClientTypes'
    BY <1>1 DEF ClientInv, ClientTypes
  <1> QED BY <1>1, <1>2, <1>3 DEF ClientInv, InStep

LEMMA BrokenPipeKeeps == ASSUME ClientInv, BrokenPipe PROVE ClientInv' /\ InStep
  <1>1. /\ UNCHANGED <<phase, child, stdin, writing, stdout, framer, resp, unasked, behind, given>>
        /\ call' = [reading |-> FALSE, asked |-> call.asked + 1, got |-> Error]
        /\ ~ call.reading /\ child = "exited" /\ call.asked \in Nat
    BY DEF BrokenPipe, pipes, ClientInv, ClientTypes
  <1>2. Stream' = Stream
    BY <1>1 DEF Stream
  <1>3. ClientTypes'
    BY <1>1 DEF ClientInv, ClientTypes, Error
  <1>4. Ahead(Stream, stdin, given, call.asked + 1)
    BY <1>1, ClientTypesOf, LaterAhead DEF ClientInv
  <1> QED BY <1>1, <1>2, <1>3, <1>4 DEF ClientInv, InStep

LEMMA FreeKeeps == ASSUME ClientInv, FreeClient PROVE ClientInv' /\ InStep
  <1>1. << >> \in Seq(Piece) /\ << >> \in Seq(Nat) /\ << >> \o << >> = << >>
    BY EmptySeq, ConcatEmptySeq
  <1>2. Stream' = << >>
    BY <1>1 DEF Stream, FreeClient
  <1>3. ClientTypes' /\ ~ call'.reading /\ call'.asked = call.asked
    <2>1. /\ call' \in [reading : BOOLEAN, asked : Nat, got : Int]
          /\ ~ call'.reading /\ call'.asked = call.asked
      <3>1. PICK c \in [reading : BOOLEAN, asked : Nat, got : Int] : c = call /\ ~ c.reading
        BY DEF ClientInv, ClientTypes, FreeClient
      <3>2. call' = [c EXCEPT !.got = 0]
        BY <3>1 DEF FreeClient, Error
      <3>3. [c EXCEPT !.got = 0] = [reading |-> c.reading, asked |-> c.asked, got |-> 0]
        OBVIOUS
      <3> QED BY <3>1, <3>2, <3>3
    <2>2. given' \in 0 .. call'.asked /\ unasked' \in Nat
      BY <2>1 DEF ClientInv, ClientTypes, FreeClient
    <2> QED BY <1>1, <2>1, <2>2 DEF ClientTypes, FreeClient
  <1> QED BY <1>2, <1>3 DEF ClientInv, Ahead, FreeClient, InStep
LEMMA AskKeeps == ASSUME ClientInv, Ask PROVE ClientInv' /\ InStep
  <1>1. /\ ~ call.reading /\ resp = << >> /\ resp' = << >> /\ child # "exited"
        /\ UNCHANGED <<writing, stdout, framer, unasked, behind, given>>
        /\ phase' \in {"shaking", "ready"} /\ child' = "running"
        /\ stdin' = Append(stdin, call.asked + 1)
        /\ call' = [reading |-> TRUE, asked |-> call.asked + 1, got |-> Error]
        /\ Stream \in Seq(Piece) /\ stdin \in Seq(Nat) /\ given \in Nat /\ call.asked \in Nat
        /\ Ahead(Stream, stdin, given, call.asked)
    BY ClientTypesOf DEF Ask, ClientInv
  <1>2. Stream' = Stream
    BY <1>1 DEF Stream
  <1>3. PICK n \in Nat : n = call.asked + 1 /\ n > call.asked /\ n > 0
    BY <1>1
  <1>4. /\ stdin' \in Seq(Nat) /\ Len(stdin) \in Nat
        /\ DOMAIN stdin = 1 .. Len(stdin) /\ DOMAIN stdin' = 1 .. Len(stdin) + 1
        /\ stdin'[Len(stdin) + 1] = n
        /\ \A i \in DOMAIN stdin : stdin'[i] = stdin[i] /\ stdin[i] \in Nat
    <2>1. stdin' = Append(stdin, n) /\ stdin \in Seq(Nat)
      BY <1>1, <1>3
    <2>2. Appends(stdin, n)
      BY <2>1, Appended
    <2> QED BY ONLY <2>1, <2>2 DEF Appends
  <1>5. ClientTypes'
    BY <1>1, <1>3, <1>4 DEF ClientInv, ClientTypes, Error
  <1>6. Ahead(Stream, stdin', given, n)
    <2>1. \A i \in DOMAIN Stream : Stream[i].of \in Int
      <3>1. \A i \in DOMAIN Stream : Stream[i] \in Piece
        BY <1>1, LenProperties, ElementOfSeq
      <3> QED BY <3>1 DEF Piece
    <2>2. \A i \in DOMAIN Stream : /\ Stream[i].of < n
                                   /\ (Stream[i].of > 0 => given < Stream[i].of /\ Stream[i].of <= n)
      BY <1>1, <1>3, <2>1 DEF Ahead
    <2>3. \A i \in DOMAIN stdin : stdin[i] < n /\ given < stdin[i]
      BY <1>1, <1>3, <1>4 DEF Ahead
    <2>4. \A i \in DOMAIN stdin' : i \in DOMAIN stdin \/ (i = Len(stdin) + 1 /\ stdin'[i] = n)
      BY <1>4
    <2>5. given < n
      BY <1>1, <1>3 DEF ClientInv, ClientTypes
    <2>6. \A i \in DOMAIN stdin' : /\ given < stdin'[i] /\ stdin'[i] <= n
                                   /\ \A j \in DOMAIN Stream : Stream[j].of < stdin'[i]
      BY <1>1, <1>4, <2>2, <2>3, <2>4, <2>5 DEF Ahead
    <2>7. \A i, j \in DOMAIN stdin' : i < j => stdin'[i] < stdin'[j]
      BY <1>1, <1>4, <2>3, <2>4 DEF Ahead
    <2> QED BY <1>1, <2>2, <2>6, <2>7 DEF Ahead
  <1>7. ASSUME ~ behind PROVE Alone(Stream, stdin', n)
    <2>1. Stream = << >> /\ (child = "running" => stdin = << >>) /\ (child = "none" => stdin = << >>)
      BY <1>1, <1>7 DEF ClientInv
    <2>2. child \in {"none", "running"}
      BY <1>1 DEF ClientInv, ClientTypes
    <2> QED BY <1>4, <2>1, <2>2 DEF Alone
  <1> QED BY <1>1, <1>2, <1>3, <1>5, <1>6, <1>7 DEF ClientInv, InStep

\* What a child that speaks begins comes last.
LEMMA LineIs ==
  ASSUME NEW n \in Int, NEW k \in Lengths
  PROVE  /\ Line(n, k) \in Seq(Piece) /\ \A i \in DOMAIN Line(n, k) : Line(n, k)[i].of = n
         /\ \A i, j \in DOMAIN Line(n, k) : i < j => ~ Line(n, k)[i].last
  <1>1. k \in Nat
    BY ClientAssumption
  <1>2. /\ Line(n, k) = [i \in 1 .. k |-> [of |-> n, part |-> i, last |-> i = k]]
        /\ DOMAIN Line(n, k) = 1 .. k
    BY DEF Line
  <1>3. \A i \in 1 .. k : Line(n, k)[i] = [of |-> n, part |-> i, last |-> i = k]
    BY <1>2
  <1>4. \A i \in 1 .. k : [of |-> n, part |-> i, last |-> i = k] \in Piece
    BY <1>1 DEF Piece
  <1>5. Line(n, k) \in Seq(Piece)
    BY <1>1, <1>2, <1>4
  <1>6. \A i \in DOMAIN Line(n, k) : Line(n, k)[i].of = n /\ Line(n, k)[i].last = (i = k)
    BY <1>2, <1>3
  <1>7. \A i, j \in DOMAIN Line(n, k) : i < j => i # k
    BY <1>1, <1>2
  <1> QED BY <1>5, <1>6, <1>7

LEMMA GrownAhead ==
  ASSUME NEW s \in Seq(Piece), NEW l \in Seq(Piece), NEW q \in Seq(Nat), NEW p \in Seq(Nat),
         NEW g \in Nat, NEW a \in Nat, NEW n \in Int, NEW d \in {0, 1}, Ahead(s, q, g, a),
         \A i \in DOMAIN l : l[i].of = n,
         \A i, j \in DOMAIN l : i < j => ~ l[i].last,
         \A i \in DOMAIN p : i + d \in DOMAIN q /\ p[i] = q[i + d],
         \/ n = Unasked
         \/ d = 1 /\ 1 \in DOMAIN q /\ n = q[1]
  PROVE  Ahead(s \o l, p, g, a)
  <1>0. DOMAIN p \subseteq Nat \ {0} /\ DOMAIN q \subseteq Nat /\ \A i \in DOMAIN q : q[i] \in Nat
    <2>1. /\ Len(p) \in Nat /\ DOMAIN p = 1 .. Len(p)
          /\ Len(q) \in Nat /\ DOMAIN q = 1 .. Len(q)
      BY LenProperties
    <2>2. \A i \in DOMAIN q : q[i] \in Nat
      BY ONLY q \in Seq(Nat), <2>1, ElementOfSeq
    <2> QED BY ONLY <2>1, <2>2
  <1>1. /\ Len(s) \in Nat /\ DOMAIN s = 1 .. Len(s) /\ DOMAIN l = 1 .. Len(l) /\ Len(l) \in Nat
        /\ DOMAIN (s \o l) = 1 .. Len(s) + Len(l)
        /\ \A i \in DOMAIN (s \o l) :
              \/ i \in DOMAIN s /\ (s \o l)[i] = s[i]
              \/ i \notin DOMAIN s /\ i - Len(s) \in DOMAIN l /\ (s \o l)[i] = l[i - Len(s)]
    <2>1. /\ Len(s) \in Nat /\ DOMAIN s = 1 .. Len(s) /\ DOMAIN l = 1 .. Len(l) /\ Len(l) \in Nat
          /\ DOMAIN (s \o l) = 1 .. Len(s) + Len(l)
          /\ \A i \in DOMAIN s : (s \o l)[i] = s[i]
          /\ \A i \in DOMAIN (s \o l) :
              i \in DOMAIN s \/ (i - Len(s) \in DOMAIN l /\ (s \o l)[i] = l[i - Len(s)])
      BY Joined
    <2> QED BY ONLY <2>1
  <1>2. \A i \in DOMAIN (s \o l) : i \in DOMAIN s \/ (s \o l)[i].of = n
    BY <1>1
  <1>3. n > 0 => (d = 1 /\ 1 \in DOMAIN q /\ n = q[1])
    BY DEF Unasked
  <1>4. \A i \in DOMAIN (s \o l) : (s \o l)[i].of > 0 => g < (s \o l)[i].of /\ (s \o l)[i].of <= a
    <2>1. n > 0 => g < n /\ n <= a
      BY <1>3 DEF Ahead
    <2> QED BY <1>1, <1>2, <2>1 DEF Ahead
  <1>5. ASSUME NEW i \in DOMAIN (s \o l), NEW j \in DOMAIN (s \o l), i < j, (s \o l)[i].last,
               (s \o l)[i].of > 0, (s \o l)[j].of > 0
        PROVE  (s \o l)[i].of < (s \o l)[j].of
    <2>1. CASE j \in DOMAIN s
      <3>1. i \in DOMAIN s
        BY <1>1, <1>5, <2>1
      <3> QED BY <1>1, <1>5, <2>1, <3>1 DEF Ahead
    <2>2. CASE j \notin DOMAIN s
      <3>1. (s \o l)[j].of = n /\ n > 0 /\ j - Len(s) \in DOMAIN l
        BY <1>1, <1>2, <1>5, <2>2
      <3>2. CASE i \in DOMAIN s
        <4>1. s[i].of < q[1]
          BY <1>3, <3>1, <3>2 DEF Ahead
        <4> QED BY <1>1, <1>3, <3>1, <3>2, <4>1
      <3>3. CASE i \notin DOMAIN s
        <4>1. i - Len(s) \in DOMAIN l /\ l[i - Len(s)].last
          BY <1>1, <1>5, <3>3
        <4>2. i - Len(s) < j - Len(s)
          BY <1>1, <1>5
        <4> QED BY <3>1, <4>1, <4>2
      <3> QED BY <3>2, <3>3
    <2> QED BY <2>1, <2>2
  <1>6. ASSUME NEW i \in DOMAIN p
        PROVE  /\ g < p[i] /\ p[i] <= a
               /\ \A j \in DOMAIN (s \o l) : (s \o l)[j].of < p[i]
    <2>1. i + d \in DOMAIN q /\ p[i] = q[i + d] /\ g < q[i + d] /\ q[i + d] <= a
      BY DEF Ahead
    <2>2. n < q[i + d]
      <3>1. CASE n = Unasked
        BY <1>0, <2>1, <3>1 DEF Unasked
      <3>2. CASE d = 1 /\ 1 \in DOMAIN q /\ n = q[1]
        <4>0. i \in Nat \ {0} /\ d = 1
          BY <1>0, <3>2
        <4>1. 1 < i + d
          BY ONLY <4>0
        <4> QED BY <2>1, <3>2, <4>1 DEF Ahead
      <3> QED BY <3>1, <3>2
    <2>3. \A j \in DOMAIN s : s[j].of < q[i + d]
      BY <2>1 DEF Ahead
    <2> QED BY <1>1, <1>2, <2>1, <2>2, <2>3
  <1>7. ASSUME NEW i \in DOMAIN p, NEW j \in DOMAIN p, i < j PROVE p[i] < p[j]
    <2>1. i + d \in DOMAIN q /\ p[i] = q[i + d] /\ j + d \in DOMAIN q /\ p[j] = q[j + d]
      OBVIOUS
    <2>2. i + d < j + d
      BY <1>0, <1>7
    <2> QED BY <2>1, <2>2 DEF Ahead
  <1> QED BY <1>4, <1>5, <1>6, <1>7 DEF Ahead

\* A line that begins comes after all that is under way.
LEMMA StreamGrows ==
  ASSUME ClientTypes, writing = << >>, UNCHANGED <<resp, framer, stdout>>,
         NEW l \in Seq(Piece), writing' = l
  PROVE  Stream' = Stream \o l
  <1>1. PICK r, f, o \in Seq(Piece) : r = resp /\ f = framer /\ o = stdout
    BY DEF ClientTypes
  <1>2. o \o << >> = o
    BY ConcatEmptySeq
  <1>3. Stream = r \o (f \o o) /\ Stream' = r \o (f \o (o \o l))
    BY <1>1, <1>2 DEF Stream
  <1>4. Regroups(f, o, l)
    BY Regrouped
  <1>5. PICK b \in Seq(Piece) : b = f \o o
    BY Joined
  <1>6. Regroups(r, b, l)
    BY Regrouped
  <1> QED BY ONLY <1>3, <1>4, <1>5, <1>6 DEF Regroups

LEMMA ChildAnswersKeeps == ASSUME ClientInv, ChildAnswers PROVE ClientInv' /\ InStep
  <1>1. PICK k \in Lengths : writing' = Line(Head(stdin), k)
    BY DEF ChildAnswers, Begins
  <1>2. /\ child = "running" /\ writing = << >> /\ stdin # << >> /\ stdin' = Tail(stdin)
        /\ UNCHANGED <<phase, child, stdout, framer, resp, call, given, unasked, behind>>
    BY DEF ChildAnswers, Begins
  <1>3. Stream \in Seq(Piece) /\ stdin \in Seq(Nat) /\ given \in Nat /\ call.asked \in Nat
    BY ClientTypesOf
  <1>4. /\ 1 \in DOMAIN stdin /\ Head(stdin) = stdin[1] /\ Tail(stdin) \in Seq(Nat)
        /\ \A i \in DOMAIN Tail(stdin) : i + 1 \in DOMAIN stdin /\ Tail(stdin)[i] = stdin[i + 1]
    <2>1. Len(stdin) \in Nat \ {0} /\ DOMAIN stdin = 1 .. Len(stdin)
      BY <1>2, <1>3, EmptySeq, LenProperties
    <2>2. /\ Tail(stdin) \in Seq(Nat) /\ Len(Tail(stdin)) = Len(stdin) - 1
          /\ DOMAIN Tail(stdin) = 1 .. Len(Tail(stdin))
          /\ \A i \in 1 .. Len(Tail(stdin)) : Tail(stdin)[i] = stdin[i + 1]
      BY <1>2, <1>3, HeadTailProperties, LenProperties
    <2> QED BY <2>1, <2>2
  <1>5. PICK n \in Nat : n = stdin[1] /\ n = Head(stdin)
    BY <1>3, <1>4, ElementOfSeq, LenProperties
  <1>6. PICK l \in Seq(Piece) :
          /\ l = writing' /\ \A i \in DOMAIN l : l[i].of = n
          /\ \A i, j \in DOMAIN l : i < j => ~ l[i].last
    BY <1>1, <1>5, LineIs
  <1>7. Stream' = Stream \o l
    BY <1>2, <1>6, StreamGrows DEF ClientInv
  <1>8. ClientTypes'
    BY <1>2, <1>4, <1>6 DEF ClientInv, ClientTypes
  <1>9. Ahead(Stream \o l, Tail(stdin), given, call.asked)
    <2>1. PICK s \in Seq(Piece), q \in Seq(Nat) : s = Stream /\ q = stdin
      BY <1>3
    <2>2. Ahead(s, q, given, call.asked)
      BY <2>1 DEF ClientInv
    <2>3. PICK p \in Seq(Nat) : p = Tail(stdin)
      BY <1>4
    <2>4. PICK d \in {0, 1} : d = 1
      OBVIOUS
    <2>5. /\ \/ n = Unasked
             \/ d = 1 /\ 1 \in DOMAIN q /\ n = q[1]
          /\ \A i \in DOMAIN p : i + d \in DOMAIN q /\ p[i] = q[i + d]
      BY <1>4, <1>5, <2>1, <2>3, <2>4
    <2>6. PICK g, a \in Nat : g = given /\ a = call.asked
      BY <1>3
    <2>7. Ahead(s \o l, p, g, a)
      <3>1. n \in Int /\ Ahead(s, q, g, a)
        BY <2>2, <2>6
      <3> QED BY ONLY s \in Seq(Piece), l \in Seq(Piece), q \in Seq(Nat), p \in Seq(Nat), g \in Nat,
                      a \in Nat, d \in {0, 1}, <1>6, <2>5, <3>1, GrownAhead
    <2> QED BY <2>1, <2>3, <2>6, <2>7
  <1>10. ASSUME ~ behind PROVE call.reading /\ Alone(Stream \o l, Tail(stdin), call.asked)
    <2>1. call.reading /\ Alone(Stream, stdin, call.asked)
      BY <1>2, <1>10 DEF ClientInv
    <2>2. n = call.asked
      BY <1>4, <1>5, <2>1 DEF Alone
    <2>3. \A i \in DOMAIN (Stream \o l) : (Stream \o l)[i].of = call.asked
      <3>1. /\ \A i \in DOMAIN Stream : (Stream \o l)[i] = Stream[i]
            /\ \A i \in DOMAIN (Stream \o l) :
                 i \in DOMAIN Stream \/ (i - Len(Stream) \in DOMAIN l /\ (Stream \o l)[i] = l[i - Len(Stream)])
        BY <1>3, Joined
      <3> QED BY <1>6, <2>1, <2>2, <3>1 DEF Alone
    <2> QED BY <1>4, <2>1, <2>3 DEF Alone
  <1> QED BY <1>2, <1>7, <1>8, <1>9, <1>10 DEF ClientInv, InStep

LEMMA ChildSpeaksKeeps == ASSUME ClientInv, ChildSpeaks PROVE ClientInv' /\ InStep
  <1>1. PICK k \in Lengths : writing' = Line(Unasked, k)
    BY DEF ChildSpeaks, Begins
  <1>2. /\ child = "running" /\ writing = << >> /\ behind' = TRUE /\ unasked' = unasked + 1
        /\ UNCHANGED <<phase, child, stdin, stdout, framer, resp, call, given>>
    BY DEF ChildSpeaks, Begins
  <1>3. Stream \in Seq(Piece) /\ stdin \in Seq(Nat) /\ given \in Nat /\ call.asked \in Nat
    BY ClientTypesOf
  <1>4. PICK n \in Int : n = Unasked
    BY DEF Unasked
  <1>6. PICK l \in Seq(Piece) :
          /\ l = writing' /\ \A i \in DOMAIN l : l[i].of = n
          /\ \A i, j \in DOMAIN l : i < j => ~ l[i].last
    BY <1>1, <1>4, LineIs
  <1>7. Stream' = Stream \o l
    BY <1>2, <1>6, StreamGrows DEF ClientInv
  <1>8. ClientTypes'
    BY <1>2, <1>6 DEF ClientInv, ClientTypes
  <1>9. Ahead(Stream \o l, stdin, given, call.asked)
    <2>1. PICK s \in Seq(Piece), q \in Seq(Nat) : s = Stream /\ q = stdin
      BY <1>3
    <2>2. Ahead(s, q, given, call.asked)
      BY <2>1 DEF ClientInv
    <2>3. 0 \in {0, 1} /\ \A i \in DOMAIN q : i + 0 \in DOMAIN q /\ q[i] = q[i + 0]
      BY LenProperties
    <2>4. Ahead(s \o l, q, given, call.asked)
      BY <1>3, <1>4, <1>6, <2>2, <2>3, GrownAhead
    <2> QED BY <2>1, <2>4
  <1> QED BY <1>2, <1>7, <1>8, <1>9 DEF ClientInv, InStep

LEMMA ChildWritesKeeps == ASSUME ClientInv, ChildWrites PROVE ClientInv' /\ InStep
  <1>1. /\ child = "running" /\ writing # << >>
        /\ stdout' = Append(stdout, Head(writing)) /\ writing' = Tail(writing)
        /\ UNCHANGED <<phase, child, stdin, framer, resp, call, unasked, behind, given>>
    BY DEF ChildWrites
  <1>2. stdout \in Seq(Piece) /\ writing \in Seq(Piece)
    BY DEF ClientInv, ClientTypes
  <1>3. stdout' \in Seq(Piece) /\ writing' \in Seq(Piece) /\ stdout' \o writing' = stdout \o writing
    BY <1>1, <1>2, HeadThenTail
  <1>4. Stream' = Stream
    BY <1>1, <1>3 DEF Stream
  <1>5. ClientTypes'
    BY <1>1, <1>3 DEF ClientInv, ClientTypes
  <1> QED BY <1>1, <1>4, <1>5 DEF ClientInv, InStep

LEMMA ChildExitsKeeps == ASSUME ClientInv, ChildExits PROVE ClientInv' /\ InStep
  <1>1. /\ child = "running" /\ child' = "exited" /\ writing' = << >>
        /\ UNCHANGED <<phase, stdin, stdout, framer, resp, call, unasked, behind, given>>
    BY DEF ChildExits
  <1>2. ClientTypes' /\ ClientTypes
    BY <1>1, EmptySeq DEF ClientInv, ClientTypes
  <1>3. PICK r, f, o, w \in Seq(Piece) : r = resp /\ f = framer /\ o = stdout /\ w = writing
    BY <1>2 DEF ClientTypes
  <1>4. /\ o \o w \in Seq(Piece) /\ f \o (o \o w) \in Seq(Piece)
        /\ Stream = r \o (f \o (o \o w)) /\ Stream' = r \o (f \o o)
    BY <1>1, <1>3, Joined4, ConcatEmptySeq DEF Stream
  <1>5. Stream = Stream' \o w
    <2>1. Regroups(f, o, w)
      BY Regrouped
    <2>2. PICK b \in Seq(Piece) : b = f \o o
      BY Joined
    <2>3. Regroups(r, b, w)
      BY Regrouped
    <2> QED BY ONLY <1>4, <2>1, <2>2, <2>3 DEF Regroups
  <1>6. Stream \in Seq(Piece) /\ Stream' \in Seq(Piece)
        /\ stdin \in Seq(Nat) /\ given \in Nat /\ call.asked \in Nat
    <2>1. r \o (f \o o) \in Seq(Piece)
      BY Joined
    <2> QED BY <1>4, <2>1, ClientTypesOf
  <1>7. \A j \in DOMAIN Stream' : j \in DOMAIN Stream /\ Stream'[j] = Stream[j]
    <2>1. PICK s \in Seq(Piece) : s = Stream'
      BY <1>6
    <2>2. \A j \in DOMAIN s : j \in DOMAIN (s \o w) /\ (s \o w)[j] = s[j]
      BY Joined
    <2> QED BY <1>5, <2>1, <2>2
  <1>8. Ahead(Stream', stdin, given, call.asked)
    BY <1>7 DEF ClientInv, Ahead
  <1>9. Stream = << >> => Stream' = << >>
    <2>1. DOMAIN << >> = {}
      OBVIOUS
    <2>2. Stream = << >> => DOMAIN Stream' = {}
      BY ONLY <1>7, <2>1
    <2> QED BY <1>6, <2>2, NoneIn
  <1>10. Alone(Stream, stdin, call.asked) => Alone(Stream', stdin, call.asked)
    BY <1>7 DEF Alone
  <1> QED BY <1>1, <1>2, <1>8, <1>9, <1>10 DEF ClientInv, InStep

LEMMA ClientStepKeeps == ClientInv /\ [ClientNext]_clientVars => ClientInv' /\ [InStep]_clientVars
  <1> SUFFICES ASSUME ClientInv, [ClientNext]_clientVars PROVE ClientInv' /\ [InStep]_clientVars
    OBVIOUS
  <1>1. CASE ClientNext
    BY <1>1, SpawnFailsKeeps, AskKeeps, BrokenPipeKeeps, TakeLineKeeps, MoveOnKeeps, ReadKeeps,
       TimeOutKeeps, EndOfFileKeeps, FreeKeeps, ChildAnswersKeeps, ChildSpeaksKeeps,
       ChildWritesKeeps, ChildExitsKeeps DEF ClientNext
  <1>2. CASE UNCHANGED clientVars
    <2>1. UNCHANGED <<phase, child, stdin, writing, stdout, framer, resp, call, unasked, behind, given>>
      BY <1>2 DEF clientVars
    <2>2. Stream' = Stream /\ ClientTypes'
      BY <2>1 DEF Stream, ClientInv, ClientTypes
    <2> QED BY <1>2, <2>1, <2>2 DEF ClientInv
  <1> QED BY <1>1, <1>2

\* However lines are cut into blocks and wherever the child dies, a call returns
\* the answer to its own request as long as the client is in step, and no answer
\* is ever returned twice.
THEOREM AnswersInStepAlways == ClientSpec => AnswersInStep
  BY ClientStart, ClientStepKeeps, PTL DEF ClientSpec, AnswersInStep

=============================================================================
