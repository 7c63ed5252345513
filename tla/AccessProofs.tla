---------------------------- MODULE AccessProofs ----------------------------
(***************************************************************************)
(* What keeps the wrong request out: that a confirmation is used once,     *)
(* that a revoked token is refused once the cache's time to live is over,  *)
(* and that the roles of the ledgers stay sound.  The three components     *)
(* share no state, and each part below speaks of one of them.              *)
(***************************************************************************)
EXTENDS Confirmation, Sessions, Membership, RateLimit,
        FiniteSetTheorems, SequenceTheorems, WellFoundedInduction, TLAPS

-----------------------------------------------------------------------------
(* A confirmation is used once, for any requests, nonces, sizes of the ring, *)
(* lifetimes and number of rollbacks.                                        *)
Busy(t)      == req[t].pc # "idle"
About(t, n)  == Busy(t) /\ req[t].nonce = n
PastRing(t)  == req[t].pc \in {"select", "backfill", "insert", "clean", "record"}
Holding(t)   == req[t].pc \in {"clean", "record"}

(* A request lives for Grace seconds at most, on a token that had not expired. *)
Timely == \A t \in Verifiers : Busy(t) =>
    req[t].now <= clock /\ clock <= req[t].now + Grace /\ expiry[req[t].nonce] > req[t].now

(* The row of a used nonce stays until no request can be about it any more,   *)
(* unless it is rolled back ...                                               *)
Used(n) == accepted[n] > 0 \/ \E t \in Verifiers : Holding(t) /\ req[t].nonce = n
RowKept == \A n \in Nonces :
    /\ accepted[n] > 0 => expiry[n] > 0
    /\ Used(n) => n \in undone \cup rows \/ clock > expiry[n] + Grace

(* ... so that only one request gets to use it.                               *)
OneUse == \A n \in Nonces \ undone :
    /\ accepted[n] < 2
    /\ \A t \in Verifiers : Holding(t) /\ req[t].nonce = n =>
          /\ accepted[n] = 0
          /\ \A u \in Verifiers : Holding(u) /\ req[u].nonce = n => u = t

(* And the ring turns a later request away, unless it has lost the nonce.     *)
Together == \A t, u \in Verifiers : t # u /\ Busy(t) /\ About(u, req[t].nonce)
                                     => req[t].nonce \in overlapped
Remembered(n) == \E i \in DOMAIN ring : ring[i].nonce = n /\ ring[i].exp = expiry[n]
RingKept == \A n \in Nonces : accepted[n] > 0 => n \in forgotten \/ Remembered(n)
Excused  == \A n \in Nonces :
    /\ accepted[n] > 0 => \A t \in Verifiers :
          PastRing(t) /\ req[t].nonce = n => n \in forgotten \cup overlapped
    /\ accepted[n] > 1 => n \in forgotten \cup overlapped

ConfInv == ConfTypes /\ Timely /\ RowKept /\ OneUse /\ Together /\ RingKept /\ Excused

-----------------------------------------------------------------------------
Pcs == {"ring", "select", "backfill", "insert", "clean", "record"}
Use == [pc : Pcs, nonce : Nonces, now : 1 .. MaxTime]

LEMMA Sizes ==
  /\ RingSize \in Nat /\ RingSize > 0 /\ MaxTime \in Nat /\ MaxTime > 0
  /\ Ttl \in Nat /\ Grace \in Nat /\ GcEvery \in Nat
  BY ConfAssumption

LEMMA UseOf == ASSUME ConfTypes, NEW t \in Verifiers
               PROVE  /\ req \in [Verifiers -> {NoUse} \cup Use]
                      /\ Busy(t) => req[t] \in Use
                      /\ ~Busy(t) <=> req[t] = NoUse
  <1>1. req \in [Verifiers -> {NoUse} \cup Use]
    BY DEF ConfTypes, Use, Pcs
  <1>2. req[t] = NoUse \/ req[t] \in Use
    BY <1>1
  <1> QED BY <1>1, <1>2 DEF Busy, NoUse, Use, Pcs

LEMMA ConfStart == ConfInit => ConfInv
  <1> SUFFICES ASSUME ConfInit PROVE ConfInv
    OBVIOUS
  <1>1. ConfTypes
    BY Sizes DEF ConfInit, ConfTypes
  <1>2. \A t \in Verifiers : req[t].pc = "idle"
    BY DEF ConfInit, NoUse
  <1> QED BY <1>1, <1>2 DEF ConfInit, ConfInv, Timely, RowKept, OneUse, Together, RingKept,
                            Excused, Used, Busy, About, Holding, PastRing

(* A request that moves on within its use, or ends it, without taking it.     *)
LEMMA OnlyMoves ==
  ASSUME ConfInv, NEW t \in Verifiers, NEW q \in {NoUse} \cup Use,
         req' = [req EXCEPT ![t] = q],
         q # NoUse => /\ Busy(t) /\ q.nonce = req[t].nonce /\ q.now = req[t].now
                      /\ q.pc \in {"clean", "record"} => Holding(t)
                      /\ q.pc # "ring" => PastRing(t) \/ ~InRing(q.nonce, q.now),
         UNCHANGED <<clock, expiry, ring, cursor, rows, undo, accepted, undone, forgotten,
                     overlapped>>
  PROVE  ConfInv'
  <1>0. /\ \A u \in Verifiers : u # t => req'[u] = req[u]
        /\ req'[t] = q
        /\ ~(NoUse.pc # "idle")
    BY UseOf DEF ConfInv, NoUse
  <1>1. ConfTypes'
    BY UseOf DEF ConfInv, ConfTypes, Use, Pcs
  <1>2. Timely'
    BY <1>0 DEF ConfInv, Timely, Busy
  <1>3. ASSUME NEW u \in Verifiers
        PROVE  /\ Holding(u)' => Holding(u) /\ req'[u].nonce = req[u].nonce
               /\ Busy(u)' => Busy(u) /\ req'[u].nonce = req[u].nonce
    BY <1>0 DEF Holding, Busy, NoUse
  <1>4. RowKept'
    BY <1>3 DEF ConfInv, RowKept, Used
  <1>5. OneUse'
    BY <1>3 DEF ConfInv, OneUse
  <1>6. Together'
    BY <1>3 DEF ConfInv, Together, About
  <1>7. RingKept'
    BY DEF ConfInv, RingKept, Remembered
  <1>8. Excused'
    <2> SUFFICES ASSUME NEW n \in Nonces, accepted[n] > 0, NEW u \in Verifiers,
                        PastRing(u)', req'[u].nonce = n
                 PROVE  n \in forgotten \cup overlapped
      BY DEF ConfInv, Excused
    <2>1. CASE u # t \/ PastRing(t)
      BY <1>0, <1>3, <2>1 DEF ConfInv, Excused, PastRing, Busy
    <2>2. CASE u = t /\ ~PastRing(t)
      <3>1. q # NoUse /\ q.pc # "ring" /\ q.nonce = n /\ q.now = req[t].now /\ Busy(t)
            /\ req[t].nonce = n
        BY <1>0, <2>2 DEF PastRing, NoUse
      <3>2. ~InRing(n, q.now)
        BY <2>2, <3>1
      <3>3. expiry[n] > q.now /\ expiry[n] \in Nat /\ q.now \in Nat
        BY <3>1, UseOf, Sizes DEF ConfInv, Timely, ConfTypes, Use
      <3>4. ~Remembered(n)
        BY <3>2, <3>3 DEF Remembered, InRing
      <3> QED BY <3>4 DEF ConfInv, RingKept
    <2> QED BY <2>1, <2>2
  <1> QED BY <1>1, <1>2, <1>4, <1>5, <1>6, <1>7, <1>8 DEF ConfInv

LEMMA LooksKeep ==
  ASSUME ConfInv, NEW t \in Verifiers, LookInRing(t) \/ LookInTable(t)
  PROVE  ConfInv'
  <1>1. Busy(t) /\ req[t] \in Use
    BY UseOf DEF LookInRing, LookInTable, Busy, ConfInv
  <1>2. PICK q \in {NoUse} \cup Use :
          /\ req' = [req EXCEPT ![t] = q]
          /\ q # NoUse => /\ q.nonce = req[t].nonce /\ q.now = req[t].now
                          /\ q.pc \in {"select", "backfill", "insert"}
                          /\ PastRing(t) \/ ~InRing(q.nonce, q.now)
    <2>1. CASE EndUse(t)
      BY <2>1 DEF EndUse
    <2>2. ASSUME NEW pc \in {"select", "backfill", "insert"}, Goes(t, pc),
                 PastRing(t) \/ ~InRing(req[t].nonce, req[t].now)
          PROVE  \E q \in Use :
                   /\ req' = [req EXCEPT ![t] = q]
                   /\ q.nonce = req[t].nonce /\ q.now = req[t].now /\ q.pc = pc
      <3> DEFINE q == [req[t] EXCEPT !.pc = pc]
      <3>1. q \in Use /\ q.nonce = req[t].nonce /\ q.now = req[t].now /\ q.pc = pc
        BY <1>1 DEF Use, Pcs
      <3>2. req' = [req EXCEPT ![t] = q]
        BY <2>2 DEF Goes
      <3> QED BY <3>1, <3>2
    <2>3. \/ EndUse(t)
          \/ \E pc \in {"select", "backfill", "insert"} :
                Goes(t, pc) /\ (PastRing(t) \/ ~InRing(req[t].nonce, req[t].now))
      BY DEF LookInRing, LookInTable, PastRing
    <2> QED BY <2>1, <2>2, <2>3
  <1> QED BY <1>1, <1>2, OnlyMoves DEF LookInRing, LookInTable

(* Writing the ring loses no entry unnoticed.                                 *)
LEMMA Recorded ==
  ASSUME ConfTypes, NEW n \in Nonces, Record(n)
  PROVE  /\ ring' \in Seq([nonce : Nonces, exp : Nat]) /\ Len(ring') <= RingSize
         /\ cursor' \in 1 .. RingSize
         /\ forgotten \subseteq forgotten' /\ forgotten' \subseteq Nonces
         /\ \E i \in DOMAIN ring' : ring'[i] = [nonce |-> n, exp |-> expiry[n]]
         /\ \A i \in DOMAIN ring : \/ i \in DOMAIN ring' /\ ring'[i] = ring[i]
                                   \/ ring[i].nonce \in forgotten'
  <1> DEFINE Entry == [nonce : Nonces, exp : Nat]
             entry == [nonce |-> n, exp |-> expiry[n]]
  <1>1. /\ ring \in Seq(Entry) /\ Len(ring) \in Nat /\ Len(ring) <= RingSize
        /\ DOMAIN ring = 1 .. Len(ring)
        /\ entry \in Entry /\ entry.nonce = n
        /\ cursor \in 1 .. RingSize /\ RingSize \in Nat \ {0}
        /\ forgotten \subseteq Nonces
    BY Sizes DEF ConfTypes
  <1>2. PICK k \in RingSlots :
          /\ ring' = IF k > Len(ring) THEN Append(ring, entry) ELSE [ring EXCEPT ![k] = entry]
          /\ forgotten' = forgotten \cup (IF k > Len(ring) THEN {} ELSE {ring[k].nonce})
          /\ cursor' \in {cursor, (cursor % RingSize) + 1}
    BY DEF Record
  <1>3. k \in 1 .. Len(ring) + 1 /\ (k > Len(ring) => Len(ring) < RingSize)
    <2>1. CASE Expired # {}
      <3>1. k \in Expired
        BY <2>1 DEF RingSlots
      <3> QED BY <1>1, <3>1 DEF Expired
    <2>2. CASE Expired = {} /\ Len(ring) < RingSize
      <3>1. k = Len(ring) + 1
        BY <2>2 DEF RingSlots
      <3> QED BY <1>1, <2>2, <3>1
    <2>3. CASE Expired = {} /\ ~(Len(ring) < RingSize)
      <3>1. k = cursor
        BY <2>3 DEF RingSlots
      <3> QED BY <1>1, <2>3, <3>1
    <2> QED BY <2>1, <2>2, <2>3
  <1>4. cursor' \in 1 .. RingSize
    <2>1. cursor % RingSize \in 0 .. RingSize - 1
      BY <1>1
    <2> QED BY <1>1, <1>2, <2>1
  <1> HIDE DEF Entry, entry
  <1>5. CASE k > Len(ring)
    <2>1. k = Len(ring) + 1 /\ ring' = Append(ring, entry) /\ forgotten' = forgotten
      BY <1>1, <1>2, <1>3, <1>5
    <2>2. ring' \in Seq(Entry) /\ Len(ring') = Len(ring) + 1
      BY <1>1, <2>1
    <2>3. DOMAIN ring' = 1 .. Len(ring) + 1
      BY <2>2, <1>1
    <2>4. ring'[k] = entry /\ \A i \in 1 .. Len(ring) : ring'[i] = ring[i]
      BY <1>1, <2>1
    <2>5. Len(ring') <= RingSize
      BY <1>1, <1>3, <1>5, <2>2
    <2>6. k \in DOMAIN ring'
      BY <1>3, <2>1, <2>3
    <2>7. \A i \in DOMAIN ring : i \in DOMAIN ring' /\ ring'[i] = ring[i]
      BY <1>1, <2>3, <2>4
    <2> QED BY <1>1, <1>4, <2>1, <2>2, <2>4, <2>5, <2>6, <2>7 DEF Entry, entry
  <1>6. CASE ~(k > Len(ring))
    <2>1. /\ ring' = [ring EXCEPT ![k] = entry]
          /\ forgotten' = forgotten \cup {ring[k].nonce}
          /\ k \in 1 .. Len(ring)
      BY <1>1, <1>2, <1>3, <1>6
    <2>2. /\ ring' \in Seq(Entry) /\ Len(ring') = Len(ring)
          /\ DOMAIN ring' = DOMAIN ring
      BY <1>1, <2>1
    <2>3. ring'[k] = entry /\ \A i \in DOMAIN ring : i # k => ring'[i] = ring[i]
      BY <1>1, <2>1
    <2>4. ring[k] \in Entry
      BY <1>1, <2>1
    <2>5. ring[k].nonce \in Nonces
      BY <2>4 DEF Entry
    <2>6. \A i \in DOMAIN ring : ring'[i] = ring[i] \/ ring[i].nonce \in forgotten'
      BY <2>1, <2>3
    <2> QED BY <1>1, <1>4, <2>1, <2>2, <2>3, <2>5, <2>6 DEF Entry, entry
  <1> QED BY <1>5, <1>6

LEMMA RecordKeeps ==
  ASSUME ConfTypes, RingKept, NEW n \in Nonces, Record(n), expiry' = expiry
  PROVE  /\ Remembered(n)'
         /\ \A m \in Nonces : m \in forgotten \/ Remembered(m)
                               => m \in forgotten' \/ Remembered(m)'
  <1>1. Remembered(n)'
    BY Recorded DEF Remembered
  <1>2. ASSUME NEW m \in Nonces, Remembered(m) PROVE m \in forgotten' \/ Remembered(m)'
    <2>1. PICK i \in DOMAIN ring : ring[i].nonce = m /\ ring[i].exp = expiry[m]
      BY <1>2 DEF Remembered
    <2>2. (i \in DOMAIN ring' /\ ring'[i] = ring[i]) \/ m \in forgotten'
      BY <2>1, Recorded
    <2> QED BY <2>1, <2>2 DEF Remembered
  <1>3. forgotten \subseteq forgotten'
    BY Recorded
  <1> QED BY <1>1, <1>2, <1>3

(* A request that ends has no claims; when the ring is written, everything    *)
(* about it still holds.                                                      *)
LEMMA BackfillKeeps ==
  ASSUME ConfInv, NEW t \in Verifiers, Backfill(t)
  PROVE  ConfInv'
  <1> PICK n : n = req[t].nonce
    OBVIOUS
  <1>1. Busy(t) /\ n \in Nonces
    BY UseOf DEF Backfill, Busy, ConfInv, Use
  <1>2. Record(n) /\ req' = [req EXCEPT ![t] = NoUse]
    BY DEF Backfill, EndUse
  <1>3. /\ ring' \in Seq([nonce : Nonces, exp : Nat]) /\ Len(ring') <= RingSize
        /\ cursor' \in 1 .. RingSize
        /\ forgotten \subseteq forgotten' /\ forgotten' \subseteq Nonces
    BY <1>1, <1>2, Recorded DEF ConfInv
  <1>4. ConfTypes'
    BY <1>2, <1>3 DEF Backfill, ConfInv, ConfTypes
  <1>5. ASSUME NEW u \in Verifiers PROVE req'[u] = req[u] \/ req'[u] = NoUse
    BY <1>2, UseOf DEF ConfInv
  <1>6. ASSUME NEW u \in Verifiers
        PROVE  /\ Holding(u)' => Holding(u) /\ req'[u].nonce = req[u].nonce
               /\ Busy(u)' => Busy(u) /\ req'[u] = req[u]
               /\ PastRing(u)' => PastRing(u) /\ req'[u].nonce = req[u].nonce
    BY <1>5 DEF Holding, Busy, PastRing, NoUse
  <1>7. Timely' /\ RowKept' /\ OneUse' /\ Together'
    BY <1>6 DEF Backfill, ConfInv, Timely, RowKept, Used, OneUse, Together, About
  <1>8. RingKept'
    <2>1. \A m \in Nonces : m \in forgotten \/ Remembered(m)
                               => m \in forgotten' \/ Remembered(m)'
      BY <1>1, <1>2, RecordKeeps DEF Backfill, ConfInv
    <2> QED BY <2>1 DEF Backfill, ConfInv, RingKept
  <1>9. Excused'
    BY <1>3, <1>6 DEF Backfill, ConfInv, Excused
  <1> QED BY <1>4, <1>7, <1>8, <1>9 DEF ConfInv

(* The one step that begins a use: no row, and a token on which a request can *)
(* still be about.                                                            *)
LEMMA InsertKeeps ==
  ASSUME ConfInv, NEW t \in Verifiers, InsertNonce(t)
  PROVE  ConfInv'
  <1> PICK n : n = req[t].nonce
    OBVIOUS
  <1>1. Busy(t) /\ req[t] \in Use /\ n \in Nonces /\ PastRing(t) /\ ~Holding(t)
    BY UseOf DEF InsertNonce, Busy, PastRing, Holding, ConfInv, Use
  <1>2. CASE EndUse(t) /\ UNCHANGED rows
    BY <1>2, OnlyMoves DEF InsertNonce, EndUse
  <1>3. CASE /\ n \notin rows /\ rows' = rows \cup {n}
             /\ Goes(t, "clean") \/ Goes(t, "record")
    <2>1. PICK q : /\ q \in Use /\ q.nonce = n /\ q.now = req[t].now
                   /\ q.pc \in {"clean", "record"}
                   /\ req' = [req EXCEPT ![t] = q]
      <3>1. ASSUME NEW pc \in {"clean", "record"}, Goes(t, pc)
            PROVE  \E q : /\ q \in Use /\ q.nonce = n /\ q.now = req[t].now
                          /\ q.pc \in {"clean", "record"}
                          /\ req' = [req EXCEPT ![t] = q]
        <4> DEFINE q == [req[t] EXCEPT !.pc = pc]
        <4>1. q \in Use /\ q.nonce = n /\ q.now = req[t].now /\ q.pc \in {"clean", "record"}
          BY <1>1 DEF Use, Pcs
        <4>2. req' = [req EXCEPT ![t] = q]
          BY <3>1 DEF Goes
        <4> QED BY <4>1, <4>2
      <3> QED BY <1>3, <3>1
    <2>2. /\ req'[t] = q
          /\ \A u \in Verifiers : u # t => req'[u] = req[u]
      BY <2>1, UseOf DEF ConfInv
    <2>3. ConfTypes'
      BY <1>1, <1>3, <2>1 DEF InsertNonce, ConfInv, ConfTypes, Use, Pcs
    <2>4. ~Used(n) \/ n \in undone
      <3>1. /\ clock <= req[t].now + Grace /\ expiry[n] > req[t].now
            /\ clock \in Nat /\ expiry[n] \in Nat /\ req[t].now \in Nat
        BY <1>1, Sizes DEF ConfInv, Timely, ConfTypes, Use
      <3>2. ~(clock > expiry[n] + Grace)
        BY <3>1, Sizes
      <3> QED BY <1>1, <1>3, <3>2 DEF ConfInv, RowKept
    <2>5. ASSUME NEW u \in Verifiers
          PROVE  /\ Busy(u)' <=> Busy(u)
                 /\ req'[u].nonce = req[u].nonce
                 /\ Busy(u) => req'[u].now = req[u].now
                 /\ PastRing(u)' <=> PastRing(u)
                 /\ Holding(u)' <=> u = t \/ Holding(u)
      BY <1>1, <2>1, <2>2 DEF Busy, PastRing, Holding
    <2>6. Timely'
      BY <2>5 DEF InsertNonce, ConfInv, Timely
    <2>7. RowKept'
      <3>1. ASSUME NEW m \in Nonces, m # n PROVE Used(m)' => Used(m)
        BY <2>5, <3>1 DEF InsertNonce, Used
      <3> QED BY <1>3, <3>1 DEF InsertNonce, ConfInv, RowKept
    <2>8. OneUse'
      <3> SUFFICES ASSUME NEW m \in Nonces, m \notin undone
                   PROVE  /\ accepted[m] < 2
                          /\ \A u \in Verifiers : Holding(u)' /\ req'[u].nonce = m =>
                                /\ accepted[m] = 0
                                /\ \A v \in Verifiers :
                                      Holding(v)' /\ req'[v].nonce = m => v = u
        BY DEF InsertNonce, OneUse
      <3>1. CASE m # n
        BY <2>5, <3>1 DEF ConfInv, OneUse
      <3>2. CASE m = n
        <4>1. accepted[n] \in 0 .. 2 /\ ~(accepted[n] > 0)
              /\ \A u \in Verifiers : ~(Holding(u) /\ req[u].nonce = n)
          BY <1>1, <2>4, <3>2 DEF Used, ConfInv, ConfTypes
        <4>2. accepted[n] = 0
          BY <4>1
        <4>3. \A u \in Verifiers : Holding(u)' /\ req'[u].nonce = n => u = t
          BY <2>5, <4>1
        <4> QED BY <3>2, <4>2, <4>3
      <3> QED BY <3>1, <3>2
    <2>9. Together'
      BY <2>5 DEF InsertNonce, ConfInv, Together, About
    <2>10. RingKept'
      BY DEF InsertNonce, ConfInv, RingKept, Remembered
    <2>11. Excused'
      BY <2>5 DEF InsertNonce, ConfInv, Excused
    <2> QED BY <2>3, <2>6, <2>7, <2>8, <2>9, <2>10, <2>11 DEF ConfInv
  <1> QED BY <1>2, <1>3 DEF InsertNonce, KeyIsFree

LEMMA AcceptKeeps ==
  ASSUME ConfInv, NEW t \in Verifiers, Accept(t)
  PROVE  ConfInv'
  <1> PICK n : n = req[t].nonce
    OBVIOUS
  <1>1. Busy(t) /\ n \in Nonces /\ Holding(t) /\ PastRing(t)
    BY UseOf DEF Accept, Busy, Holding, PastRing, ConfInv, Use
  <1>2. /\ Record(n) /\ req' = [req EXCEPT ![t] = NoUse]
        /\ accepted' = [accepted EXCEPT ![n] = IF @ = 0 THEN 1 ELSE 2]
    BY DEF Accept, EndUse
  <1>3. /\ ring' \in Seq([nonce : Nonces, exp : Nat]) /\ Len(ring') <= RingSize
        /\ cursor' \in 1 .. RingSize
        /\ forgotten \subseteq forgotten' /\ forgotten' \subseteq Nonces
    BY <1>1, <1>2, Recorded DEF ConfInv
  <1>4. /\ accepted \in [Nonces -> 0 .. 2] /\ accepted' \in [Nonces -> 0 .. 2]
        /\ accepted'[n] > 0
        /\ accepted'[n] > 1 <=> accepted[n] > 0
        /\ \A m \in Nonces : m # n => accepted'[m] = accepted[m]
    BY <1>1, <1>2 DEF ConfInv, ConfTypes
  <1>5. ConfTypes'
    BY <1>2, <1>3, <1>4 DEF Accept, ConfInv, ConfTypes
  <1>6. ASSUME NEW u \in Verifiers
        PROVE  /\ Holding(u)' => u # t /\ Holding(u) /\ req'[u].nonce = req[u].nonce
               /\ Busy(u)' => u # t /\ Busy(u) /\ req'[u] = req[u]
               /\ PastRing(u)' => u # t /\ PastRing(u) /\ req'[u].nonce = req[u].nonce
    BY <1>2, UseOf DEF Holding, Busy, PastRing, NoUse, ConfInv
  <1>7. Timely' /\ Together'
    BY <1>6 DEF Accept, ConfInv, Timely, Together, About
  <1>8. RowKept'
    <2>1. ASSUME NEW m \in Nonces PROVE Used(m)' => Used(m)
      BY <1>1, <1>4, <1>6 DEF Used
    <2>2. expiry[n] > 0
      BY <1>1, UseOf, Sizes DEF ConfInv, Timely, ConfTypes, Use
    <2> QED BY <1>4, <2>1, <2>2 DEF Accept, ConfInv, RowKept
  <1>9. OneUse'
    <2>1. n \notin undone => accepted[n] = 0
      BY <1>1 DEF ConfInv, OneUse
    <2>2. n \notin undone => \A u \in Verifiers : Holding(u)' => req'[u].nonce # n
      BY <1>1, <1>6 DEF ConfInv, OneUse
    <2> QED BY <1>4, <1>6, <2>1, <2>2 DEF Accept, ConfInv, OneUse
  <1>10. RingKept'
    <2>1. /\ Remembered(n)'
          /\ \A m \in Nonces : m \in forgotten \/ Remembered(m)
                               => m \in forgotten' \/ Remembered(m)'
      BY <1>1, <1>2, RecordKeeps DEF Accept, ConfInv
    <2> QED BY <1>4, <2>1 DEF ConfInv, RingKept
  <1>11. Excused'
    <2>1. ASSUME NEW u \in Verifiers, PastRing(u)', req'[u].nonce = n
          PROVE  n \in overlapped
      <3>1. u # t /\ Busy(u) /\ req[u].nonce = n
        BY <1>6, <2>1 DEF Busy, PastRing
      <3> QED BY <1>1, <3>1 DEF ConfInv, Together, About
    <2>2. accepted[n] > 0 => n \in forgotten \cup overlapped
      BY <1>1 DEF ConfInv, Excused
    <2>3. overlapped' = overlapped
      BY DEF Accept
    <2>4. ASSUME NEW m \in Nonces, m # n
          PROVE  /\ accepted'[m] > 0 => \A u \in Verifiers :
                        PastRing(u)' /\ req'[u].nonce = m => m \in forgotten' \cup overlapped'
                 /\ accepted'[m] > 1 => m \in forgotten' \cup overlapped'
      BY <1>3, <1>4, <1>6, <2>3, <2>4 DEF ConfInv, Excused
    <2> QED BY <1>3, <1>4, <2>1, <2>2, <2>3, <2>4 DEF Excused
  <1> QED BY <1>5, <1>7, <1>8, <1>9, <1>10, <1>11 DEF ConfInv


(* Issuing a token, which no request can be about yet.                        *)
LEMMA IssueKeeps ==
  ASSUME ConfInv, NEW n \in Nonces, Issue(n)
  PROVE  ConfInv'
  <1>1. /\ expiry \in [Nonces -> Nat] /\ clock \in Nat /\ clock + Ttl \in Nat
        /\ expiry' = [expiry EXCEPT ![n] = clock + Ttl]
    BY Sizes DEF Issue, ConfInv, ConfTypes
  <1>2. /\ expiry' \in [Nonces -> Nat]
        /\ \A m \in Nonces : m # n => expiry'[m] = expiry[m]
    BY <1>1
  <1>3. ASSUME NEW t \in Verifiers, Busy(t)
        PROVE  req[t].nonce \in Nonces /\ req[t].nonce # n
    <2>1. req[t].nonce \in Nonces /\ req[t].now \in Nat
      BY <1>3, UseOf, Sizes DEF ConfInv, Use
    <2> QED BY <1>1, <1>3, <2>1 DEF Issue, ConfInv, Timely
  <1>4. ~Used(n)
    <2>1. accepted[n] \in Nat /\ ~(accepted[n] > 0)
      BY <1>1 DEF Issue, ConfInv, RowKept, ConfTypes
    <2>2. ASSUME NEW t \in Verifiers, Holding(t) PROVE req[t].nonce # n
      BY <1>3, <2>2 DEF Holding, Busy
    <2> QED BY <2>1, <2>2 DEF Used
  <1>5. ConfTypes'
    BY <1>2 DEF Issue, ConfInv, ConfTypes
  <1>6. Timely'
    BY <1>2, <1>3 DEF Issue, ConfInv, Timely, Busy
  <1>7. RowKept'
    <2>1. \A m \in Nonces : Used(m)' <=> Used(m)
      BY DEF Issue, Used, Holding
    <2>2. ~(accepted[n] > 0)
      BY <1>4 DEF Used
    <2> QED BY <1>2, <1>4, <2>1, <2>2 DEF Issue, ConfInv, RowKept
  <1>8. OneUse' /\ Together' /\ Excused'
    BY DEF Issue, ConfInv, OneUse, Together, Excused, Holding, Busy, About, PastRing
  <1>9. RingKept'
    BY <1>2, <1>4 DEF Issue, ConfInv, RingKept, Remembered, Used
  <1> QED BY <1>5, <1>6, <1>7, <1>8, <1>9 DEF ConfInv

(* A request that begins.                                                     *)
LEMMA VerifyKeeps ==
  ASSUME ConfInv, NEW t \in Verifiers, NEW n \in Nonces, Verify(t, n)
  PROVE  ConfInv'
  <1> DEFINE q == [pc |-> "ring", nonce |-> n, now |-> clock]
  <1>1. q \in Use /\ clock \in 1 .. MaxTime /\ clock \in Nat
    BY Sizes DEF ConfInv, ConfTypes, Use, Pcs
  <1>2. /\ req'[t] = q /\ \A u \in Verifiers : u # t => req'[u] = req[u]
        /\ req' \in [Verifiers -> {NoUse} \cup Use]
    BY <1>1, UseOf DEF Verify, ConfInv
  <1>3. ~Busy(t)
    BY DEF Verify, Busy
  <1>4. overlapped \subseteq overlapped' /\ overlapped' \subseteq Nonces
    BY DEF Verify, ConfInv, ConfTypes
  <1>5. ConfTypes'
    BY <1>2, <1>4 DEF Verify, ConfInv, ConfTypes, Use, Pcs
  <1>6. /\ \A u \in Verifiers : (Holding(u)' => Holding(u) /\ req'[u] = req[u])
        /\ \A u \in Verifiers : (PastRing(u)' => PastRing(u) /\ req'[u] = req[u])
    BY <1>2 DEF Holding, PastRing
  <1>7. Timely'
    <2>1. expiry[n] > clock /\ clock <= clock + Grace
      BY <1>1, Sizes DEF Verify
    <2> QED BY <1>1, <1>2, <2>1 DEF Verify, ConfInv, Timely, Busy
  <1>8. RowKept'
    <2>1. \A m \in Nonces : Used(m)' => Used(m)
      BY <1>6 DEF Verify, Used
    <2> QED BY <2>1 DEF Verify, ConfInv, RowKept
  <1>9. OneUse'
    BY <1>6 DEF Verify, ConfInv, OneUse
  <1>10. Together'
    <2> SUFFICES ASSUME NEW u \in Verifiers, NEW v \in Verifiers, u # v,
                        Busy(u)', Busy(v)', req'[v].nonce = req'[u].nonce
                 PROVE  req'[u].nonce \in overlapped'
      BY DEF Together, About
    <2>1. CASE u # t /\ v # t
      BY <1>2, <1>4, <2>1 DEF ConfInv, Together, About, Busy
    <2>2. ASSUME NEW w \in Verifiers, w # t, Busy(w)', req'[w].nonce = n
          PROVE  n \in overlapped'
      BY <1>2, <2>2 DEF Verify, Busy
    <2> QED BY <1>2, <2>1, <2>2
  <1>11. RingKept'
    BY DEF Verify, ConfInv, RingKept, Remembered
  <1>12. Excused'
    BY <1>4, <1>6 DEF Verify, ConfInv, Excused
  <1> QED BY <1>5, <1>7, <1>8, <1>9, <1>10, <1>11, <1>12 DEF ConfInv

(* The clean-up drops rows no request can be about any more.                  *)
LEMMA CleanKeeps ==
  ASSUME ConfInv, NEW t \in Verifiers, Clean(t)
  PROVE  ConfInv'
  <1>1. Busy(t) /\ req[t] \in Use /\ Holding(t) /\ PastRing(t)
    BY UseOf DEF Clean, Busy, Holding, PastRing, ConfInv
  <1> DEFINE q == [req[t] EXCEPT !.pc = "record"]
  <1>2. q \in Use /\ q.nonce = req[t].nonce /\ q.now = req[t].now /\ q.pc = "record"
    BY <1>1 DEF Use, Pcs
  <1>3. /\ req'[t] = q /\ \A u \in Verifiers : u # t => req'[u] = req[u]
        /\ req' \in [Verifiers -> {NoUse} \cup Use]
    BY <1>2, UseOf DEF Clean, Goes, ConfInv
  <1> HIDE DEF q
  <1>4. ASSUME NEW u \in Verifiers
        PROVE  /\ Busy(u)' <=> Busy(u)
               /\ req'[u].nonce = req[u].nonce
               /\ Busy(u) => req'[u].now = req[u].now
               /\ PastRing(u)' <=> PastRing(u)
               /\ Holding(u)' <=> Holding(u)
    BY <1>1, <1>2, <1>3 DEF Busy, PastRing, Holding
  <1>5. rows' \subseteq rows
    BY DEF Clean, KeptRows
  <1>6. ConfTypes'
    BY <1>3, <1>5 DEF Clean, ConfInv, ConfTypes, Use, Pcs
  <1>7. Timely' /\ OneUse' /\ Together' /\ RingKept' /\ Excused'
    BY <1>4 DEF Clean, ConfInv, Timely, OneUse, Together, About, RingKept, Remembered,
                Excused
  <1>8. RowKept'
    <2>1. \A m \in Nonces : Used(m)' <=> Used(m)
      BY <1>4 DEF Clean, Used
    <2>2. ASSUME NEW m \in Nonces, m \in rows, m \notin rows' PROVE clock > expiry[m] + Grace
      <3>1. ~(expiry[m] + Grace >= req[t].now)
        BY <2>2 DEF Clean, KeptRows
      <3>2. /\ expiry[m] \in Nat /\ req[t].now \in Nat /\ clock \in Nat
            /\ req[t].now <= clock
        BY <1>1, Sizes DEF ConfInv, ConfTypes, Timely, Use
      <3> QED BY <3>1, <3>2, Sizes
    <2> QED BY <2>1, <2>2 DEF Clean, ConfInv, RowKept
  <1> QED BY <1>6, <1>7, <1>8 DEF ConfInv

(* A rollback takes rows back, of which undone keeps the names; so does a     *)
(* restart, which also empties the ring.                                      *)
LEMMA ScopesKeep ==
  ASSUME ConfInv, ScopeOpens \/ ScopeCommits \/ ScopeRollsBack
  PROVE  ConfInv'
  <1>1. /\ UNCHANGED <<clock, expiry, ring, cursor, inserts, req, accepted, forgotten,
                       overlapped>>
        /\ undo' \subseteq SUBSET Nonces /\ rows' \subseteq Nonces
        /\ undone \subseteq undone' /\ undone' \subseteq Nonces
        /\ rows \subseteq undone' \cup rows'
    BY DEF ScopeOpens, ScopeCommits, ScopeRollsBack, ConfInv, ConfTypes
  <1>2. ConfTypes'
    BY <1>1 DEF ConfInv, ConfTypes
  <1>3. Timely' /\ Together' /\ RingKept' /\ Excused'
    BY <1>1 DEF ConfInv, Timely, Together, RingKept, Remembered, Excused, Busy, About, PastRing
  <1>4. RowKept' /\ OneUse'
    BY <1>1 DEF ConfInv, RowKept, OneUse, Used, Holding
  <1> QED BY <1>2, <1>3, <1>4 DEF ConfInv

LEMMA RestartKeeps ==
  ASSUME ConfInv, Restart
  PROVE  ConfInv'
  <1>1. \A t \in Verifiers : ~Busy(t)' /\ ~Holding(t)' /\ ~PastRing(t)'
    BY DEF Restart, Busy, Holding, PastRing, NoUse
  <1>2. /\ UNCHANGED <<clock, expiry, accepted, overlapped>>
        /\ undo' = {} /\ rows' \subseteq Nonces
        /\ undone \subseteq undone' /\ undone' \subseteq Nonces
        /\ rows \subseteq undone' \cup rows'
        /\ forgotten \subseteq forgotten'
    BY DEF Restart, ConfInv, ConfTypes
  <1>3. forgotten' \subseteq Nonces
    <2> DEFINE Entry == [nonce : Nonces, exp : Nat]
    <2>1. ring \in Seq(Entry)
      BY DEF ConfInv, ConfTypes, Entry
    <2> HIDE DEF Entry
    <2>2. \A i \in DOMAIN ring : ring[i] \in Entry
      <3>1. DOMAIN ring = 1 .. Len(ring) /\ \A i \in 1 .. Len(ring) : ring[i] \in Entry
        BY <2>1
      <3> QED BY <3>1
    <2>3. \A i \in DOMAIN ring : ring[i].nonce \in Nonces
      BY <2>2 DEF Entry
    <2>4. {ring[i].nonce : i \in DOMAIN ring} \subseteq Nonces
      BY <2>3
    <2>5. /\ forgotten' = forgotten \cup {ring[i].nonce : i \in DOMAIN ring}
          /\ forgotten \subseteq Nonces
      BY DEF Restart, ConfInv, ConfTypes
    <2> QED BY <2>4, <2>5
  <1>4. ConfTypes'
    <2>1. ring' = <<>> /\ Len(ring') = 0 /\ cursor' = 1
      BY DEF Restart
    <2>2. req' \in [Verifiers -> {NoUse}]
      BY DEF Restart
    <2> QED BY <1>2, <1>3, <2>1, <2>2, Sizes DEF ConfInv, ConfTypes
  <1>5. Timely' /\ Together'
    BY <1>1 DEF Timely, Together, About
  <1>6. RowKept' /\ OneUse'
    <2>1. \A n \in Nonces : Used(n)' => Used(n)
      BY <1>1, <1>2 DEF Used
    <2> QED BY <1>1, <1>2, <2>1 DEF ConfInv, RowKept, OneUse
  <1>7. RingKept'
    BY <1>2 DEF Restart, ConfInv, RingKept, Remembered
  <1>8. Excused'
    BY <1>1, <1>2 DEF ConfInv, Excused
  <1> QED BY <1>4, <1>5, <1>6, <1>7, <1>8 DEF ConfInv

LEMMA TimeKeeps ==
  ASSUME ConfInv, TimePasses
  PROVE  ConfInv'
  <1>1. clock \in Nat /\ clock' = clock + 1 /\ clock' \in 1 .. MaxTime
    BY Sizes DEF TimePasses, ConfInv, ConfTypes
  <1>2. ConfTypes'
    BY <1>1 DEF TimePasses, ConfInv, ConfTypes
  <1>3. ASSUME NEW t \in Verifiers, Busy(t)
        PROVE  req[t].now <= clock' /\ clock' <= req[t].now + Grace
    <2>1. req[t].now \in Nat /\ req[t].now <= clock
      BY <1>3, UseOf, Sizes DEF ConfInv, Timely, Use
    <2> QED BY <1>1, <1>3, <2>1, Sizes DEF TimePasses, Busy
  <1>4. Timely'
    BY <1>3 DEF TimePasses, ConfInv, Timely, Busy
  <1>5. RowKept'
    <2>1. ASSUME NEW n \in Nonces, clock > expiry[n] + Grace PROVE clock' > expiry[n] + Grace
      <3>1. expiry[n] \in Nat
        BY DEF ConfInv, ConfTypes
      <3> QED BY <1>1, <2>1, <3>1, Sizes
    <2> QED BY <2>1 DEF TimePasses, ConfInv, RowKept, Used, Holding
  <1>6. OneUse' /\ Together' /\ RingKept' /\ Excused'
    BY DEF TimePasses, ConfInv, OneUse, Together, RingKept, Remembered, Excused, Holding,
           Busy, About, PastRing
  <1> QED BY <1>2, <1>4, <1>5, <1>6 DEF ConfInv

LEMMA ConfKept == ConfInv /\ [ConfNext]_confVars => ConfInv'
  <1> SUFFICES ASSUME ConfInv, [ConfNext]_confVars PROVE ConfInv'
    OBVIOUS
  <1>1. CASE \E n \in Nonces : Issue(n)
    BY <1>1, IssueKeeps
  <1>2. ASSUME NEW t \in Verifiers, UseStep(t) PROVE ConfInv'
    BY <1>2, VerifyKeeps, LooksKeep, BackfillKeeps, InsertKeeps, CleanKeeps, AcceptKeeps
       DEF UseStep
  <1>3. CASE ScopeOpens \/ ScopeCommits \/ ScopeRollsBack
    BY <1>3, ScopesKeep
  <1>4. CASE Restart
    BY <1>4, RestartKeeps
  <1>5. CASE TimePasses
    BY <1>5, TimeKeeps
  <1>6. CASE UNCHANGED confVars
    <2>1. ConfTypes'
      BY <1>6 DEF confVars, ConfInv, ConfTypes
    <2>2. Timely' /\ RowKept' /\ OneUse' /\ Together' /\ RingKept' /\ Excused'
      BY <1>6 DEF confVars, ConfInv, Timely, RowKept, Used, OneUse, Together, RingKept,
                  Remembered, Excused, Holding, Busy, About, PastRing
    <2> QED BY <2>1, <2>2 DEF ConfInv
  <1> QED BY <1>1, <1>2, <1>3, <1>4, <1>5, <1>6 DEF ConfNext

(* A second use of a confirmation takes a rollback of its row and a ring that *)
(* lost it or let two requests pass, for any number of requests, nonces and   *)
(* ring slots (policy/confirmation.c).                                        *)
THEOREM ConfirmationUsedOnce == ConfSpec => []SingleUse
  <1>1. ConfInv => SingleUse
    <2> SUFFICES ASSUME ConfInv, NEW n \in Nonces, accepted[n] > 1
                 PROVE  n \in undone /\ n \in forgotten \cup overlapped
      BY DEF SingleUse
    <2>1. accepted[n] \in Nat
      BY DEF ConfInv, ConfTypes
    <2> QED BY <2>1 DEF ConfInv, OneUse, Excused
  <1>2. ConfInit => ConfInv
    BY ConfStart
  <1> QED BY <1>1, <1>2, ConfKept, PTL DEF ConfSpec

-----------------------------------------------------------------------------
(* A revoked token is refused once the cache's time to live has passed, for  *)
(* any users, request threads, number of changes and size of the cache.      *)
AnyToken == [user : Users, version : Versions]
Reading  == [at : {"query", "accepted"}, token : AnyToken, since : 0 .. MaxNow]
HasRead  == [at : {"store"}, token : AnyToken, since : 0 .. MaxNow, found : BOOLEAN,
             read : 0 .. Absent]

SessTypes ==
    /\ now \in 0 .. MaxNow
    /\ version \in [Users -> 0 .. Absent]
    /\ ended \in [Users -> [Versions -> 0 .. NotEnded]]
    /\ issued \subseteq AnyToken
    /\ request \in [Requests -> {Resting} \cup Reading \cup HasRead]

(* The version an account has, and those to come, have not ended.            *)
CurrentNotEnded ==
    \A u \in Users, v \in Versions :
        version[u] = Absent \/ v >= version[u] => ended[u][v] = NotEnded

(* No request began later than now, what it read of a version had not ended  *)
(* when it began, and what it was let in with is not revoked for longer than *)
(* the time to live.                                                         *)
InTime(q) ==
    q # Resting =>
        /\ q.since <= now
        /\ q \in HasRead /\ q.found /\ q.read \in Versions
              => q.since <= ended[q.token.user][q.read]
        /\ q.at = "accepted" => q.since < ended[q.token.user][q.token.version] + CacheTtl

(* An entry vouches for a version no longer than its time to live after the  *)
(* version has ended.                                                        *)
Vouches(e) ==
    /\ e.user \in Users /\ e.expire \in Nat /\ e.expire <= now + CacheTtl
    /\ e.found => \A v \in Versions : e.version = v => e.expire <= ended[e.user][v] + CacheTtl

SessInv ==
    /\ SessTypes
    /\ CurrentNotEnded
    /\ \A r \in Requests : InTime(request[r])
    /\ \A e \in cache : Vouches(e)

-----------------------------------------------------------------------------
LEMMA Numbers ==
    /\ CacheTtl \in Nat /\ CacheTtl > 0 /\ MaxVersion \in Nat /\ MaxNow \in Nat
    /\ Absent \in Nat /\ NotEnded \in Nat
    /\ Versions \subseteq Nat /\ 0 \in Versions /\ Absent \notin Versions
    /\ \A n \in 0 .. Absent : n # Absent => n \in Versions
  BY SessionsAssumption DEF Absent, NotEnded, Versions

LEMMA SessStart == SessInit => SessInv
  BY Numbers DEF SessInit, SessInv, SessTypes, CurrentNotEnded, InTime, Vouches, Resting,
                 AnyToken, NotEnded, Absent

(* A request that moves on, and nothing else does but perhaps the cache.     *)
LEMMA Moves ==
  ASSUME SessInv, NEW r \in Requests, NEW q \in {Resting} \cup Reading \cup HasRead,
         request' = [request EXCEPT ![r] = q], InTime(q),
         now' = now, version' = version, ended' = ended, issued' = issued,
         \A e \in cache' : Vouches(e)
  PROVE  SessInv'
  <1>1. SessTypes'
    BY DEF SessInv, SessTypes
  <1>2. CurrentNotEnded'
    BY DEF SessInv, CurrentNotEnded
  <1>3. ASSUME NEW s \in Requests PROVE InTime(request[s])'
    BY DEF SessInv, SessTypes, InTime
  <1>4. \A e \in cache' : Vouches(e)'
    BY DEF Vouches
  <1> QED BY <1>1, <1>2, <1>3, <1>4 DEF SessInv

(* A change of password ends a version now: requests and entries began and   *)
(* were stored no later.                                                     *)
LEMMA ChangeKeeps ==
  ASSUME SessInv, NEW u \in Users, ChangePassword(u)
  PROVE  SessInv'
  <1>1. /\ version[u] \in Versions /\ version[u] + 1 \in 0 .. Absent
        /\ now \in Nat /\ now \in 0 .. NotEnded
    BY Numbers DEF ChangePassword, SessInv, SessTypes, Versions, Absent, NotEnded
  <1>a. /\ version' = [version EXCEPT ![u] = version[u] + 1]
        /\ ended' = [ended EXCEPT ![u][version[u]] = now]
        /\ version \in [Users -> 0 .. Absent] /\ ended \in [Users -> [Versions -> 0 .. NotEnded]]
    BY DEF ChangePassword, SessInv, SessTypes
  <1>b. version' \in [Users -> 0 .. Absent]
    BY ONLY <1>1, <1>a
  <1>c. ended' \in [Users -> [Versions -> 0 .. NotEnded]]
    BY ONLY <1>1, <1>a
  <1>2. SessTypes'
    BY <1>b, <1>c DEF ChangePassword, SessInv, SessTypes
  <1>3. \A w \in Users, v \in Versions :
            /\ ended'[w][v] = IF w = u /\ v = version[u] THEN now ELSE ended[w][v]
            /\ ended[w][v] \in Nat
    BY <1>1, Numbers DEF ChangePassword, SessInv, SessTypes
  <1>4. CurrentNotEnded'
    BY <1>1, <1>3, Numbers DEF ChangePassword, SessInv, SessTypes, CurrentNotEnded, Absent
  <1>5. ASSUME NEW r \in Requests PROVE InTime(request[r])'
    BY <1>1, <1>3, Numbers
    DEF ChangePassword, SessInv, SessTypes, InTime, Reading, HasRead, AnyToken, Resting
  <1>6. \A e \in cache' : Vouches(e)'
    BY <1>1, <1>3, Numbers DEF ChangePassword, SessInv, Vouches
  <1> QED BY <1>2, <1>4, <1>5, <1>6 DEF SessInv

LEMMA AccountsKeep ==
  ASSUME SessInv, NEW u \in Users, Register(u) \/ Login(u)
  PROVE  SessInv'
  <1>1. SessTypes'
    <2>1. SessTypes /\ AnyToken = [user : Users, version : Versions]
      BY DEF SessInv, AnyToken
    <2>2. CASE Register(u)
      BY <2>1, <2>2, Numbers DEF Register, SessTypes, Token
    <2>3. CASE Login(u)
      BY <2>1, <2>3, Numbers DEF Login, SessTypes, Token
    <2> QED BY <2>2, <2>3
  <1>2. CurrentNotEnded'
    BY Numbers DEF Register, Login, SessInv, SessTypes, CurrentNotEnded
  <1>3. ASSUME NEW r \in Requests PROVE InTime(request[r])'
    BY DEF Register, Login, SessInv, InTime
  <1>4. \A e \in cache' : Vouches(e)'
    BY DEF Register, Login, SessInv, Vouches
  <1> QED BY <1>1, <1>2, <1>3, <1>4 DEF SessInv

LEMMA StartKeeps ==
  ASSUME SessInv, NEW r \in Requests, NEW t \in issued, Start(r, t)
  PROVE  SessInv'
  <1> DEFINE q == [at |-> IF Hits(t) # {} THEN "accepted" ELSE "query",
                   token |-> t, since |-> now]
  <1>1. q \in Reading
    BY DEF SessInv, SessTypes, Reading
  <1>2. InTime(q)
    <2>1. t.user \in Users /\ t.version \in Versions
      BY DEF SessInv, SessTypes, AnyToken
    <2>5. now \in Nat
      BY Numbers DEF SessInv, SessTypes
    <2>6. ended[t.user] \in [Versions -> 0 .. NotEnded]
      BY <2>1 DEF SessInv, SessTypes
    <2>2. now \in Nat /\ ended[t.user][t.version] \in 0 .. NotEnded
      BY <2>1, <2>5, <2>6
    <2>4. ASSUME Hits(t) # {} PROVE now < ended[t.user][t.version] + CacheTtl
      <3>1. PICK e \in cache : e.user = t.user /\ e.expire > now /\ e.found /\ e.version = t.version
        BY <2>4 DEF Hits
      <3>2. e.expire \in Nat /\ e.expire <= ended[t.user][t.version] + CacheTtl
        BY <2>1, <3>1 DEF SessInv, Vouches
      <3> QED BY <2>2, <3>1, <3>2, Numbers
    <2>3. q \notin HasRead
      BY DEF HasRead
    <2> QED BY <2>2, <2>3, <2>4 DEF InTime
  <1>3. request' = [request EXCEPT ![r] = q]
    BY DEF Start
  <1> HIDE DEF q
  <1> QED BY <1>1, <1>2, <1>3, Moves DEF Start, SessInv

LEMMA QueryKeeps ==
  ASSUME SessInv, NEW r \in Requests, Query(r)
  PROVE  SessInv'
  <1> PICK found \in BOOLEAN :
        request' = [request EXCEPT ![r] =
             [at    |-> "store",
              token |-> request[r].token, since |-> request[r].since, found |-> found,
              read  |-> IF found THEN version[request[r].token.user] ELSE 0]]
    BY DEF Query
  <1> PICK q : q = [at    |-> "store",
              token |-> request[r].token, since |-> request[r].since, found |-> found,
              read  |-> IF found THEN version[request[r].token.user] ELSE 0]
    OBVIOUS
  <1>1. request[r] \in Reading /\ request[r] # Resting
    BY DEF Query, SessInv, SessTypes, Resting, HasRead
  <1>2. q \in HasRead
    BY <1>1, Numbers DEF SessInv, SessTypes, Reading, HasRead, AnyToken
  <1>3. /\ q.at = "store" /\ q.token = request[r].token /\ q.since = request[r].since
        /\ q.found => q.read = version[q.token.user]
    OBVIOUS
  <1>4. q.since \in 0 .. now /\ q.token.user \in Users /\ now \in 0 .. MaxNow
    BY <1>1, <1>3, Numbers DEF SessInv, SessTypes, InTime, Reading, AnyToken
  <1>5. ASSUME q.found, q.read \in Versions
        PROVE  q.since <= ended[q.token.user][q.read]
    <2>1. q.read \in Nat /\ q.read >= version[q.token.user]
      BY <1>3, <1>5, Numbers
    <2>2. ended[q.token.user][q.read] = NotEnded
      BY <1>4, <1>5, <2>1 DEF SessInv, CurrentNotEnded
    <2> QED BY <1>4, <2>2, Numbers DEF NotEnded
  <1>6. InTime(q)
    BY <1>3, <1>4, <1>5 DEF InTime
  <1> QED BY <1>2, <1>6, Moves DEF Query, SessInv

LEMMA StoreKeeps ==
  ASSUME SessInv, NEW r \in Requests, Store(r)
  PROVE  SessInv'
  <1> DEFINE q == request[r]
  <1> PICK entry : entry = [user |-> q.token.user, version |-> q.read, found |-> q.found,
                            expire |-> Expiry(r)]
    OBVIOUS
  <1> PICK next : next = IF q.found /\ q.read = q.token.version
                     THEN [at |-> "accepted", token |-> q.token, since |-> q.since]
                     ELSE Resting
    OBVIOUS
  <1>1. q \in HasRead /\ q # Resting /\ InTime(q)
    BY DEF Store, SessInv, SessTypes, Resting, Reading
  <1>2. /\ q.since \in Nat /\ q.since <= now /\ now \in Nat
        /\ q.token.user \in Users /\ q.token.version \in Versions
        /\ \A v \in Versions : ended[q.token.user][v] \in Nat
    BY <1>1, Numbers DEF HasRead, InTime, AnyToken, SessInv, SessTypes
  <1>3. \A e \in cache' : e \in cache \/ e = entry
    BY DEF Store
  <1>4. Vouches(entry)
    <2>1. /\ entry.user = q.token.user /\ entry.version = q.read /\ entry.found = q.found
          /\ entry.expire = q.since + CacheTtl
      BY DEF Expiry
    <2>2. entry.expire \in Nat /\ entry.expire <= now + CacheTtl
      BY <1>2, <2>1, Numbers
    <2>3. ASSUME q.found, NEW v \in Versions, q.read = v
          PROVE  q.since + CacheTtl <= ended[q.token.user][v] + CacheTtl
      <3>1. q.since <= ended[q.token.user][v]
        BY <1>1, <2>3 DEF InTime
      <3> QED BY <1>2, <3>1, Numbers
    <2> QED BY <1>2, <2>1, <2>2, <2>3 DEF Vouches
  <1>5. next \in {Resting} \cup Reading
    BY <1>1 DEF HasRead, Reading
  <1>6. InTime(next)
    BY <1>1, <1>2, Numbers DEF InTime, Resting, HasRead
  <1>7. request' = [request EXCEPT ![r] = next]
    BY DEF Store
  <1>8. \A e \in cache' : Vouches(e)
    BY <1>3, <1>4 DEF SessInv
  <1> HIDE DEF q
  <1> QED BY <1>5, <1>6, <1>7, <1>8, Moves DEF Store

LEMMA HandledKeeps ==
  ASSUME SessInv, NEW r \in Requests, Handled(r)
  PROVE  SessInv'
  <1>1. InTime(Resting)
    BY DEF InTime
  <1> QED BY <1>1, Moves DEF Handled, SessInv

LEMMA TickKeeps == ASSUME SessInv, Tick PROVE SessInv'
  <1>1. SessTypes'
    BY Numbers DEF Tick, SessInv, SessTypes
  <1>2. CurrentNotEnded'
    BY DEF Tick, SessInv, CurrentNotEnded
  <1>3. ASSUME NEW r \in Requests PROVE InTime(request[r])'
    BY Numbers DEF Tick, SessInv, SessTypes, InTime, Reading, HasRead
  <1>4. \A e \in cache' : Vouches(e)'
    BY Numbers DEF Tick, SessInv, SessTypes, Vouches
  <1> QED BY <1>1, <1>2, <1>3, <1>4 DEF SessInv

LEMMA SessKept == SessInv /\ [SessNext]_sessVars => SessInv'
  <1> SUFFICES ASSUME SessInv, [SessNext]_sessVars PROVE SessInv'
    OBVIOUS
  <1>1. CASE UNCHANGED sessVars
    BY <1>1 DEF sessVars, SessInv, SessTypes, CurrentNotEnded, InTime, Vouches
  <1> QED BY <1>1, ChangeKeeps, AccountsKeep, StartKeeps, QueryKeeps, StoreKeeps,
             HandledKeeps, TickKeeps DEF SessNext

LEMMA SessSafe == SessInv => RevokedWithinTtl
  BY Numbers DEF SessInv, SessTypes, InTime, RevokedWithinTtl, Resting, Reading, HasRead

(* A token whose version a change of password ended is refused to every       *)
(* request that begins the time to live or more afterwards, for any number of *)
(* users, threads, versions and slots of the cache.                           *)
THEOREM RevokedTokensAge == SessSpec => []RevokedWithinTtl
  BY SessStart, SessKept, SessSafe, PTL DEF SessSpec

-----------------------------------------------------------------------------
(* The roles of Membership stay sound, for any users, ledgers and number of  *)
(* requests at once.                                                         *)
LedgerRow == [row : {"free", "live", "gone"}, owner : People \cup {Nobody}, dflt : BOOLEAN]

Doing == {"nothing", "add", "set_role", "invite", "delete", "delete_row", "remove", "join",
          "create_default", "engine_default", "ask_again", "owner_row"}

RequestPlan == [does : Doing, user : People \cup {Nobody}, l : Ledgers \cup {0},
                to : People \cup {Nobody}, role : Roles \cup {"none"}]

MemberTypes ==
  /\ ledger \in [Ledgers -> LedgerRow]
  /\ member \in [Ledgers -> [People -> Roles \cup {"none"}]]
  /\ job \in [Threads -> RequestPlan]

(* What a request relies on when it writes: only the one that fills in a new *)
(* ledger's first row gives the role of owner, and gives it to the owner; a  *)
(* ledger once inserted keeps its owner.                                     *)
PlanSound(r) ==
  /\ r.does \in {"add", "owner_row", "set_role", "remove"} => r.l \in Ledgers /\ r.to \in People
  /\ r.does \in {"join", "add", "set_role"} => r.role \in ValidRole
  /\ r.does = "join" => r.l \in Ledgers
  /\ r.does \in {"join", "create_default", "engine_default", "ask_again"} => r.user \in People
  /\ r.does \in {"delete", "delete_row", "invite"} => r.l \in Ledgers
  /\ r.does = "owner_row" => /\ ledger[r.l].row # "free"
                             /\ ledger[r.l].owner = r.to
                             /\ r.role = "owner"

MemberInv == MemberTypes /\ (\A t \in Threads : PlanSound(job[t])) /\ RolesSound

-----------------------------------------------------------------------------
LEMMA IdleIsPlan == NoPlan \in RequestPlan /\ PlanSound(NoPlan)
  BY DEF NoPlan, RequestPlan, PlanSound, Doing

LEMMA MemberStart == MemberInit => MemberInv
  <1> SUFFICES ASSUME MemberInit PROVE MemberInv
    OBVIOUS
  <1>1. MemberTypes
    BY IdleIsPlan DEF MemberInit, MemberTypes, NoLedger, LedgerRow
  <1>2. RolesSound
    BY DEF MemberInit, RolesSound
  <1> QED BY <1>1, <1>2, IdleIsPlan DEF MemberInit, MemberInv

(* A request that is planned leaves the other plans alone. *)
LEMMA Planned ==
  ASSUME MemberInv, NEW t \in Threads, NEW r \in RequestPlan,
         job' = [job EXCEPT ![t] = r], ledger' = ledger, member' = member, PlanSound(r)
  PROVE  MemberInv'
  <1>1. MemberTypes'
    BY DEF MemberInv, MemberTypes
  <1>2. ASSUME NEW u \in Threads PROVE PlanSound(job[u])'
    <2>1. CASE u = t
      BY <2>1 DEF MemberInv, MemberTypes, PlanSound
    <2>2. CASE u # t
      BY <2>2 DEF MemberInv, MemberTypes, PlanSound
    <2> QED BY <2>1, <2>2
  <1>3. RolesSound'
    BY DEF MemberInv, RolesSound, LiveLedger
  <1> QED BY <1>1, <1>2, <1>3 DEF MemberInv

LEMMA ReadsKeep ==
  ASSUME MemberInv, NEW t \in Threads,
         Manage(t) \/ AskRemove(t) \/ FindCode(t) \/ LookForRow(t) \/ LookForDefault(t)
  PROVE  MemberInv'
  <1>1. CASE Manage(t)
    <2>1. PICK u \in People, l \in Ledgers :
            \/ \E to \in People, role \in ValidRole, does \in {"add", "set_role"} :
                 Plan(t, does, u, l, to, role)
            \/ \E does \in {"invite", "delete"} : Plan(t, does, u, l, Nobody, "none")
      BY <1>1 DEF Manage
    <2>2. CASE \E to \in People, role \in ValidRole, does \in {"add", "set_role"} :
                 Plan(t, does, u, l, to, role)
      <3>1. PICK to \in People, role \in ValidRole, does \in {"add", "set_role"} :
              Plan(t, does, u, l, to, role)
        BY <2>2
      <3> DEFINE r == [does |-> does, user |-> u, l |-> l, to |-> to, role |-> role]
      <3>2. r \in RequestPlan /\ PlanSound(r)
        BY DEF RequestPlan, Doing, PlanSound, ValidRole, Roles
      <3>3. job' = [job EXCEPT ![t] = r] /\ ledger' = ledger /\ member' = member
        BY <1>1, <3>1 DEF Plan, Manage
      <3> HIDE DEF r
      <3> QED BY <3>2, <3>3, Planned
    <2>3. CASE \E does \in {"invite", "delete"} : Plan(t, does, u, l, Nobody, "none")
      <3>1. PICK does \in {"invite", "delete"} : Plan(t, does, u, l, Nobody, "none")
        BY <2>3
      <3> DEFINE r == [does |-> does, user |-> u, l |-> l, to |-> Nobody, role |-> "none"]
      <3>2. r \in RequestPlan /\ PlanSound(r)
        BY DEF RequestPlan, Doing, PlanSound, ValidRole, Roles
      <3>3. job' = [job EXCEPT ![t] = r] /\ ledger' = ledger /\ member' = member
        BY <1>1, <3>1 DEF Plan, Manage
      <3> HIDE DEF r
      <3> QED BY <3>2, <3>3, Planned
    <2> QED BY <2>1, <2>2, <2>3
  <1>2. CASE AskRemove(t)
    <2>1. PICK u \in People, to \in People, l \in Ledgers : Plan(t, "remove", u, l, to, "none")
      BY <1>2 DEF AskRemove
    <2> DEFINE r == [does |-> "remove", user |-> u, l |-> l, to |-> to, role |-> "none"]
    <2>2. r \in RequestPlan /\ PlanSound(r)
      BY DEF RequestPlan, Doing, PlanSound, ValidRole, Roles
    <2>3. job' = [job EXCEPT ![t] = r] /\ ledger' = ledger /\ member' = member
      BY <1>2, <2>1 DEF Plan, AskRemove
    <2> HIDE DEF r
    <2> QED BY <2>2, <2>3, Planned
  <1>3. CASE FindCode(t)
    <2>1. PICK u \in People, l \in Ledgers : Plan(t, "join", u, l, u, "editor")
      BY <1>3 DEF FindCode
    <2> DEFINE r == [does |-> "join", user |-> u, l |-> l, to |-> u, role |-> "editor"]
    <2>2. r \in RequestPlan /\ PlanSound(r)
      BY DEF RequestPlan, Doing, PlanSound, ValidRole, Roles
    <2>3. job' = [job EXCEPT ![t] = r] /\ ledger' = ledger /\ member' = member
      BY <1>3, <2>1 DEF Plan, FindCode
    <2> HIDE DEF r
    <2> QED BY <2>2, <2>3, Planned
  <1>4. CASE LookForRow(t)
    <2> DEFINE q == job[t]
               r == [does |-> "add", user |-> q.user, l |-> q.l, to |-> q.user, role |-> q.role]
    <2>1. q \in RequestPlan /\ q.l \in Ledgers /\ q.user \in People /\ q.role \in ValidRole
      BY <1>4 DEF LookForRow, MemberInv, MemberTypes, PlanSound, RequestPlan
    <2>2. r \in RequestPlan /\ PlanSound(r)
      BY <2>1 DEF RequestPlan, Doing, PlanSound, ValidRole, Roles
    <2>3. /\ job' = [job EXCEPT ![t] = r] \/ job' = [job EXCEPT ![t] = NoPlan]
          /\ ledger' = ledger /\ member' = member
      BY <1>4 DEF LookForRow, Plan, Done
    <2> HIDE DEF r, q
    <2> QED BY <2>2, <2>3, Planned, IdleIsPlan
  <1>5. CASE LookForDefault(t)
    <2>1. PICK u \in People, does \in {"create_default", "engine_default"} :
            Plan(t, does, u, 0, Nobody, "none")
      BY <1>5 DEF LookForDefault
    <2> DEFINE r == [does |-> does, user |-> u, l |-> 0, to |-> Nobody, role |-> "none"]
    <2>2. r \in RequestPlan /\ PlanSound(r)
      BY DEF RequestPlan, Doing, PlanSound, ValidRole, Roles
    <2>3. job' = [job EXCEPT ![t] = r] /\ ledger' = ledger /\ member' = member
      BY <1>5, <2>1 DEF Plan, LookForDefault
    <2> HIDE DEF r
    <2> QED BY <2>2, <2>3, Planned
  <1> QED BY <1>1, <1>2, <1>3, <1>4, <1>5

(* A ledger that is inserted changes nothing for the others: it was free. *)
LEMMA Inserted ==
  ASSUME MemberInv, NEW t \in Threads, NEW l \in Ledgers, NEW u \in People,
         NEW dflt \in BOOLEAN, InsertLedger(l, u, dflt), member' = member,
         NEW r \in RequestPlan, job' = [job EXCEPT ![t] = r], PlanSound(r)'
  PROVE  MemberInv'
  <1>1. MemberTypes'
    BY DEF MemberInv, MemberTypes, InsertLedger, LedgerRow
  <1>2. ASSUME NEW v \in Threads PROVE PlanSound(job[v])'
    <2>1. CASE v = t
      BY <2>1 DEF MemberInv, MemberTypes, PlanSound
    <2>2. CASE v # t
      BY <2>2 DEF MemberInv, MemberTypes, PlanSound, InsertLedger
    <2> QED BY <2>1, <2>2
  <1>3. RolesSound'
    BY DEF MemberInv, MemberTypes, RolesSound, LiveLedger, InsertLedger
  <1> QED BY <1>1, <1>2, <1>3 DEF MemberInv

LEMMA CreationsKeep ==
  ASSUME MemberInv, NEW t \in Threads, Create(t) \/ EngineCreate(t) \/ AskAgain(t)
  PROVE  MemberInv'
  <1>1. CASE Create(t)
    <2>1. PICK l \in Ledgers, u \in People, dflt \in BOOLEAN :
            InsertLedger(l, u, dflt) /\ Plan(t, "owner_row", u, l, u, "owner")
      BY <1>1 DEF Create
    <2> DEFINE r == [does |-> "owner_row", user |-> u, l |-> l, to |-> u, role |-> "owner"]
    <2>2. r \in RequestPlan
      BY DEF RequestPlan, Doing, Roles
    <2>3. PlanSound(r)'
      BY <2>1 DEF PlanSound, InsertLedger, MemberInv, MemberTypes
    <2>4. job' = [job EXCEPT ![t] = r] /\ member' = member
      BY <1>1, <2>1 DEF Create, Plan
    <2> HIDE DEF r
    <2> QED BY <2>1, <2>2, <2>3, <2>4, Inserted
  <1>2. CASE EngineCreate(t)
    <2>1. PICK u \in People : u = job[t].user
      BY <1>2 DEF EngineCreate, MemberInv, PlanSound
    <2> DEFINE r == [does |-> "ask_again", user |-> u, l |-> 0, to |-> Nobody, role |-> "none"]
    <2>2. PICK l \in Ledgers : InsertLedger(l, u, TRUE)
      BY <1>2, <2>1 DEF EngineCreate
    <2>3. r \in RequestPlan /\ PlanSound(r)'
      BY DEF RequestPlan, Doing, PlanSound
    <2>4. job' = [job EXCEPT ![t] = r] /\ member' = member
      BY <1>2, <2>1 DEF EngineCreate, Plan
    <2> HIDE DEF r
    <2> QED BY <2>1, <2>2, <2>3, <2>4, Inserted
  <1>3. CASE AskAgain(t)
    <2> DEFINE u == job[t].user
    <2>1. u \in People
      BY <1>3 DEF AskAgain, MemberInv, PlanSound
    <2>2. CASE Done(t)
      <3>1. job' = [job EXCEPT ![t] = NoPlan] /\ ledger' = ledger /\ member' = member
        BY <1>3, <2>2 DEF Done, AskAgain
      <3> QED BY <3>1, Planned, IdleIsPlan
    <2>3. CASE \E l \in DefaultsOf(u) : Plan(t, "owner_row", u, l, u, "owner")
      <3>1. PICK l \in DefaultsOf(u) : Plan(t, "owner_row", u, l, u, "owner")
        BY <2>3
      <3> DEFINE r == [does |-> "owner_row", user |-> u, l |-> l, to |-> u, role |-> "owner"]
      <3>2. r \in RequestPlan /\ PlanSound(r)
        BY <2>1 DEF RequestPlan, Doing, PlanSound, Roles, DefaultsOf, LiveLedger
      <3>3. job' = [job EXCEPT ![t] = r] /\ ledger' = ledger /\ member' = member
        BY <1>3, <3>1 DEF Plan, AskAgain
      <3> HIDE DEF r
      <3> QED BY <3>2, <3>3, Planned
    <2> QED BY <1>3, <2>2, <2>3 DEF AskAgain
  <1> QED BY <1>1, <1>2, <1>3

(* The write of a request that is then done: the new roles are what counts. *)
LEMMA Written ==
  ASSUME MemberInv, NEW t \in Threads, Done(t), ledger' = ledger,
         member' \in [Ledgers -> [People -> Roles \cup {"none"}]], RolesSound'
  PROVE  MemberInv'
  <1>1. MemberTypes'
    BY IdleIsPlan DEF MemberInv, MemberTypes, Done
  <1>2. ASSUME NEW v \in Threads PROVE PlanSound(job[v])'
    BY IdleIsPlan DEF MemberInv, MemberTypes, PlanSound, Done, NoPlan
  <1> QED BY <1>1, <1>2 DEF MemberInv

LEMMA RowWritesKeep ==
  ASSUME MemberInv, NEW t \in Threads, InsertMember(t) \/ SetRole(t) \/ RemoveMember(t)
  PROVE  MemberInv'
  <1> DEFINE r == job[t]
  <1>1. /\ r \in RequestPlan /\ r.l \in Ledgers /\ r.to \in People
        /\ r.does = "owner_row" => ledger[r.l].owner = r.to /\ r.role = "owner"
        /\ r.does \in {"add", "set_role"} => r.role \in ValidRole
    BY DEF InsertMember, SetRole, RemoveMember, MemberInv, MemberTypes, PlanSound
  <1>2. CASE InsertMember(t)
    <2>1. member' \in [Ledgers -> [People -> Roles \cup {"none"}]]
      BY <1>1, <1>2 DEF InsertMember, MemberInv, MemberTypes, RequestPlan
    <2>2. RolesSound'
      BY <1>1, <1>2 DEF InsertMember, MemberInv, MemberTypes, RolesSound, LiveLedger, ValidRole
    <2> QED BY <1>2, <2>1, <2>2, Written DEF InsertMember
  <1>3. CASE SetRole(t)
    <2>1. member' \in [Ledgers -> [People -> Roles \cup {"none"}]]
      BY <1>1, <1>3 DEF SetRole, MemberInv, MemberTypes, RequestPlan
    <2>2. RolesSound'
      BY <1>1, <1>3 DEF SetRole, MemberInv, MemberTypes, RolesSound, LiveLedger, ValidRole
    <2> QED BY <1>3, <2>1, <2>2, Written DEF SetRole
  <1>4. CASE RemoveMember(t)
    <2>1. member' \in [Ledgers -> [People -> Roles \cup {"none"}]]
      BY <1>1, <1>4 DEF RemoveMember, MemberInv, MemberTypes
    <2>2. RolesSound'
      BY <1>1, <1>4 DEF RemoveMember, MemberInv, MemberTypes, RolesSound, LiveLedger
    <2> QED BY <1>4, <2>1, <2>2, Written DEF RemoveMember
  <1> QED BY <1>2, <1>3, <1>4

LEMMA OtherWritesKeep ==
  ASSUME MemberInv, NEW t \in Threads, SetInvite(t) \/ DeleteMembers(t) \/ DeleteRow(t)
  PROVE  MemberInv'
  <1>1. CASE SetInvite(t)
    <2>1. job' = [job EXCEPT ![t] = NoPlan] /\ ledger' = ledger /\ member' = member
      BY <1>1 DEF SetInvite, Done
    <2> QED BY <2>1, Planned, IdleIsPlan
  <1>2. DeleteMembers(t) \/ DeleteRow(t) => job[t].l \in Ledgers
    BY DEF DeleteMembers, DeleteRow, MemberInv, PlanSound
  <1>3. CASE DeleteMembers(t)
    <2>a. member' \in [Ledgers -> [People -> Roles \cup {"none"}]] /\ ledger' \in [Ledgers -> LedgerRow]
      BY <1>2, <1>3 DEF DeleteMembers, NoMembers, MemberInv, MemberTypes
    <2>b. job' \in [Threads -> RequestPlan]
      <3>1. PICK r : r = [job[t] EXCEPT !.does = "delete_row"]
        OBVIOUS
      <3>2. r \in RequestPlan
        BY <3>1 DEF MemberInv, MemberTypes, RequestPlan, Doing
      <3>3. job' = [job EXCEPT ![t] = r]
        BY <1>3, <3>1 DEF DeleteMembers
      <3> QED BY <3>2, <3>3 DEF MemberInv, MemberTypes
    <2>1. MemberTypes'
      BY <2>a, <2>b DEF MemberTypes
    <2>2. ASSUME NEW v \in Threads PROVE PlanSound(job[v])'
      BY <1>3 DEF DeleteMembers, MemberInv, MemberTypes, PlanSound, RequestPlan
    <2>3. RolesSound'
      BY <1>2, <1>3 DEF DeleteMembers, NoMembers, MemberInv, MemberTypes, RolesSound, LiveLedger
    <2> QED BY <2>1, <2>2, <2>3 DEF MemberInv
  <1>4. ASSUME DeleteRow(t), ledger' = [ledger EXCEPT ![job[t].l].row = "gone"],
               NoMembers(job[t].l)
        PROVE  MemberInv'
    <2>a. member' \in [Ledgers -> [People -> Roles \cup {"none"}]]
      BY <1>2, <1>4 DEF NoMembers, MemberInv, MemberTypes
    <2>b. job' \in [Threads -> RequestPlan]
      BY <1>4, IdleIsPlan DEF DeleteRow, Done, MemberInv, MemberTypes
    <2>c. ledger' \in [Ledgers -> LedgerRow]
      <3>1. PICK l \in Ledgers : l = job[t].l
        BY <1>2, <1>4
      <3>2. ledger \in [Ledgers -> LedgerRow] /\ ledger' = [ledger EXCEPT ![l].row = "gone"]
        BY <1>4, <3>1 DEF MemberInv, MemberTypes
      <3>3. [ledger[l] EXCEPT !.row = "gone"] \in LedgerRow
        BY <3>2 DEF LedgerRow
      <3> QED BY ONLY <3>2, <3>3
    <2>1. MemberTypes'
      BY <2>a, <2>b, <2>c DEF MemberTypes
    <2>2. ASSUME NEW v \in Threads PROVE PlanSound(job[v])'
      BY <1>4, IdleIsPlan DEF DeleteRow, Done, MemberInv, MemberTypes, PlanSound, LedgerRow, NoPlan
    <2>3. RolesSound'
      BY <1>2, <1>4 DEF NoMembers, MemberInv, MemberTypes, RolesSound, LiveLedger
    <2> QED BY <2>1, <2>2, <2>3 DEF MemberInv
  <1>5. ASSUME DeleteRow(t), UNCHANGED <<ledger, member>> PROVE MemberInv'
    <2>1. job' = [job EXCEPT ![t] = NoPlan]
      BY <1>5 DEF DeleteRow, Done
    <2> QED BY <1>5, <2>1, Planned, IdleIsPlan
  <1> QED BY <1>1, <1>3, <1>4, <1>5 DEF DeleteRow

LEMMA MemberKept == MemberInv /\ [MemberNext]_memberVars => MemberInv'
  <1> SUFFICES ASSUME MemberInv, [MemberNext]_memberVars PROVE MemberInv'
    OBVIOUS
  <1>1. CASE UNCHANGED memberVars
    BY <1>1 DEF memberVars, MemberInv, MemberTypes, PlanSound, RolesSound, LiveLedger
  <1>2. ASSUME NEW t \in Threads, MemberStep(t) PROVE MemberInv'
    BY <1>2, ReadsKeep, CreationsKeep, RowWritesKeep, OtherWritesKeep DEF MemberStep
  <1>3. ASSUME NEW l \in Ledgers, InviteExpires(l) PROVE MemberInv'
    BY <1>3 DEF InviteExpires, MemberInv, MemberTypes, PlanSound, RolesSound, LiveLedger
  <1> QED BY <1>1, <1>2, <1>3 DEF MemberNext

(* The role of owner is only ever held by the user the ledger belongs to, and *)
(* no one is a member of a deleted ledger, for any users, ledgers and         *)
(* overlapping requests.                                                      *)
THEOREM RolesStaySound == MemberSpec => []RolesSound
  <1>1. MemberInv => RolesSound
    BY DEF MemberInv
  <1> QED BY MemberStart, MemberKept, <1>1, PTL DEF MemberSpec

-----------------------------------------------------------------------------
(* No key is let through more than Limit times within the window, for any *)
(* workers, keys, limit, window, size of the ring and wait for the lock.     *)
Hit  == [key : Sources, ts : Nat]
Pass == [key : Sources, at : Nat]

LimitTypes ==
    /\ second \in Nat
    /\ asked \in [Handlers -> {<< >>} \cup (Sources \X Nat)]
    /\ hits \in Seq(Hit) /\ admitted \in Seq(Pass)
    /\ overwrote \in BOOLEAN

(* The ring and the requests let through end alike; a request whose entry is *)
(* no longer in the ring does not count any more.                            *)
Matched(a, e) == a.key = e.key /\ e.ts <= a.at /\ a.at <= e.ts + MaxDelay
Aligned(a, s, sec) ==
    \A i \in DOMAIN a : IF i + Len(s) > Len(a) THEN Matched(a[i], s[i + Len(s) - Len(a)])
                                               ELSE ~ StillCounts(a[i], sec)

OnTime == \A r \in Handlers : asked[r] # << >> => asked[r][2] <= second /\ second <= asked[r][2] + MaxDelay
LimitInv == LimitTypes /\ OnTime /\ LimitHolds /\ (~ overwrote => Aligned(admitted, hits, second))

-----------------------------------------------------------------------------
LEMMA LimitNumbers == /\ Limit \in Nat /\ Window \in Nat /\ RateRing \in Nat /\ MaxDelay \in Nat
                      /\ LastSecond \in Nat
  BY LimitAssumption

\* t is s without the first d entries.
Drops(t, s, d) ==
    /\ d \in 0 .. Len(s) /\ Len(s) \in Nat /\ Len(t) = Len(s) - d
    /\ DOMAIN s = 1 .. Len(s) /\ DOMAIN t = 1 .. Len(s) - d
    /\ \A i \in DOMAIN t : i + d \in DOMAIN s /\ t[i] = s[i + d]

LEMMA LeastOf ==
  ASSUME NEW S \in SUBSET Nat, S # {}
  PROVE  Min(S) \in S /\ \A y \in S : Min(S) <= y
  <1>1. \A x, y \in Nat : <<y, x>> \in OpToRel(<, Nat) <=> y < x
    BY DEF OpToRel
  <1>2. \E x \in S : \A y \in S : ~ (<<y, x>> \in OpToRel(<, Nat))
    BY NatLessThanWellFounded, WFMin
  <1>3. PICK x \in S : \A y \in S : ~ (y < x)
    BY <1>1, <1>2
  <1>4. \A y \in S : x <= y
    BY <1>3
  <1> QED BY <1>4 DEF Min

LEMMA FirstDrops ==
  ASSUME NEW S, NEW s \in Seq(S), NEW live \in SUBSET DOMAIN s
  PROVE  /\ FromFirst(s, live) \in Seq(S)
         /\ \E d \in Nat : Drops(FromFirst(s, live), s, d) /\ \A i \in live : i > d
  <1>1. Len(s) \in Nat /\ DOMAIN s = 1 .. Len(s)
    BY LenProperties
  <1>2. CASE live = {}
    <2>1. FromFirst(s, live) = << >>
      BY <1>2 DEF FromFirst
    <2>2. << >> \in Seq(S) /\ Len(<< >>) = 0 /\ DOMAIN << >> = {}
      BY EmptySeq
    <2>3. Drops(<< >>, s, Len(s))
      BY <1>1, <2>2 DEF Drops
    <2> QED BY <1>1, <1>2, <2>1, <2>2, <2>3
  <1>3. CASE live # {}
    <2>1. live \in SUBSET Nat
      BY <1>1
    <2>2. PICK m \in Nat : m = Min(live) /\ m \in live /\ \A y \in live : m <= y
      BY <1>3, <2>1, LeastOf
    <2>3. m \in 1 .. Len(s)
      BY <1>1, <2>2
    <2>4. FromFirst(s, live) = SubSeq(s, m, Len(s))
      BY <1>3, <2>2 DEF FromFirst
    <2>5. PICK t : t = SubSeq(s, m, Len(s))
      OBVIOUS
    <2>6. t \in Seq(S) /\ Len(t) = Len(s) - m + 1 /\ \A i \in 1 .. Len(s) - m + 1 : t[i] = s[m + i - 1]
      BY <1>1, <2>3, <2>5, SubSeqProperties, ElementOfSeq
    <2>7. DOMAIN t = 1 .. Len(t)
      BY <2>6, LenProperties
    <2>8. PICK d \in Nat : d = m - 1
      BY <2>3
    <2>9. Drops(t, s, d)
      <3>1. d \in 0 .. Len(s) /\ Len(t) = Len(s) - d
        BY <1>1, <2>3, <2>6, <2>8
      <3>2. DOMAIN t = 1 .. Len(s) - d
        BY <2>7, <3>1
      <3>3. ASSUME NEW i \in DOMAIN t PROVE i + d \in DOMAIN s /\ t[i] = s[i + d]
        <4>1. i \in 1 .. Len(s) - m + 1 /\ m + i - 1 = i + d /\ i + d \in 1 .. Len(s)
          BY <1>1, <2>3, <2>8, <3>1, <3>2
        <4> QED BY <1>1, <2>6, <4>1
      <3> QED BY <1>1, <3>1, <3>2, <3>3 DEF Drops
    <2>10. \A i \in live : i > d
      BY <1>1, <2>2, <2>8
    <2> QED BY <2>4, <2>5, <2>6, <2>9, <2>10
  <1> QED BY <1>2, <1>3

\* Counted from the end, d is what is between the two.
LEMMA NoMore ==
  ASSUME NEW A \in SUBSET Int, NEW B, IsFiniteSet(B), NEW d \in Int, \A i \in A : i + d \in B
  PROVE  Cardinality(A) <= Cardinality(B) /\ IsFiniteSet(A)
  <1>1. PICK f : f = [i \in A |-> i + d]
    OBVIOUS
  <1>2. f \in [A -> B] /\ \A i, j \in A : f[i] = f[j] => i = j
    BY <1>1
  <1>3. f \in Injection(A, B)
    BY <1>2 DEF Injection, IsInjective
  <1> QED BY <1>3, FS_Injection

LEMMA CountedFinite ==
  ASSUME NEW S, NEW s \in Seq(S), NEW A \in SUBSET DOMAIN s
  PROVE  IsFiniteSet(A) /\ Cardinality(A) \in Nat /\ A \in SUBSET Int
  <1>1. Len(s) \in Nat /\ DOMAIN s = 1 .. Len(s)
    BY LenProperties
  <1>2. IsFiniteSet(1 .. Len(s))
    BY <1>1, FS_Interval
  <1>3. IsFiniteSet(A)
    BY <1>1, <1>2, FS_Subset
  <1> QED BY <1>1, <1>3, FS_CardinalityType

-----------------------------------------------------------------------------
\* What leaves the ring does not count.
LEMMA HitsLeave ==
  ASSUME NEW a \in Seq(Pass), NEW s \in Seq(Hit), NEW t \in Seq(Hit), NEW d \in Nat, NEW sec \in Nat,
         NEW asof \in Nat, asof <= sec, Drops(t, s, d), Aligned(a, s, sec),
         \A p \in DOMAIN s : p <= d => ~ InWindow(s[p], asof)
  PROVE  Aligned(a, t, sec)
  <1>1. Len(a) \in Nat /\ DOMAIN a = 1 .. Len(a) /\ Len(t) = Len(s) - d /\ Len(s) \in Nat /\ d <= Len(s)
        /\ DOMAIN s = 1 .. Len(s) /\ DOMAIN t = 1 .. Len(t)
    BY LenProperties DEF Drops
  <1> SUFFICES ASSUME NEW i \in DOMAIN a
               PROVE  IF i + Len(t) > Len(a) THEN Matched(a[i], t[i + Len(t) - Len(a)])
                                             ELSE ~ StillCounts(a[i], sec)
    BY DEF Aligned
  <1>2. i \in Nat \ {0} /\ i <= Len(a)
    BY <1>1
  <1>3. CASE i + Len(t) > Len(a)
    <2>1. i + Len(s) > Len(a) /\ i + Len(t) - Len(a) \in DOMAIN t
          /\ (i + Len(t) - Len(a)) + d = i + Len(s) - Len(a)
      BY <1>1, <1>2, <1>3
    <2>2. Matched(a[i], s[i + Len(s) - Len(a)])
      BY <2>1 DEF Aligned
    <2>3. t[i + Len(t) - Len(a)] = s[i + Len(s) - Len(a)]
      BY <2>1 DEF Drops
    <2> QED BY <1>3, <2>2, <2>3
  <1>4. CASE ~ (i + Len(t) > Len(a)) /\ i + Len(s) > Len(a)
    <2>1. PICK p \in DOMAIN s : p = i + Len(s) - Len(a) /\ p <= d
      BY <1>1, <1>2, <1>4
    <2>2. Matched(a[i], s[p]) /\ ~ InWindow(s[p], asof)
      BY <1>4, <2>1 DEF Aligned
    <2>3. PICK at, ts \in Nat : at = a[i].at /\ ts = s[p].ts
      <3>1. a[i] \in Pass /\ s[p] \in Hit
        BY <1>1, ElementOfSeq
      <3> QED BY ONLY <3>1 DEF Hit, Pass
    <2>a. a[i].at <= s[p].ts + MaxDelay /\ ~ (asof <= s[p].ts + Window)
      BY ONLY <2>2 DEF Matched, InWindow
    <2>b. at <= ts + MaxDelay /\ ~ (asof <= ts + Window)
      BY ONLY <2>a, <2>3
    <2>4. at <= ts + MaxDelay /\ asof > ts + Window
      BY ONLY <2>b, <2>3, LimitNumbers, asof \in Nat
    <2>5. ~ (at + Window >= sec + MaxDelay)
      BY <2>4, LimitNumbers
    <2> QED BY <1>4, <2>3, <2>5 DEF StillCounts
  <1>5. CASE ~ (i + Len(t) > Len(a)) /\ ~ (i + Len(s) > Len(a))
    BY <1>5 DEF Aligned
  <1> QED BY <1>3, <1>4, <1>5

\* A second passes, and what does not count any more may be forgotten.
LEMMA PassesLeave ==
  ASSUME NEW a \in Seq(Pass), NEW b \in Seq(Pass), NEW s \in Seq(Hit), NEW d \in Nat, NEW sec \in Nat,
         Drops(b, a, d), Aligned(a, s, sec)
  PROVE  Aligned(b, s, sec + 1)
  <1>1. Len(s) \in Nat /\ DOMAIN a = 1 .. Len(a) /\ Len(b) = Len(a) - d /\ Len(a) \in Nat /\ d <= Len(a)
        /\ DOMAIN b = 1 .. Len(b)
    BY LenProperties DEF Drops
  <1> SUFFICES ASSUME NEW i \in DOMAIN b
               PROVE  IF i + Len(s) > Len(b) THEN Matched(b[i], s[i + Len(s) - Len(b)])
                                             ELSE ~ StillCounts(b[i], sec + 1)
    BY DEF Aligned
  <1>2. i \in Nat \ {0} /\ i + d \in DOMAIN a /\ b[i] = a[i + d] /\ b[i] \in Pass
    BY <1>1, ElementOfSeq DEF Drops
  <1>3. (i + Len(s) > Len(b) <=> (i + d) + Len(s) > Len(a)) /\ i + Len(s) - Len(b) = (i + d) + Len(s) - Len(a)
    BY ONLY <1>1, <1>2, d \in Nat
  <1>4. CASE i + Len(s) > Len(b)
    <2>1. Matched(a[i + d], s[(i + d) + Len(s) - Len(a)])
      BY <1>2, <1>3, <1>4 DEF Aligned
    <2> QED BY <1>2, <1>3, <1>4, <2>1
  <1>5. CASE ~ (i + Len(s) > Len(b))
    <2>1. ~ StillCounts(b[i], sec)
      BY <1>2, <1>3, <1>5 DEF Aligned
    <2>2. PICK at \in Nat : at = b[i].at
      BY ONLY <1>2 DEF Pass
    <2>3. ~ (at + Window >= sec + MaxDelay)
      BY ONLY <2>1, <2>2 DEF StillCounts
    <2>4. ~ (at + Window >= (sec + 1) + MaxDelay)
      BY ONLY <2>3, LimitNumbers, at \in Nat, sec \in Nat
    <2> QED BY ONLY <1>5, <2>2, <2>4 DEF StillCounts
  <1> QED BY <1>4, <1>5

\* A request let through is entered in the ring.
LEMMA BothGrow ==
  ASSUME NEW a \in Seq(Pass), NEW s \in Seq(Hit), NEW p \in Pass, NEW e \in Hit, NEW sec \in Nat,
         Matched(p, e), Aligned(a, s, sec)
  PROVE  Aligned(Append(a, p), Append(s, e), sec)
  <1>1. PICK b \in Seq(Pass), t \in Seq(Hit) : b = Append(a, p) /\ t = Append(s, e)
    BY AppendProperties
  <1>2. /\ Len(a) \in Nat /\ DOMAIN a = 1 .. Len(a) /\ Len(b) = Len(a) + 1 /\ DOMAIN b = 1 .. Len(b)
        /\ b[Len(a) + 1] = p /\ \A i \in DOMAIN a : b[i] = a[i]
    BY <1>1, AppendProperties, LenProperties
  <1>3. /\ Len(s) \in Nat /\ DOMAIN s = 1 .. Len(s) /\ Len(t) = Len(s) + 1 /\ DOMAIN t = 1 .. Len(t)
        /\ t[Len(s) + 1] = e /\ \A i \in DOMAIN s : t[i] = s[i]
    BY <1>1, AppendProperties, LenProperties
  <1>4. ASSUME NEW i \in DOMAIN b
        PROVE  IF i + Len(t) > Len(b) THEN Matched(b[i], t[i + Len(t) - Len(b)])
                                      ELSE ~ StillCounts(b[i], sec)
    <2>1. i + Len(t) - Len(b) = i + Len(s) - Len(a) /\ (i + Len(t) > Len(b) <=> i + Len(s) > Len(a))
          /\ i \in Nat \ {0} /\ (i \in DOMAIN a \/ i = Len(a) + 1)
      BY <1>2, <1>3
    <2>2. CASE i = Len(a) + 1
      <3>1. i + Len(s) - Len(a) = Len(s) + 1 /\ i + Len(s) > Len(a)
        BY <1>2, <1>3, <2>2
      <3> QED BY <1>2, <1>3, <2>1, <2>2, <3>1
    <2>3. CASE i \in DOMAIN a /\ i + Len(s) > Len(a)
      <3>1. i + Len(s) - Len(a) \in DOMAIN s
        BY <1>2, <1>3, <2>3
      <3>2. Matched(a[i], s[i + Len(s) - Len(a)])
        BY <2>3 DEF Aligned
      <3> QED BY <1>2, <1>3, <2>1, <2>3, <3>1, <3>2
    <2>4. CASE i \in DOMAIN a /\ ~ (i + Len(s) > Len(a))
      <3>1. ~ StillCounts(a[i], sec)
        BY <2>4 DEF Aligned
      <3> QED BY <1>2, <2>1, <2>4, <3>1
    <2> QED BY <2>1, <2>2, <2>3, <2>4
  <1> QED BY <1>1, <1>4 DEF Aligned

CountedIn(a, k, sec) == {i \in DOMAIN a : a[i].key = k /\ StillCounts(a[i], sec)}

\* What counts has an entry that matches.
LEMMA CountedMatch ==
  ASSUME NEW a \in Seq(Pass), NEW s \in Seq(Hit), NEW sec \in Nat, NEW asof \in Nat, asof <= sec, NEW k,
         Aligned(a, s, sec)
  PROVE  Cardinality(CountedIn(a, k, sec)) <= Cardinality(Matches(s, k, asof))
  <1>1. Len(a) \in Nat /\ DOMAIN a = 1 .. Len(a) /\ Len(s) \in Nat /\ DOMAIN s = 1 .. Len(s)
    BY LenProperties
  <1>0. \A m, n \in Nat : n - m \in Int
    OBVIOUS
  <1>a. Len(s) - Len(a) \in Int
    BY ONLY <1>0, <1>1
  <1>2. PICK d \in Int : d = Len(s) - Len(a)
    BY <1>a
  <1>3. ASSUME NEW i \in CountedIn(a, k, sec) PROVE i + d \in Matches(s, k, asof)
    <2>1. i \in DOMAIN a /\ a[i].key = k /\ StillCounts(a[i], sec) /\ i \in Nat /\ i <= Len(a)
      BY <1>1 DEF CountedIn
    <2>2. i + Len(s) > Len(a) /\ Matched(a[i], s[i + Len(s) - Len(a)])
      BY <2>1 DEF Aligned
    <2>3. i + d = i + Len(s) - Len(a) /\ i + d \in DOMAIN s
      BY <1>1, <1>2, <2>1, <2>2
    <2>4. PICK p \in DOMAIN s : p = i + d
      BY <2>3
    <2>5. Matched(a[i], s[p])
      BY <2>2, <2>3, <2>4
    <2>6. PICK at, ts \in Nat : at = a[i].at /\ ts = s[p].ts
      <3>1. a[i] \in Pass /\ s[p] \in Hit
        BY <1>1, <2>1, ElementOfSeq
      <3> QED BY ONLY <3>1 DEF Hit, Pass
    <2>7. at <= ts + MaxDelay /\ at + Window >= sec + MaxDelay
      BY <2>1, <2>5, <2>6 DEF Matched, StillCounts
    <2>8. asof <= ts + Window
      BY <2>7, LimitNumbers
    <2> QED BY <2>1, <2>4, <2>5, <2>6, <2>8 DEF Matches, Matched, InWindow
  <1>4. CountedIn(a, k, sec) \in SUBSET Int
    BY CountedFinite DEF CountedIn
  <1>5. IsFiniteSet(Matches(s, k, asof))
    BY CountedFinite DEF Matches
  <1> QED BY <1>2, <1>3, <1>4, <1>5, NoMore

LEMMA OneMoreCounts ==
  ASSUME NEW a \in Seq(Pass), NEW p \in Pass, NEW sec \in Nat, NEW k
  PROVE  /\ p.key = k => Cardinality(CountedIn(Append(a, p), k, sec)) <= Cardinality(CountedIn(a, k, sec)) + 1
         /\ p.key # k => CountedIn(Append(a, p), k, sec) = CountedIn(a, k, sec)
  <1>1. PICK b \in Seq(Pass) : b = Append(a, p)
    BY AppendProperties
  <1>2. /\ Len(a) \in Nat /\ DOMAIN a = 1 .. Len(a) /\ Len(b) = Len(a) + 1 /\ DOMAIN b = 1 .. Len(b)
        /\ b[Len(a) + 1] = p /\ \A i \in DOMAIN a : b[i] = a[i]
    BY <1>1, AppendProperties, LenProperties
  <1>3. DOMAIN b = DOMAIN a \cup {Len(a) + 1} /\ Len(a) + 1 \notin DOMAIN a
    BY <1>2
  <1>4. p.key # k => CountedIn(b, k, sec) = CountedIn(a, k, sec)
    BY <1>2, <1>3 DEF CountedIn
  <1>5. Cardinality(CountedIn(b, k, sec)) <= Cardinality(CountedIn(a, k, sec)) + 1
    <2>1. PICK A, B : A = CountedIn(a, k, sec) /\ B = CountedIn(b, k, sec)
      OBVIOUS
    <2>2. IsFiniteSet(A) /\ Cardinality(A) \in Nat
      BY <2>1, CountedFinite DEF CountedIn
    <2>3. Len(a) + 1 \notin A /\ B \subseteq A \cup {Len(a) + 1}
      BY <1>2, <1>3, <2>1 DEF CountedIn
    <2>4. IsFiniteSet(A \cup {Len(a) + 1}) /\ Cardinality(A \cup {Len(a) + 1}) = Cardinality(A) + 1
      BY <2>2, <2>3, FS_AddElement
    <2>5. Cardinality(B) <= Cardinality(A \cup {Len(a) + 1})
      BY <2>3, <2>4, FS_Subset
    <2> QED BY ONLY <2>1, <2>4, <2>5
  <1> QED BY <1>1, <1>4, <1>5

LEMMA PassesCount ==
  ASSUME NEW a \in Seq(Pass), NEW b \in Seq(Pass), NEW sec \in Nat, NEW k, NEW d \in Nat, Drops(b, a, d)
  PROVE  Cardinality(CountedIn(b, k, sec + 1)) <= Cardinality(CountedIn(a, k, sec))
  <1>1. ASSUME NEW i \in CountedIn(b, k, sec + 1) PROVE i + d \in CountedIn(a, k, sec)
    <2>1. i \in DOMAIN b /\ b[i].key = k /\ StillCounts(b[i], sec + 1)
      BY DEF CountedIn
    <2>2. i + d \in DOMAIN a /\ b[i] = a[i + d]
      BY <2>1 DEF Drops
    <2>3. PICK at \in Nat : at = b[i].at
      <3>1. b[i] \in Pass
        BY <2>1, LenProperties, ElementOfSeq
      <3> QED BY ONLY <3>1 DEF Pass
    <2>4. StillCounts(b[i], sec)
      BY <2>1, <2>3, LimitNumbers DEF StillCounts
    <2> QED BY <2>1, <2>2, <2>4 DEF CountedIn
  <1>2. CountedIn(b, k, sec + 1) \in SUBSET Int
    BY CountedFinite DEF CountedIn
  <1>3. IsFiniteSet(CountedIn(a, k, sec))
    BY CountedFinite DEF CountedIn
  <1>4. d \in Int
    OBVIOUS
  <1> QED BY ONLY <1>1, <1>2, <1>3, <1>4, NoMore

-----------------------------------------------------------------------------
LEMMA LimitStart == LimitInit => LimitInv
  <1> SUFFICES ASSUME LimitInit PROVE LimitInv
    OBVIOUS
  <1>0. << >> \in Seq(Hit) /\ << >> \in Seq(Pass)
    BY EmptySeq
  <1>a. OnTime
    BY DEF LimitInit, OnTime
  <1>b. second \in Nat /\ overwrote \in BOOLEAN
    BY DEF LimitInit
  <1>c. asked \in [Handlers -> {<< >>} \cup (Sources \X Nat)]
    BY DEF LimitInit
  <1>d. hits \in Seq(Hit) /\ admitted \in Seq(Pass)
    BY <1>0 DEF LimitInit
  <1>1. LimitTypes /\ OnTime
    BY <1>a, <1>b, <1>c, <1>d DEF LimitTypes
  <1>2. \A k \in Sources : Counted(k) = {}
    BY DEF LimitInit, Counted
  <1>3. LimitHolds
    BY <1>2, FS_EmptySet, LimitNumbers DEF LimitHolds
  <1>4. Aligned(admitted, hits, second)
    BY DEF LimitInit, Aligned
  <1> QED BY <1>1, <1>3, <1>4 DEF LimitInv

LEMMA ArriveKeeps == ASSUME LimitInv, NEW r \in Handlers, NEW k \in Sources, Arrive(r, k) PROVE LimitInv'
  <1>1. asked' = [asked EXCEPT ![r] = <<k, second>>] /\ UNCHANGED <<second, hits, admitted, overwrote>>
        /\ second \in Nat /\ asked \in [Handlers -> {<< >>} \cup (Sources \X Nat)]
    BY DEF Arrive, LimitInv, LimitTypes
  <1>2. <<k, second>> \in Sources \X Nat
    BY <1>1
  <1>3. LimitTypes'
    BY <1>1, <1>2 DEF LimitInv, LimitTypes
  <1>4. asked'[r][2] = second /\ \A w \in Handlers : w # r => asked'[w] = asked[w]
    BY <1>1
  <1>5. OnTime'
    BY <1>1, <1>4, LimitNumbers DEF LimitInv, OnTime
  <1>6. LimitHolds' = LimitHolds
    BY <1>1 DEF LimitHolds, Counted, StillCounts
  <1> QED BY <1>1, <1>3, <1>5, <1>6 DEF LimitInv, Aligned, StillCounts, Matched

LEMMA SecondKeeps == ASSUME LimitInv, TickSecond PROVE LimitInv'
  <1>1. /\ second \in Nat /\ second' = second + 1 /\ UNCHANGED <<asked, hits, overwrote>>
        /\ admitted \in Seq(Pass) /\ hits \in Seq(Hit)
        /\ asked \in [Handlers -> {<< >>} \cup (Sources \X Nat)]
        /\ \A r \in Handlers : asked[r] # << >> => second < asked[r][2] + MaxDelay
    BY DEF TickSecond, LimitInv, LimitTypes
  <1>2. PICK live \in SUBSET DOMAIN admitted : admitted' = FromFirst(admitted, live)
    BY DEF TickSecond
  <1>3. PICK b \in Seq(Pass), d \in Nat : b = admitted' /\ Drops(b, admitted, d)
    BY <1>1, <1>2, FirstDrops
  <1>4. LimitTypes'
    BY <1>1, <1>3 DEF LimitInv, LimitTypes
  <1>5. OnTime'
    <2> SUFFICES ASSUME NEW r \in Handlers, asked[r] # << >>
                 PROVE  asked[r][2] <= second + 1 /\ second + 1 <= asked[r][2] + MaxDelay
      BY <1>1 DEF OnTime
    <2>1. asked[r][2] \in Nat
      BY <1>1
    <2>2. asked[r][2] <= second /\ second < asked[r][2] + MaxDelay
      BY <1>1 DEF LimitInv, OnTime
    <2> QED BY <1>1, <2>1, <2>2, LimitNumbers
  <1>6. ~ overwrote' => Aligned(b, hits, second + 1)
    BY <1>1, <1>3, PassesLeave DEF LimitInv
  <1>7. ~ overwrote' => \A k \in Sources : Cardinality(CountedIn(b, k, second + 1)) <= Limit
    <2> SUFFICES ASSUME ~ overwrote, NEW k \in Sources PROVE Cardinality(CountedIn(b, k, second + 1)) <= Limit
      BY <1>1
    <2>1. Cardinality(CountedIn(b, k, second + 1)) <= Cardinality(CountedIn(admitted, k, second))
      BY <1>1, <1>3, PassesCount
    <2>2. Cardinality(CountedIn(admitted, k, second)) <= Limit
      BY DEF LimitInv, LimitHolds, Counted, CountedIn
    <2>3. Cardinality(CountedIn(b, k, second + 1)) \in Nat /\ Cardinality(CountedIn(admitted, k, second)) \in Nat
      BY <1>1, CountedFinite DEF CountedIn
    <2> QED BY <2>1, <2>2, <2>3, LimitNumbers
  <1>8. LimitHolds'
    BY <1>1, <1>3, <1>7 DEF LimitHolds, Counted, CountedIn
  <1> QED BY <1>1, <1>3, <1>4, <1>5, <1>6, <1>8 DEF LimitInv

LEMMA DecideKeeps == ASSUME LimitInv, NEW r \in Handlers, Decide(r) PROVE LimitInv'
  <1>1. /\ second \in Nat /\ second' = second /\ asked' = [asked EXCEPT ![r] = << >>]
        /\ admitted \in Seq(Pass) /\ hits \in Seq(Hit) /\ overwrote \in BOOLEAN
        /\ asked \in [Handlers -> {<< >>} \cup (Sources \X Nat)] /\ asked[r] # << >>
    BY DEF Decide, LimitInv, LimitTypes
  <1>2. PICK k \in Sources, asof \in Nat : asked[r] = <<k, asof>>
    BY <1>1
  <1>3. asof <= second /\ second <= asof + MaxDelay
    BY <1>2, <1>1 DEF LimitInv, OnTime
  <1>4. PICK kept \in Seq(Hit), d \in Nat :
          /\ kept = EvictOld(hits, asof) /\ Drops(kept, hits, d)
          /\ \A p \in DOMAIN hits : p <= d => ~ InWindow(hits[p], asof)
    <2>1. PICK live \in SUBSET DOMAIN hits : live = {i \in DOMAIN hits : InWindow(hits[i], asof)}
      OBVIOUS
    <2>2. PICK t \in Seq(Hit), e \in Nat : t = FromFirst(hits, live) /\ Drops(t, hits, e) /\ \A i \in live : i > e
      BY <1>1, FirstDrops
    <2>3. \A p \in DOMAIN hits : p \in Nat
      BY <1>1, LenProperties
    <2>4. \A p \in DOMAIN hits : p <= e => ~ InWindow(hits[p], asof)
      BY <2>1, <2>2, <2>3
    <2>5. t = EvictOld(hits, asof)
      BY <2>1, <2>2 DEF EvictOld
    <2> QED BY <2>2, <2>4, <2>5
  <1>5. PICK e \in Hit, p \in Pass : e = [key |-> k, ts |-> asof] /\ p = [key |-> k, at |-> second]
    BY <1>1 DEF Hit, Pass
  <1> DEFINE over == Cardinality(Matches(kept, k, asof)) >= Limit
  <1>6. /\ hits' = (IF over THEN kept ELSE Enter(kept, e))
        /\ overwrote' = (overwrote \/ (~over /\ Len(kept) >= RateRing))
        /\ admitted' = (IF overwrote' THEN << >> ELSE IF over THEN admitted ELSE Append(admitted, p))
    BY <1>2, <1>4, <1>5 DEF Decide
  <1> HIDE DEF over
  <1>7. OnTime'
    BY <1>1 DEF LimitInv, OnTime
  <1>8. Len(kept) \in Nat /\ (kept # << >> => Tail(kept) \in Seq(Hit))
    BY LenProperties, HeadTailProperties
  <1>9. Enter(kept, e) \in Seq(Hit) /\ (Len(kept) < RateRing => Enter(kept, e) = Append(kept, e))
    <2>1. Len(kept) >= RateRing => Tail(kept) \in Seq(Hit)
      <3>1. Len(kept) >= RateRing => Len(kept) # 0
        BY <1>8, LimitAssumption
      <3>2. Len(<< >>) = 0
        OBVIOUS
      <3> QED BY <1>8, <3>1, <3>2
    <2>2. \A s \in Seq(Hit) : Append(s, e) \in Seq(Hit)
      BY AppendProperties
    <2>3. Len(kept) < RateRing => ~ (Len(kept) >= RateRing)
      BY <1>8, LimitNumbers
    <2> QED BY <2>1, <2>2, <2>3 DEF Enter
  <1>10. Append(admitted, p) \in Seq(Pass) /\ << >> \in Seq(Pass)
    BY <1>1, AppendProperties, EmptySeq
  <1>11. LimitTypes'
    <2>1. asked' \in [Handlers -> {<< >>} \cup (Sources \X Nat)]
      BY <1>1
    <2>2. hits' \in Seq(Hit) /\ admitted' \in Seq(Pass) /\ overwrote' \in BOOLEAN
      BY <1>1, <1>6, <1>9, <1>10
    <2> QED BY <1>1, <2>1, <2>2 DEF LimitTypes
  <1>12. ASSUME ~ overwrote'
         PROVE  /\ Aligned(admitted', hits', second)
                /\ \A j \in Sources : Cardinality(CountedIn(admitted', j, second)) <= Limit
    <2>0. ~ overwrote /\ ~ (~ over /\ Len(kept) >= RateRing)
      <3>1. overwrote' \in BOOLEAN /\ overwrote \in BOOLEAN
        BY <1>1, <1>11 DEF LimitTypes
      <3> QED BY ONLY <3>1, <1>6, <1>12
    <2>a. Len(kept) >= RateRing \/ Len(kept) < RateRing
      BY <1>8, LimitNumbers
    <2>1. ~ overwrote /\ (over \/ Len(kept) < RateRing)
      BY ONLY <2>0, <2>a
    <2>2. Aligned(admitted, kept, second)
      BY <1>1, <1>3, <1>4, <2>1, HitsLeave DEF LimitInv
    <2>3. \A j \in Sources : Cardinality(CountedIn(admitted, j, second)) <= Limit
      BY <2>1 DEF LimitInv, LimitHolds, Counted, CountedIn
    <2>4. CASE over
      BY <1>6, <1>12, <2>2, <2>3, <2>4
    <2>5. CASE ~ over
      <3>1. hits' = Append(kept, e) /\ admitted' = Append(admitted, p)
        BY <1>6, <1>9, <1>12, <2>1, <2>5
      <3>2. Matched(p, e)
        BY <1>1, <1>3, <1>5 DEF Matched
      <3>3. Aligned(Append(admitted, p), Append(kept, e), second)
        BY <1>1, <2>2, <3>2, BothGrow
      <3>4. \A j \in Sources : Cardinality(CountedIn(Append(admitted, p), j, second)) <= Limit
        <4> SUFFICES ASSUME NEW j \in Sources
                     PROVE  Cardinality(CountedIn(Append(admitted, p), j, second)) <= Limit
          OBVIOUS
        <4>1. CASE j # k
          BY <1>1, <1>5, <2>3, <4>1, OneMoreCounts
        <4>2. CASE j = k
          <5>1. Cardinality(CountedIn(admitted, k, second)) <= Cardinality(Matches(kept, k, asof))
            BY <1>1, <1>3, <2>2, CountedMatch
          <5>2. Cardinality(CountedIn(Append(admitted, p), k, second)) <= Cardinality(CountedIn(admitted, k, second)) + 1
            BY <1>1, <1>5, OneMoreCounts
          <5>3. /\ Cardinality(CountedIn(Append(admitted, p), k, second)) \in Nat
                /\ Cardinality(CountedIn(admitted, k, second)) \in Nat
                /\ Cardinality(Matches(kept, k, asof)) \in Nat
            BY <1>1, <1>10, CountedFinite DEF CountedIn, Matches
          <5>4. ~ (Cardinality(Matches(kept, k, asof)) >= Limit)
            BY <2>5 DEF over
          <5> QED BY <4>2, <5>1, <5>2, <5>3, <5>4, LimitNumbers
        <4> QED BY <4>1, <4>2
      <3> QED BY <3>1, <3>3, <3>4
    <2> QED BY <2>4, <2>5
  <1>13. LimitHolds'
    BY <1>1, <1>12 DEF LimitHolds, Counted, CountedIn
  <1> QED BY <1>1, <1>7, <1>11, <1>12, <1>13 DEF LimitInv

LEMMA LimitStepKeeps == LimitInv /\ [LimitNext]_limitVars => LimitInv'
  <1> SUFFICES ASSUME LimitInv, [LimitNext]_limitVars PROVE LimitInv'
    OBVIOUS
  <1>1. CASE UNCHANGED limitVars
    BY <1>1 DEF limitVars, LimitInv, LimitTypes, OnTime, LimitHolds, Counted, StillCounts, Aligned, Matched
  <1> QED BY <1>1, SecondKeeps, DecideKeeps, ArriveKeeps DEF LimitNext

\* In whatever order the workers get the lock, no key is let through more often
\* than the limit within the window, less what a request can wait for the lock,
\* until a full ring gives up an entry.
THEOREM LimitAlways == LimitSpec => []LimitHolds
  <1>1. LimitInv => LimitHolds
    BY DEF LimitInv
  <1> QED BY <1>1, LimitStart, LimitStepKeeps, PTL DEF LimitSpec

=============================================================================
